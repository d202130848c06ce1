------------------------------ MODULE Solvency ------------------------------
(***************************************************************************)
(* The insolvency timer of a job in operator/control-plane/src/market.rs:  *)
(* insolvency_duration, the balances process_log keeps, and the select!    *)
(* branch that is armed with it on every turn of job_manager_once.  Time   *)
(* moves in seconds.  An expired timer is seen by the task's next poll, so *)
(* while the task waits at the select! no second passes after the timer    *)
(* has expired; but it is one task, and while another branch holds it (the *)
(* ssh calls of a heartbeat, the 100 s of a spin_up), or its worker thread *)
(* is held by others, time goes on and the timer does not.                 *)
(***************************************************************************)
EXTENDS Naturals

CONSTANTS
  Scale,      \* 10^12: a rate of Scale is one unit of balance per second
  Margin,     \* 300 seconds
  U256, U64,  \* one more than the largest value of the type
  Rates,      \* rates of the contract
  Amounts,    \* amounts of the contract
  MinRate,    \* min_rate of the job's rate card
  MaxTime,    \* bound: the clock
  MaxBalance  \* bound: what a job may hold

ASSUME SolvencyAssumption ==
  /\ Scale \in Nat \ {0} /\ Margin \in Nat
  /\ U256 \in Nat \ {0} /\ U64 \in Nat
  /\ Rates \subseteq Nat /\ Amounts \subseteq Nat /\ MinRate \in Nat
  /\ MaxTime \in Nat /\ MaxBalance \in Nat
  /\ MaxTime + Margin + 1 < U64

VARIABLES
  now,                                         \* now_timestamp()
  balance, rate, original_rate, last_settled,  \* of JobState
  up,                                          \* no termination is scheduled
  task,   \* at the top of a turn, waiting at the select!, or held elsewhere
  since   \* history: when the task was last at the select!

money     == <<balance, rate, original_rate, last_settled>>
timerVars == <<now, money, up, task, since>>

SatSub(a, b) == IF a < b THEN 0 ELSE a - b
SatU64(a)    == IF a < U64 THEN a ELSE U64 - 1

\* Faulty variant: the margin is on the wrong side.
insolvency_duration_Late ==
  IF rate = 0 THEN 0
  ELSE SatSub(SatU64(((balance * Scale) % U256) \div rate) + Margin,
              SatSub(now, last_settled))

\* Faulty variant: the division is done first.
insolvency_duration_Coarse ==
  IF rate = 0 THEN 0
  ELSE SatSub(SatSub(SatU64((balance \div rate) * Scale), Margin),
              SatSub(now, last_settled))

insolvency_duration ==
  IF rate = 0 THEN 0
  ELSE SatSub(SatSub(SatU64(((balance * Scale) % U256) \div rate), Margin),
              SatSub(now, last_settled))

TimerTypeOK ==
  /\ now \in 0..MaxTime
  /\ balance \in 0..MaxBalance
  /\ rate \in Nat /\ original_rate \in Nat
  /\ last_settled \in 0..now
  /\ up \in BOOLEAN
  /\ task \in {"turn", "wait", "held"}
  /\ since \in 0..now
  /\ task # "held" => since = now

\* JobOpened has just been processed, some time after it was emitted.
TimerInit ==
  /\ now \in 0..MaxTime /\ last_settled \in 0..now
  /\ balance \in {a \in Amounts : a <= MaxBalance}
  /\ rate \in Rates /\ original_rate = rate
  /\ up = (rate >= MinRate)
  /\ task = "turn" /\ since = now

TimerDue == up /\ insolvency_duration = 0

\* A second passes, at the select! or while the task is held.
Tick ==
  /\ now < MaxTime
  /\ now' = now + 1
  /\ \/ /\ task = "held"
        /\ UNCHANGED <<task, since>>
     \/ /\ task # "held" /\ ~TimerDue
        /\ task' = "wait"
        /\ since' = now'
  /\ UNCHANGED <<money, up>>

\* The heartbeat, which is polled before the timer but never ready in the first
\* poll of a turn; or change_infra, which is polled after it; or no poll at all.
Hold ==
  /\ task # "held"
  /\ TimerDue => task = "wait"
  /\ task' = "held"
  /\ UNCHANGED <<now, money, up, since>>

\* The next turn begins.  The heartbeat may have scheduled a launch.
Return ==
  /\ task = "held"
  /\ task' = "turn"
  /\ since' = now
  /\ \/ up' = up
     \/ rate >= MinRate /\ up' = TRUE
  /\ UNCHANGED <<now, money>>

\* A branch that runs without an await: the next turn begins at once.
Turn ==
  /\ task # "held"
  /\ task' = "turn"
  /\ UNCHANGED <<now, since>>

handle_insolvency ==
  /\ Turn
  /\ TimerDue
  /\ up' = FALSE
  /\ UNCHANGED money

-----------------------------------------------------------------------------
(* process_log                                                             *)

\* The contract settles what the job has, at a time that has passed.
Settled(a, t) ==
  /\ Turn
  /\ a <= balance /\ last_settled <= t /\ t <= now
  /\ balance' = balance - a
  /\ last_settled' = t
  /\ UNCHANGED <<rate, original_rate, up>>

Deposited(a) ==
  /\ Turn
  /\ balance + a <= MaxBalance
  /\ balance' = balance + a
  /\ UNCHANGED <<rate, original_rate, last_settled, up>>

\* The contract pays out what the job has.
Withdrew(a) ==
  /\ Turn
  /\ a <= balance
  /\ balance' = balance - a
  /\ UNCHANGED <<rate, original_rate, last_settled, up>>

RateInitiated(r) ==
  /\ Turn
  /\ original_rate' = rate
  /\ rate' = r
  /\ up' = (up /\ r >= MinRate)
  /\ UNCHANGED <<balance, last_settled>>

RateCancelled ==
  /\ Turn
  /\ rate' = original_rate
  /\ UNCHANGED <<balance, original_rate, last_settled, up>>

RateFinalized ==
  /\ Turn
  /\ original_rate' = rate
  /\ UNCHANGED <<balance, rate, last_settled, up>>

JobClosed       == Turn /\ up' = FALSE /\ UNCHANGED money
MetadataUpdated == Turn /\ up' = TRUE /\ UNCHANGED money

TimerNext ==
  \/ Tick \/ Hold \/ Return \/ handle_insolvency
  \/ \E a \in Amounts : \/ Deposited(a) \/ Withdrew(a)
                        \/ \E t \in 0..MaxTime : Settled(a, t)
  \/ \E r \in Rates : RateInitiated(r)
  \/ RateCancelled \/ RateFinalized \/ JobClosed \/ MetadataUpdated

TimerSpec == TimerInit /\ [][TimerNext]_timerVars

-----------------------------------------------------------------------------
(* Properties                                                              *)

\* What a second costs is paid while the job is up, at the rate and from the
\* settlement the logs have told so far: with Margin seconds to spare while the
\* task is at its select!, and at all unless one heartbeat, infra change or
\* delay has held it for longer than Margin.  Whatever the order of timers and
\* logs, and although balance * Scale may wrap and the quotient saturate.
PaidFor ==
  [][now' # now /\ up =>
       /\ task # "held" =>
            rate * (now' - last_settled + Margin) <= balance * Scale
       /\ now' - since <= Margin =>
            rate * (now' - last_settled) <= balance * Scale]_timerVars

\* The timer takes no job down that could pay for Margin seconds more, unless
\* balance * Scale wraps.
NotEarly ==
  TimerDue /\ balance * Scale < U256 =>
    \/ rate = 0
    \/ balance * Scale < rate * (now - last_settled + Margin + 1)
=============================================================================
