------------------------- MODULE JobManager_proofs -------------------------
(***************************************************************************)
(* Proofs about JobManager, for every set of instances, urls and rates and *)
(* every bound.  IInv is the inductive invariant behind the safety         *)
(* properties: it says what each await of the session knows about the      *)
(* instances and about the logs it has processed.                          *)
(***************************************************************************)
EXTENDS JobManager, TLAPS

\* What an await of the session knows about its own state.
Control ==
  /\ phase # "running" => pc = "select"
  /\ pc \in {"replace", "spin_down"} => target \in Instances
  /\ pc \in {"update", "replace", "spin_up", "run_enclave"} => js.infra_state
  /\ ~js.infra_state /\ ~js.infra_change_scheduled
       => js.instance_id = NoInstance

\* What it knows about the instances.
OneInstance ==
  LiveListedFirst =>
    /\ \A i, j \in Instances : Live(i) /\ Live(j) => i = j
    /\ pc = "spin_up" => NoLive
    /\ pc \in {"replace", "spin_down"} =>
         \A i \in Instances : Live(i) => i = target
    /\ phase = "done" => NoLive

\* What a wish to launch says about the logs processed so far, unless the
\* heartbeat has overruled a termination.
Revived ==
  /\ js.min_rate \in {MinRate, U256Max}
  /\ js.infra_state /\ ~overruled =>
       \A k \in 1..pos : Kills(chain[k]) =>
         \E m \in (k + 1)..pos : chain[m].kind = "METADATA"

\* A job is opened once, by its first log.
OpenedFirst ==
  \A k \in 1..Len(chain) : chain[k].kind \in OpenKinds => k = 1

IInv == TypeOK /\ Control /\ OneInstance /\ Revived /\ OpenedFirst

-----------------------------------------------------------------------------

\* JobState::new builds a JobState.
LEMMA NewJobStateType == NewJobState \in JobState
  BY JobManagerAssumption DEF NewJobState, JobState

\* What the contract emits are events job_logs subscribes to.
LEMMA EventType == Emittable \subseteq Event
  BY JobManagerAssumption DEF Emittable, Event, AllKinds

\* A session that ends leaves the session's state well typed.
LEMMA LeaveType ==
  ASSUME NEW p \in Phases, Leave(p)
  PROVE  /\ phase' \in Phases /\ avail' = 0 /\ pos' = 0 /\ js' \in JobState
         /\ lapsed' \in BOOLEAN /\ overruled' = FALSE /\ pc' \in Pcs
         /\ target' \in Instances \cup {NoInstance}
  BY NewJobStateType DEF Leave, Pcs

\* The first session starts well typed.
LEMMA InitTypeOK ==
  ASSUME Init
  PROVE  TypeOK
<1>1. chain \in Seq(Event) /\ Len(chain) = 0
  BY DEF Init
<1>2. avail \in 0..Len(chain) /\ pos \in 0..avail
  BY <1>1 DEF Init
<1>3. /\ inst \in [Instances -> InstState]
      /\ enclave \in [Instances -> Urls \cup {NoUrl}]
  BY DEF Init, InstState
<1>. QED
  BY <1>1, <1>2, <1>3, NewJobStateType DEF Init, TypeOK, Phases, Pcs

\* The contract, the RPC, AWS and a restart keep the types.
LEMMA EnvironmentTypeOK ==
  ASSUME TypeOK, Environment
  PROVE  TypeOK'
<1> USE DEF TypeOK
<1>1. CASE Emit
  <2>1. PICK e \in Emittable : chain' = Append(chain, e)
    BY <1>1 DEF Emit
  <2>2. chain' \in Seq(Event) /\ Len(chain') = Len(chain) + 1
    BY <2>1, EventType
  <2>. QED
    BY <1>1, <2>2 DEF Emit, session, aws, bounds
<1>2. CASE Deliver
  BY <1>2 DEF Deliver, aws, bounds
<1>3. CASE Lapse
  BY <1>3 DEF Lapse, aws, bounds
<1>4. CASE Restart
  BY <1>4, LeaveType DEF Restart, Phases, aws
<1>5. ASSUME NEW i \in Instances, Outage(i)
      PROVE  TypeOK'
  BY <1>5 DEF Outage, session, InstState
<1>6. ASSUME NEW i \in Instances, EnclaveExit(i)
      PROVE  TypeOK'
  BY <1>6 DEF EnclaveExit, session
<1>. QED
  BY <1>1, <1>2, <1>3, <1>4, <1>5, <1>6 DEF Environment

\* Scheduling a launch or a termination keeps a JobState.
LEMMA ScheduleType ==
  ASSUME NEW s \in JobState
  PROVE  /\ schedule_launch(s) \in JobState
         /\ schedule_termination(s) \in JobState
  BY DEF schedule_launch, schedule_termination, JobState

\* The log process_log is about to consume.
LEMMA NextLogType ==
  ASSUME TypeOK, NEW ks, NextLog(ks)
  PROVE  /\ pos + 1 \in 1..Len(chain) /\ pos + 1 <= avail
         /\ chain[pos + 1] \in Event /\ chain[pos + 1].kind \in ks
<1>1. pos + 1 \in 1..Len(chain) /\ pos + 1 <= avail
  BY DEF TypeOK, NextLog
<1>. QED
  BY <1>1 DEF TypeOK, NextLog

\* Every arm of process_log keeps the types.
LEMMA ProcessLogTypeOK ==
  ASSUME TypeOK, ProcessLog
  PROVE  TypeOK'
<1>a. ASSUME NEW ks, NextLog(ks), Processed, js' \in JobState,
             lapsed' \in BOOLEAN
      PROVE  TypeOK'
  BY <1>a, NextLogType DEF TypeOK, Processed, aws, bounds
<1>b. ASSUME Unrecoverable
      PROVE  TypeOK'
  BY <1>b, LeaveType DEF TypeOK, Unrecoverable, Phases, aws, bounds
<1>c. js \in JobState /\ lapsed \in BOOLEAN
  BY DEF TypeOK
<1>d. MinRate \in Nat
  BY JobManagerAssumption
<1>1. CASE ProcessOpened
  <2> DEFINE e == chain[pos + 1]
  <2>1. e \in Event
    BY <1>1, NextLogType DEF ProcessOpened
  <2>2. [js EXCEPT !.rate = e.rate, !.original_rate = e.rate,
                   !.eif_url = e.url, !.min_rate = MinRate] \in JobState
    BY <2>1, <1>c, <1>d DEF JobState, Event
  <2>3. js' \in JobState
    BY <1>1, <2>2, ScheduleType DEF ProcessOpened
  <2>. QED
    BY <1>1, <1>a, <2>3 DEF ProcessOpened
<1>2. CASE ProcessOpenedDenied
  <2> DEFINE e == chain[pos + 1]
  <2>1. e \in Event
    BY <1>2, NextLogType DEF ProcessOpenedDenied
  <2>2. [js EXCEPT !.rate = e.rate, !.original_rate = e.rate,
                   !.eif_url = e.url] \in JobState
    BY <2>1, <1>c DEF JobState, Event
  <2>3. js' \in JobState
    BY <1>2, <2>2, ScheduleType DEF ProcessOpenedDenied
  <2>. QED
    BY <1>2, <1>a, <2>3 DEF ProcessOpenedDenied
<1>3. CASE ProcessOpenedBad
  BY <1>3, <1>b DEF ProcessOpenedBad
<1>4. CASE ProcessBalance
  BY <1>4, <1>a, <1>c DEF ProcessBalance
<1>5. CASE ProcessClosed
  BY <1>5, <1>a, <1>c, ScheduleType DEF ProcessClosed
<1>6. CASE ProcessRateInitiated
  <2> DEFINE r == chain[pos + 1].rate
             s == [js EXCEPT !.original_rate = js.rate, !.rate = r]
  <2>1. r \in Nat
    BY <1>6, NextLogType DEF ProcessRateInitiated, Event
  <2>2. s \in JobState
    BY <2>1, <1>c DEF JobState
  <2>3. js' \in JobState
    BY <1>6, <2>2, ScheduleType DEF ProcessRateInitiated
  <2>. QED
    BY <1>6, <1>a, <2>3 DEF ProcessRateInitiated
<1>7. CASE ProcessRateCancelled
  <2>1. js' \in JobState
    BY <1>7, <1>c DEF ProcessRateCancelled, JobState
  <2>. QED
    BY <1>7, <1>a, <2>1 DEF ProcessRateCancelled
<1>8. CASE ProcessRateFinalized
  <2>1. CASE Unrecoverable
    BY <2>1, <1>b
  <2>2. CASE ~Unrecoverable
    <3>1. js' = [js EXCEPT !.original_rate = chain[pos + 1].rate]
      BY <1>8, <2>2 DEF ProcessRateFinalized
    <3>2. chain[pos + 1].rate \in Nat
      BY <1>8, NextLogType DEF ProcessRateFinalized, Event
    <3>3. js' \in JobState
      BY <3>1, <3>2, <1>c DEF JobState
    <3>. QED
      BY <1>8, <2>2, <3>3, <1>a, <1>c DEF ProcessRateFinalized
  <2>. QED
    BY <2>1, <2>2
<1>9. CASE ProcessMetadata
  <2>1. CASE Unrecoverable
    BY <2>1, <1>b
  <2>2. CASE ~Unrecoverable
    <3> DEFINE s == [js EXCEPT !.eif_url = chain[pos + 1].url,
                               !.eif_update = TRUE]
    <3>1. js' = schedule_launch(s)
      BY <1>9, <2>2 DEF ProcessMetadata
    <3>2. chain[pos + 1].url \in Urls \cup {NoUrl}
      BY <1>9, NextLogType DEF ProcessMetadata, Event
    <3>3. s \in JobState
      BY <3>2, <1>c DEF JobState
    <3>4. js' \in JobState
      BY <3>1, <3>3, ScheduleType
    <3>. QED
      BY <1>9, <2>2, <3>4, <1>a, <1>c DEF ProcessMetadata
  <2>. QED
    BY <2>1, <2>2
<1>. QED
  BY <1>1, <1>2, <1>3, <1>4, <1>5, <1>6, <1>7, <1>8, <1>9 DEF ProcessLog

\* Connecting, the heartbeat and the insolvency timer keep the types.
LEMMA TimersTypeOK ==
  ASSUME TypeOK,
         Connect \/ StreamEnd \/ Heartbeat \/ EnclaveDown \/ EnclaveUp
           \/ Insolvency
  PROVE  TypeOK'
<1> USE DEF TypeOK, aws, bounds
<1>1. CASE Connect
  BY <1>1 DEF Connect, Phases
<1>2. CASE StreamEnd
  BY <1>2, LeaveType DEF StreamEnd, Phases
<1>3. CASE Heartbeat
  <2>1. js' \in JobState /\ overruled' \in BOOLEAN /\ pc' \in Pcs
    BY <1>3, ScheduleType
       DEF Heartbeat, HeartbeatRunning, HeartbeatLaunches, Pcs, JobState
  <2>. QED
    BY <1>3, <2>1 DEF Heartbeat, Elsewhere
<1>4. CASE EnclaveDown
  BY <1>4 DEF EnclaveDown, Elsewhere, Pcs
<1>5. CASE EnclaveUp
  BY <1>5 DEF EnclaveUp, Elsewhere, Pcs
<1>6. CASE Insolvency
  BY <1>6, ScheduleType DEF Insolvency, Elsewhere
<1>. QED
  BY <1>1, <1>2, <1>3, <1>4, <1>5, <1>6

\* change_infra and every answer of the infrastructure keep the types.
LEMMA InfraTypeOK ==
  ASSUME TypeOK, ChangeInfra \/ InfraOk \/ InfraErr
  PROVE  TypeOK'
<1> USE DEF TypeOK
<1>1. CASE ChangeInfraLaunch
  <2>1. js' \in JobState /\ pc' \in Pcs /\ target' \in Instances \cup {NoInstance}
    BY <1>1 DEF ChangeInfraLaunch, FirstListed, Listed, JobState, Pcs
  <2>. QED
    BY <1>1, <2>1 DEF ChangeInfraLaunch, aws, bounds
<1>2. CASE ChangeInfraTerminate
  <2>1. CASE Leave("done")
    BY <1>2, <2>1, LeaveType DEF ChangeInfraTerminate, Phases, aws, bounds
  <2>2. CASE ~Leave("done")
    <3>1. target' \in Instances /\ pc' \in Pcs
          /\ UNCHANGED <<chain, phase, avail, pos, js, lapsed, overruled, aws, bounds>>
      BY <1>2, <2>2 DEF ChangeInfraTerminate, FirstListed, Listed, Pcs
    <3>. QED
      BY <3>1 DEF aws, bounds
  <2>. QED
    BY <2>1, <2>2
<1>3. ASSUME NEW p \in Pcs, Return(p), js' \in JobState,
             inst' \in [Instances -> InstState],
             enclave' \in [Instances -> Urls \cup {NoUrl}], faults' \in Nat
      PROVE  TypeOK'
  BY <1>3 DEF Return
<1>4. ASSUME NEW i, Terminated(i)
      PROVE  /\ inst' \in [Instances -> InstState]
             /\ enclave' \in [Instances -> Urls \cup {NoUrl}]
  BY <1>4 DEF Terminated, InstState
<1>5. js.eif_url \in Urls \cup {NoUrl}
  BY DEF JobState
<1>6. CASE UpdateOk
  <2>1. js' \in JobState
    BY <1>6 DEF UpdateOk, JobState
  <2>2. enclave' \in [Instances -> Urls \cup {NoUrl}]
    BY <1>6, <1>5 DEF UpdateOk
  <2>. QED
    BY <1>6, <1>3, <2>1, <2>2 DEF UpdateOk, Pcs
<1>7. CASE UpdateErr
  <2>1. enclave' \in [Instances -> Urls \cup {NoUrl}]
    BY <1>7, <1>5 DEF UpdateErr
  <2>. QED
    BY <1>7, <1>3, <2>1 DEF UpdateErr, Pcs
<1>8. CASE ReplaceOk
  BY <1>8, <1>3, <1>4 DEF ReplaceOk, Pcs
<1>9. CASE SpinUpOk
  <2>1. /\ js' \in JobState
        /\ inst' \in [Instances -> InstState]
    BY <1>9 DEF SpinUpOk, JobState, InstState
  <2>. QED
    BY <1>9, <1>3, <2>1 DEF SpinUpOk, Pcs
<1>10. CASE SpinUpErr
  <2>1. inst' \in [Instances -> InstState] /\ faults' \in Nat
    BY <1>10 DEF SpinUpErr, InstState
  <2>. QED
    BY <1>10, <1>3, <2>1 DEF SpinUpErr, Pcs
<1>11. CASE RunEnclaveReturns /\ enclave' \in [Instances -> Urls \cup {NoUrl}]
  <2>1. js' \in JobState
    BY <1>11 DEF RunEnclaveReturns, JobState
  <2>. QED
    BY <1>11, <1>3, <2>1 DEF RunEnclaveReturns, Pcs
<1>12. CASE RunEnclaveOk \/ RunEnclaveErr
  <2>1. enclave' \in [Instances -> Urls \cup {NoUrl}]
    BY <1>12, <1>5 DEF RunEnclaveOk, RunEnclaveErr, EnclaveStarts
  <2>. QED
    BY <1>11, <1>12, <2>1 DEF RunEnclaveOk, RunEnclaveErr
<1>13. CASE SpinDownOk
  BY <1>13, <1>4, LeaveType DEF SpinDownOk, Phases, bounds
<1>14. CASE SpinDownErr
  BY <1>14, <1>3, <1>4 DEF SpinDownErr, Pcs, aws
<1>. QED
  BY <1>1, <1>2, <1>6, <1>7, <1>8, <1>9, <1>10, <1>12, <1>13, <1>14
     DEF ChangeInfra, InfraOk, InfraErr

\* Every step keeps the types.
LEMMA NextTypeOK ==
  ASSUME TypeOK, [Next]_vars
  PROVE  TypeOK'
<1>1. CASE UNCHANGED vars
  BY <1>1 DEF vars, session, aws, bounds, TypeOK
<1>. QED
  BY <1>1, EnvironmentTypeOK, ProcessLogTypeOK, TimersTypeOK, InfraTypeOK
     DEF Next, Manager

\* Every reachable state has the types of the code's state; a session never
\* consumes a log its stream has not delivered.
THEOREM TypeCorrect == Spec => []TypeOK
  BY InitTypeOK, NextTypeOK, PTL DEF Spec
-----------------------------------------------------------------------------

\* The inductive invariant holds before the first session connects.
LEMMA InitIInv == Init => IInv
<1> SUFFICES ASSUME Init PROVE IInv
  OBVIOUS
<1>1. js.infra_state = FALSE /\ js.instance_id = NoInstance
      /\ js.min_rate = U256Max
  BY DEF Init, NewJobState
<1>2. \A i \in Instances : ~Live(i)
  BY DEF Init, Live
<1>3. OpenedFirst
  BY DEF Init, OpenedFirst
<1>. QED
  BY <1>1, <1>2, <1>3, InitTypeOK
     DEF Init, IInv, Control, OneInstance, Revived, NoLive

\* A session that ends keeps every part of the invariant but, when it ends
\* with 0, what phase "done" says of the instances.
LEMMA LeaveControl ==
  ASSUME NEW p, Leave(p)
  PROVE  Control' /\ Revived'
<1>1. /\ js'.infra_state = FALSE /\ js'.instance_id = NoInstance
      /\ js'.min_rate = U256Max
  BY DEF Leave, NewJobState
<1>. QED
  BY <1>1 DEF Leave, Control, Revived

\* The environment keeps the inductive invariant.
LEMMA EnvironmentIInv ==
  ASSUME IInv, Environment
  PROVE  IInv'
<1>1. TypeOK'
  BY EnvironmentTypeOK DEF IInv
<1>2. CASE Emit
  <2>1. PICK e \in Emittable : chain' = Append(chain, e)
    BY <1>2 DEF Emit
  <2>2. \A k \in 1..pos : chain'[k] = chain[k]
    BY <2>1, EventType DEF IInv, TypeOK
  <2>3. Revived'
    <3>1. js' = js /\ pos' = pos /\ pos \in Nat /\ overruled' = overruled
      BY <1>2 DEF IInv, TypeOK, Emit, session
    <3>2. ASSUME js.infra_state, ~overruled, NEW k \in 1..pos, Kills(chain'[k])
          PROVE  \E m \in (k + 1)..pos : chain'[m].kind = "METADATA"
      <4>1. Kills(chain[k])
        BY <2>2, <3>2
      <4>2. PICK m \in (k + 1)..pos : chain[m].kind = "METADATA"
        BY <3>2, <4>1 DEF IInv, Revived
      <4>3. m \in 1..pos
        BY <3>1
      <4>. QED
        BY <2>2, <4>2, <4>3
    <3>. QED
      BY <3>1, <3>2 DEF IInv, Revived, Kills
  <2>4. OpenedFirst'
    <3>1. PICK f \in Emittable : MayEmit(chain, f) /\ chain' = Append(chain, f)
      BY <1>2 DEF Emit
    <3>2. chain \in Seq(Event) /\ f \in Event
      BY EventType DEF IInv, TypeOK
    <3>3. f.kind \in OpenKinds => Len(chain) = 0
      BY <3>1, <3>2 DEF MayEmit
    <3>. QED
      BY <3>1, <3>2, <3>3 DEF IInv, OpenedFirst
  <2>. QED
    BY <1>1, <1>2, <2>3, <2>4
       DEF IInv, Control, OneInstance, Emit, session, aws, Live, NoLive
<1>3. CASE Deliver
  BY <1>1, <1>3
     DEF IInv, Control, OneInstance, Revived, Deliver, aws, Live, NoLive, Kills,
         OpenedFirst
<1>4. CASE Lapse
  BY <1>1, <1>4
     DEF IInv, Control, OneInstance, Revived, Lapse, aws, Live, NoLive, Kills,
         OpenedFirst
<1>5. CASE Restart
  <2>1. OneInstance'
    BY <1>5 DEF IInv, OneInstance, Restart, Leave, aws, Live, NoLive
  <2>. QED
    BY <1>1, <1>5, <2>1, LeaveControl DEF IInv, Restart, OpenedFirst
<1>6. ASSUME NEW i \in Instances, Outage(i) \/ EnclaveExit(i)
      PROVE  IInv'
  <2>1. \A j \in Instances : Live(j)' => Live(j)
    BY <1>6 DEF Outage, EnclaveExit, Live, IInv, TypeOK
  <2>2. OneInstance'
    BY <1>6, <2>1 DEF IInv, OneInstance, Outage, EnclaveExit, session, NoLive
  <2>3. Control' /\ Revived' /\ OpenedFirst'
    BY <1>6 DEF IInv, Control, Revived, OpenedFirst, Outage, EnclaveExit,
                session, Kills
  <2>. QED
    BY <1>1, <2>2, <2>3 DEF IInv
<1>. QED
  BY <1>2, <1>3, <1>4, <1>5, <1>6 DEF Environment

\* One more log: no killing log may be followed by a wish to launch, unless
\* it is revived by a metadata update.
LEMMA RevivedStep ==
  ASSUME IInv, NEW ks, NextLog(ks), Processed,
         js'.min_rate \in {MinRate, U256Max},
         js'.infra_state =>
           \/ js.infra_state /\ ~Kills(chain[pos + 1])
           \/ chain[pos + 1].kind = "METADATA"
           \/ pos = 0 /\ ~Kills(chain[pos + 1])
  PROVE  Revived'
<1>1. pos \in Nat
  BY DEF IInv, TypeOK
<1>2. chain' = chain /\ pos' = pos + 1
  BY DEF Processed
<1>3. ASSUME js'.infra_state, ~overruled', NEW k \in 1..(pos + 1), Kills(chain[k])
      PROVE  \E m \in (k + 1)..(pos + 1) : chain[m].kind = "METADATA"
  <2>1. CASE chain[pos + 1].kind = "METADATA"
    <3>1. ~Kills(chain[pos + 1])
      BY <2>1 DEF Kills
    <3>2. k # pos + 1
      BY <1>3, <3>1
    <3>. QED
      BY <1>1, <2>1, <3>2
  <2>2. CASE chain[pos + 1].kind # "METADATA"
    <3>1. ~Kills(chain[pos + 1])
      BY <1>3, <2>2
    <3>2. k \in 1..pos
      BY <1>1, <1>3, <3>1
    <3>3. js.infra_state /\ ~overruled
      BY <1>3, <2>2, <3>2 DEF Processed
    <3>. QED
      BY <1>1, <1>3, <3>2, <3>3 DEF IInv, Revived
  <2>. QED
    BY <2>1, <2>2
<1>. QED
  BY <1>2, <1>3 DEF Revived, Kills

\* Every arm of process_log keeps the inductive invariant.
LEMMA ProcessLogIInv ==
  ASSUME IInv, ProcessLog
  PROVE  IInv'
<1> USE DEF IInv
<1>1. TypeOK'
  BY ProcessLogTypeOK
<1>a. ASSUME NEW ks, NextLog(ks), Processed, Revived',
             js'.instance_id = js.instance_id,
             \/ js'.infra_change_scheduled \/ js'.infra_state
             \/ /\ js'.infra_state = js.infra_state
                /\ js'.infra_change_scheduled = js.infra_change_scheduled
      PROVE  IInv'
  <2>1. pc = "select" /\ pc' = "select" /\ phase' = phase
    BY <1>a DEF NextLog, AtSelect, Processed
  <2>2. Control'
    BY <1>a, <2>1 DEF Control, Processed
  <2>3. OneInstance'
    BY <1>a, <2>1 DEF OneInstance, Processed, aws, Live, NoLive
  <2>4. OpenedFirst'
    BY <1>a DEF OpenedFirst, Processed
  <2>. QED
    BY <1>1, <1>a, <2>2, <2>3, <2>4
<1>b. ASSUME Unrecoverable
      PROVE  IInv'
  <2>1. OneInstance' /\ OpenedFirst'
    BY <1>b DEF OneInstance, OpenedFirst, Unrecoverable, Leave, aws, Live, NoLive
  <2>. QED
    BY <1>1, <1>b, <2>1, LeaveControl DEF Unrecoverable
<1>c. js \in JobState /\ js.min_rate \in {MinRate, U256Max}
  BY DEF TypeOK, Revived
<1>2. CASE ProcessOpened
  <2>1. pos = 0
    BY <1>2, NextLogType DEF ProcessOpened, OpenedFirst, OpenKinds, TypeOK
  <2>2. /\ js'.min_rate = MinRate /\ js'.instance_id = js.instance_id
        /\ js'.infra_change_scheduled
        /\ js'.infra_state => chain[pos + 1].rate >= MinRate
    BY <1>2, <1>c DEF ProcessOpened, schedule_launch, schedule_termination, JobState
  <2>3. js'.infra_state => ~Kills(chain[pos + 1])
    <3>1. chain[pos + 1] \in Event /\ chain[pos + 1].kind = "OPENED"
      BY <1>2, NextLogType DEF ProcessOpened
    <3>. QED
      BY <2>2, <3>1, JobManagerAssumption DEF Kills, Event
  <2>4. Revived'
    BY <1>2, <2>1, <2>2, <2>3, RevivedStep DEF ProcessOpened
  <2>. QED
    BY <1>2, <1>a, <2>2, <2>4 DEF ProcessOpened
<1>3. CASE ProcessOpenedDenied \/ ProcessClosed
  <2>1. /\ js'.min_rate = js.min_rate /\ js'.instance_id = js.instance_id
        /\ js'.infra_change_scheduled /\ ~js'.infra_state
    BY <1>3, <1>c
       DEF ProcessOpenedDenied, ProcessClosed, schedule_termination, JobState
  <2>2. PICK ks : NextLog(ks) /\ Processed
    BY <1>3 DEF ProcessOpenedDenied, ProcessClosed
  <2>3. Revived'
    BY <2>1, <2>2, <1>c, RevivedStep
  <2>. QED
    BY <1>a, <2>1, <2>2, <2>3
<1>4. CASE ProcessOpenedBad
  BY <1>4, <1>b DEF ProcessOpenedBad
<1>5. CASE ProcessBalance
  <2>1. ~Kills(chain[pos + 1])
    BY <1>5 DEF ProcessBalance, NextLog, Kills
  <2>2. Revived'
    BY <1>5, <2>1, <1>c, RevivedStep DEF ProcessBalance
  <2>. QED
    BY <1>5, <1>a, <2>2 DEF ProcessBalance
<1>6. CASE ProcessRateInitiated
  <2> DEFINE r == chain[pos + 1].rate
  <2>1. /\ js'.min_rate = js.min_rate /\ js'.instance_id = js.instance_id
        /\ IF r < js.min_rate
             THEN js'.infra_change_scheduled /\ ~js'.infra_state
             ELSE /\ js'.infra_state = js.infra_state
                  /\ js'.infra_change_scheduled = js.infra_change_scheduled
    BY <1>6, <1>c DEF ProcessRateInitiated, schedule_termination, JobState
  <2>2. js'.infra_state => js.infra_state /\ ~Kills(chain[pos + 1])
    <3>1. chain[pos + 1] \in Event /\ chain[pos + 1].kind = "RATE_INITIATED"
      BY <1>6, NextLogType DEF ProcessRateInitiated
    <3>2. r \in Nat /\ MinRate \in Nat /\ MinRate < U256Max /\ U256Max \in Nat
      BY <3>1, JobManagerAssumption DEF Event
    <3>3. js'.infra_state => js.infra_state /\ ~(r < js.min_rate)
      BY <2>1
    <3>4. ~(r < js.min_rate) => ~(r < MinRate)
      BY <3>2, <1>c
    <3>. QED
      BY <3>1, <3>3, <3>4 DEF Kills
  <2>3. Revived'
    BY <1>6, <2>1, <2>2, <1>c, RevivedStep DEF ProcessRateInitiated
  <2>. QED
    BY <1>6, <1>a, <2>1, <2>3 DEF ProcessRateInitiated
<1>7. CASE ProcessRateCancelled
  <2>1. ~Kills(chain[pos + 1])
    BY <1>7 DEF ProcessRateCancelled, NextLog, Kills
  <2>2. /\ js'.min_rate = js.min_rate /\ js'.instance_id = js.instance_id
        /\ js'.infra_state = js.infra_state
        /\ js'.infra_change_scheduled = js.infra_change_scheduled
    BY <1>7, <1>c DEF ProcessRateCancelled, JobState
  <2>3. Revived'
    BY <1>7, <2>1, <2>2, <1>c, RevivedStep DEF ProcessRateCancelled
  <2>. QED
    BY <1>7, <1>a, <2>2, <2>3 DEF ProcessRateCancelled
<1>8. CASE ProcessRateFinalized
  <2>1. CASE Unrecoverable
    BY <2>1, <1>b
  <2>2. CASE ~Unrecoverable
    <3>1. ~Kills(chain[pos + 1])
      BY <1>8 DEF ProcessRateFinalized, NextLog, Kills
    <3>2. /\ js'.min_rate = js.min_rate /\ js'.instance_id = js.instance_id
          /\ js'.infra_state = js.infra_state
          /\ js'.infra_change_scheduled = js.infra_change_scheduled
      BY <1>8, <2>2, <1>c DEF ProcessRateFinalized, JobState
    <3>3. Revived'
      BY <1>8, <2>2, <3>1, <3>2, <1>c, RevivedStep DEF ProcessRateFinalized
    <3>. QED
      BY <1>8, <2>2, <1>a, <3>2, <3>3 DEF ProcessRateFinalized
  <2>. QED
    BY <2>1, <2>2
<1>9. CASE ProcessMetadata
  <2>1. CASE Unrecoverable
    BY <2>1, <1>b
  <2>2. CASE ~Unrecoverable
    <3>1. chain[pos + 1].kind = "METADATA"
      BY <1>9, <2>2 DEF ProcessMetadata
    <3>2. /\ js'.min_rate = js.min_rate /\ js'.instance_id = js.instance_id
          /\ js'.infra_change_scheduled
      BY <1>9, <2>2, <1>c DEF ProcessMetadata, schedule_launch, JobState
    <3>3. Revived'
      BY <1>9, <2>2, <3>1, <3>2, <1>c, RevivedStep DEF ProcessMetadata
    <3>. QED
      BY <1>9, <2>2, <1>a, <3>2, <3>3 DEF ProcessMetadata
  <2>. QED
    BY <2>1, <2>2
<1>. QED
  BY <1>2, <1>3, <1>4, <1>5, <1>6, <1>7, <1>8, <1>9 DEF ProcessLog

\* What a step that consumes no log and does not end the session must keep.
LEMMA QuietStep ==
  ASSUME IInv, chain' = chain, pos' = pos, js' \in JobState,
         js'.min_rate = js.min_rate,
         js'.infra_state /\ ~overruled' => js.infra_state /\ ~overruled
  PROVE  Revived' /\ OpenedFirst'
  BY DEF IInv, Revived, OpenedFirst, Kills

\* The timers of the select! keep the inductive invariant.
LEMMA TimersIInv ==
  ASSUME IInv,
         Connect \/ StreamEnd \/ Heartbeat \/ EnclaveDown \/ EnclaveUp
           \/ Insolvency
  PROVE  IInv'
<1> USE DEF IInv
<1>1. TypeOK'
  BY TimersTypeOK
<1>2. js \in JobState
  BY DEF TypeOK
<1>3. CASE StreamEnd
  <2>1. OneInstance' /\ OpenedFirst'
    BY <1>3 DEF OneInstance, OpenedFirst, StreamEnd, Leave, aws, Live, NoLive
  <2>. QED
    BY <1>1, <1>3, <2>1, LeaveControl DEF StreamEnd
<1>4. CASE Connect
  BY <1>1, <1>2, <1>4, QuietStep
     DEF Connect, Control, OneInstance, aws, Live, NoLive
<1>5. CASE Heartbeat
  <2>1. /\ phase = "running" /\ pc' \in {"select", "check_enclave"}
        /\ UNCHANGED <<chain, phase, pos, inst>>
    BY <1>5 DEF Heartbeat, HeartbeatRunning, HeartbeatLaunches, AtSelect,
                Elsewhere, aws
  <2>2. OneInstance' /\ OpenedFirst'
    BY <2>1 DEF OneInstance, OpenedFirst, Live, NoLive
  <2>3. CASE HeartbeatRunning
    <3>1. Revived' /\ Control'
      BY <1>2, <2>1, <2>3, QuietStep DEF HeartbeatRunning, Control
    <3>. QED
      BY <1>1, <2>2, <3>1
  <2>4. CASE HeartbeatLaunches
    <3>1. /\ js'.min_rate = js.min_rate /\ js' \in JobState
          /\ overruled' = (overruled \/ (js.infra_change_scheduled /\ ~js.infra_state))
      BY <1>2, <2>4 DEF HeartbeatLaunches, schedule_launch, JobState
    <3>2. js'.infra_state /\ js'.infra_change_scheduled /\ pc' = pc /\ pc = "select"
      BY <1>2, <1>5, <2>4
         DEF Heartbeat, AtSelect, HeartbeatLaunches, schedule_launch, JobState
    <3>3. ~overruled' => js.infra_state /\ ~overruled
      BY <1>5, <3>1 DEF Heartbeat, Control, TypeOK, JobState
    <3>4. Revived'
      BY <2>1, <3>1, <3>3, QuietStep
    <3>5. Control'
      BY <2>1, <3>2 DEF Control
    <3>. QED
      BY <1>1, <2>2, <3>4, <3>5
  <2>. QED
    BY <1>5, <2>3, <2>4 DEF Heartbeat
<1>6. CASE EnclaveDown \/ EnclaveUp
  <2>1. pc' \in {"select", "rerun_enclave"} /\ phase = "running"
        /\ UNCHANGED <<chain, phase, pos, js, overruled, inst>>
    BY <1>6 DEF EnclaveDown, EnclaveUp, Elsewhere, aws
  <2>2. Revived' /\ OpenedFirst'
    BY <1>2, <2>1, QuietStep
  <2>3. Control' /\ OneInstance'
    BY <2>1 DEF Control, OneInstance, Live, NoLive
  <2>. QED
    BY <1>1, <2>2, <2>3
<1>7. CASE Insolvency
  <2>1. /\ js' \in JobState /\ js'.min_rate = js.min_rate /\ ~js'.infra_state
        /\ js'.infra_change_scheduled
    BY <1>2, <1>7 DEF Insolvency, schedule_termination, JobState
  <2>2. Revived' /\ OpenedFirst'
    BY <1>7, <2>1, QuietStep DEF Insolvency, Elsewhere
  <2>3. Control' /\ OneInstance'
    BY <1>7, <2>1
       DEF Insolvency, AtSelect, Elsewhere, Control, OneInstance, aws, Live,
           NoLive
  <2>. QED
    BY <1>1, <2>2, <2>3
<1>. QED
  BY <1>3, <1>4, <1>5, <1>6, <1>7

\* If live instances are listed first, what get_job_instance returns is the
\* job's only live instance, or it has none.
LEMMA FirstListedIsTheOne ==
  ASSUME IInv, LiveListedFirst
  PROVE  /\ \A i \in FirstListed : Live(i) =>
              \A j \in Instances : Live(j) => j = i
         /\ Listed = {} \/ (\E i \in FirstListed : ~Live(i)) => NoLive
  BY DEF IInv, OneInstance, FirstListed, Listed, Live, NoLive

\* change_infra keeps the inductive invariant.
LEMMA InfraIInv ==
  ASSUME IInv, ChangeInfra \/ InfraOk \/ InfraErr
  PROVE  IInv'
<1> USE DEF IInv
<1>1. TypeOK'
  BY InfraTypeOK
<1>2. js \in JobState /\ LiveListedFirst \in BOOLEAN
  BY JobManagerAssumption DEF TypeOK
<1>3. CASE ChangeInfraLaunch
  <2>1. js.infra_state /\ phase = "running" /\ pc = "select"
    BY <1>3 DEF ChangeInfraLaunch, InfraDue, AtSelect
  <2>2. js' \in JobState /\ js'.min_rate = js.min_rate /\ js'.infra_state
    BY <1>2, <1>3, <2>1 DEF ChangeInfraLaunch, FirstListed, Listed, JobState
  <2>3. Revived' /\ OpenedFirst'
    BY <1>3, <2>1, <2>2, QuietStep DEF ChangeInfraLaunch
  <2>4. Control'
    BY <1>3, <2>1, <2>2 DEF ChangeInfraLaunch, Control, FirstListed, Listed
  <2>5. ASSUME LiveListedFirst, pc' = "spin_up"
        PROVE  NoLive
    <3>1. Listed = {} \/ \E i \in FirstListed : inst[i] = "terminated"
      BY <1>3, <2>5, <2>1 DEF ChangeInfraLaunch
    <3>. QED
      BY <2>5, <3>1, FirstListedIsTheOne DEF Live
  <2>6. ASSUME LiveListedFirst, pc' \in {"replace", "spin_down"}
        PROVE  \A i \in Instances : Live(i) => i = target'
    <3>1. PICK i \in FirstListed : inst[i] = "stopped" /\ target' = i
      BY <1>3, <2>6, <2>1 DEF ChangeInfraLaunch
    <3>. QED
      BY <2>6, <3>1, FirstListedIsTheOne DEF Live
  <2>7. OneInstance'
    BY <1>3, <2>1, <2>5, <2>6
       DEF ChangeInfraLaunch, OneInstance, aws, Live, NoLive
  <2>. QED
    BY <1>1, <2>3, <2>4, <2>7
<1>4. CASE ChangeInfraTerminate
  <2>1. ~js.infra_state /\ phase = "running" /\ pc = "select"
        /\ js.infra_change_scheduled
    BY <1>4 DEF ChangeInfraTerminate, InfraDue, AtSelect
  <2>2. CASE Leave("done")
    <3>1. Listed = {} \/ \E i \in FirstListed : inst[i] = "terminated"
      BY <1>4, <2>1, <2>2 DEF ChangeInfraTerminate, Leave
    <3>2. LiveListedFirst => NoLive
      BY <3>1, FirstListedIsTheOne DEF Live
    <3>3. OneInstance' /\ OpenedFirst'
      BY <1>4, <2>2, <3>2
         DEF ChangeInfraTerminate, OneInstance, OpenedFirst, Leave, aws, Live, NoLive
    <3>. QED
      BY <1>1, <2>2, <3>3, LeaveControl
  <2>3. CASE ~Leave("done")
    <3>1. PICK i \in FirstListed :
            /\ Live(i) /\ target' = i /\ pc' = "spin_down"
            /\ UNCHANGED <<chain, phase, avail, pos, js, lapsed, overruled, aws, bounds>>
      BY <1>4, <2>3 DEF ChangeInfraTerminate
    <3>2. Revived' /\ OpenedFirst'
      BY <3>1, <1>2, QuietStep
    <3>3. Control'
      BY <3>1, <2>1 DEF Control, FirstListed, Listed
    <3>4. OneInstance'
      BY <3>1, <2>1, FirstListedIsTheOne DEF OneInstance, aws, Live, NoLive
    <3>. QED
      BY <1>1, <3>2, <3>3, <3>4
  <2>. QED
    BY <2>2, <2>3
<1>5. CASE UpdateOk \/ UpdateErr \/ RunEnclaveOk \/ RunEnclaveErr
  <2>1. /\ phase = "running" /\ pc' = "select"
        /\ UNCHANGED <<chain, phase, pos, inst, overruled>>
    BY <1>5 DEF UpdateOk, UpdateErr, RunEnclaveOk, RunEnclaveErr,
                RunEnclaveReturns, In, Return, aws
  <2>2. CASE pc \in {"update", "run_enclave"}
    <3>1. js' \in JobState /\ js'.min_rate = js.min_rate /\ js.infra_state
          /\ js'.infra_state
      BY <1>2, <1>5, <2>2
         DEF UpdateOk, UpdateErr, RunEnclaveOk, RunEnclaveErr,
             RunEnclaveReturns, In, JobState, Control
    <3>2. Revived' /\ OpenedFirst'
      BY <2>1, <3>1, QuietStep
    <3>3. Control' /\ OneInstance'
      BY <2>1, <3>1 DEF Control, OneInstance, Live, NoLive
    <3>. QED
      BY <1>1, <3>2, <3>3
  <2>3. CASE pc = "rerun_enclave"
    <3>1. js' = js
      BY <1>5, <2>3 DEF UpdateOk, UpdateErr, RunEnclaveOk, RunEnclaveErr,
                        RunEnclaveReturns, In
    <3>2. Revived' /\ OpenedFirst'
      BY <1>2, <2>1, <3>1, QuietStep
    <3>3. Control' /\ OneInstance'
      BY <2>1, <3>1 DEF Control, OneInstance, Live, NoLive
    <3>. QED
      BY <1>1, <3>2, <3>3
  <2>. QED
    BY <1>5, <2>2, <2>3 DEF UpdateOk, UpdateErr, RunEnclaveOk, RunEnclaveErr,
                            RunEnclaveReturns, In
<1>6. CASE ReplaceOk
  <2>1. /\ pc = "replace" /\ phase = "running" /\ pc' = "spin_up" /\ js' = js
        /\ js.infra_state /\ target \in Instances
        /\ UNCHANGED <<chain, phase, pos, overruled>>
        /\ inst' = [inst EXCEPT ![target] = "terminated"]
    BY <1>6 DEF ReplaceOk, In, Return, Control, Terminated
  <2>2. Revived' /\ OpenedFirst' /\ Control'
    BY <1>2, <2>1, QuietStep DEF Control
  <2>3. LiveListedFirst => NoLive'
    BY <2>1 DEF OneInstance, Live, NoLive, TypeOK
  <2>4. OneInstance'
    BY <2>1, <2>3 DEF OneInstance, NoLive
  <2>. QED
    BY <1>1, <2>2, <2>4
<1>7. CASE SpinUpOk
  <2>1. /\ pc = "spin_up" /\ phase = "running" /\ pc' = "run_enclave"
        /\ js.infra_state /\ UNCHANGED <<chain, phase, pos, overruled>>
    BY <1>7 DEF SpinUpOk, In, Return, Control
  <2>2. js' \in JobState /\ js'.min_rate = js.min_rate /\ js'.infra_state
    BY <1>2, <1>7, <2>1 DEF SpinUpOk, JobState
  <2>3. Revived' /\ OpenedFirst'
    BY <2>1, <2>2, QuietStep
  <2>4. Control'
    BY <2>1, <2>2 DEF Control
  <2>5. OneInstance'
    BY <1>7, <2>1 DEF SpinUpOk, OneInstance, Live, NoLive, TypeOK
  <2>. QED
    BY <1>1, <2>3, <2>4, <2>5
<1>8. CASE SpinUpErr
  <2>1. /\ pc = "spin_up" /\ phase = "running" /\ pc' = "select" /\ js' = js
        /\ js.infra_state /\ UNCHANGED <<chain, phase, pos, overruled>>
    BY <1>8 DEF SpinUpErr, In, Return, Control
  <2>2. Revived' /\ OpenedFirst' /\ Control'
    BY <1>2, <2>1, QuietStep DEF Control
  <2>3. OneInstance'
    BY <1>8, <2>1 DEF SpinUpErr, OneInstance, Live, NoLive, TypeOK
  <2>. QED
    BY <1>1, <2>2, <2>3
<1>9. CASE SpinDownOk
  <2>1. /\ pc = "spin_down" /\ target \in Instances
        /\ inst' = [inst EXCEPT ![target] = "terminated"] /\ chain' = chain
    BY <1>9 DEF SpinDownOk, In, Control, Terminated
  <2>2. LiveListedFirst => NoLive'
    BY <2>1 DEF OneInstance, Live, NoLive, TypeOK
  <2>3. OneInstance' /\ OpenedFirst'
    BY <2>1, <2>2 DEF OneInstance, NoLive, OpenedFirst
  <2>4. Leave("done")
    BY <1>9 DEF SpinDownOk
  <2>. QED
    BY <1>1, <2>3, <2>4, <1>9, LeaveControl DEF SpinDownOk, OneInstance, Leave
<1>10. CASE SpinDownErr
  <2>1. /\ phase = "running" /\ pc' = "select" /\ js' = js
        /\ UNCHANGED <<chain, phase, pos, overruled>>
    BY <1>10 DEF SpinDownErr, In, Return
  <2>2. Revived' /\ OpenedFirst' /\ Control'
    BY <1>2, <2>1, QuietStep DEF Control
  <2>3. \A i \in Instances : Live(i)' => Live(i)
    BY <1>10 DEF SpinDownErr, Terminated, aws, Live, TypeOK
  <2>4. OneInstance'
    BY <2>1, <2>3 DEF OneInstance, NoLive
  <2>. QED
    BY <1>1, <2>2, <2>4
<1>. QED
  BY <1>3, <1>4, <1>5, <1>6, <1>7, <1>8, <1>9, <1>10
     DEF ChangeInfra, InfraOk, InfraErr

\* Every step keeps the inductive invariant.
LEMMA NextIInv ==
  ASSUME IInv, [Next]_vars
  PROVE  IInv'
<1>1. CASE UNCHANGED vars
  <2>1. TypeOK'
    BY <1>1, NextTypeOK DEF IInv
  <2>. QED
    BY <1>1, <2>1 DEF vars, session, aws, bounds, IInv, Control, OneInstance,
                      Revived, OpenedFirst, Live, NoLive, Kills
<1>. QED
  BY <1>1, EnvironmentIInv, ProcessLogIInv, TimersIInv, InfraIInv
     DEF Next, Manager

\* The invariant the safety theorems rest on: where the session is and what
\* it wants, that one instance at most is live, and which log it last obeyed.
THEOREM Invariance == Spec => []IInv
  BY InitIInv, NextIInv, PTL DEF Spec

-----------------------------------------------------------------------------
\* One live instance per job, provided AWS lists a live instance before the
\* dead ones: change_infra_impl trusts the first reservation it is given.
THEOREM OneInstancePerJob == Spec => []AtMostOneLive
<1>1. IInv => AtMostOneLive
  BY DEF IInv, OneInstance, AtMostOneLive
<1>. QED
  BY <1>1, Invariance, PTL

\* Under the same proviso, job_manager_once returns 0 only when nothing of the
\* job is left running.
THEOREM TerminationIsComplete == Spec => []CleanExit
<1>1. IInv => CleanExit
  BY DEF IInv, OneInstance, CleanExit
<1>. QED
  BY <1>1, Invariance, PTL

\* Only a metadata update revives a job that one of its logs has killed.
THEOREM OnlyMetadataRevives == Spec => []KillNeedsMetadata
<1>1. IInv => KillNeedsMetadata
  BY DEF IInv, Control, Revived, KillNeedsMetadata, KilledAt
<1>. QED
  BY <1>1, Invariance, PTL

-----------------------------------------------------------------------------
\* Nothing happens to a session's state before its first log.
Untouched == pos = 0 => js = NewJobState /\ ~lapsed

\* No step of a session changes its state before its first log.
LEMMA UntouchedStep ==
  ASSUME IInv, Untouched, [Next]_vars
  PROVE  Untouched'
<1> USE DEF Untouched
<1>0. pos \in Nat
  BY DEF IInv, TypeOK
<1>1. ASSUME NEW p, Leave(p) PROVE Untouched'
  BY <1>1 DEF Leave
<1>2. CASE UNCHANGED <<pos, js, lapsed>>
  BY <1>2
<1>3. CASE Lapse
  BY <1>3 DEF Lapse
<1>4. CASE Insolvency \/ Heartbeat \/ ChangeInfraLaunch
  <2>1. pos' = pos
    BY <1>4 DEF Insolvency, Heartbeat, ChangeInfraLaunch, Elsewhere
  <2>2. pos = 0 => /\ ~lapsed /\ js.infra_state = FALSE
                   /\ js.instance_id = NoInstance
    BY DEF NewJobState
  <2>3. lapsed \/ js.instance_id # NoInstance \/ js.infra_state
    BY <1>4 DEF Insolvency, Heartbeat, ChangeInfraLaunch
  <2>. QED
    BY <2>1, <2>2, <2>3
<1>5. CASE ProcessLog
  <2>1. Unrecoverable \/ Processed
    BY <1>5 DEF ProcessLog, ProcessOpened, ProcessOpenedDenied,
                ProcessOpenedBad, ProcessBalance, ProcessClosed,
                ProcessRateInitiated, ProcessRateCancelled,
                ProcessRateFinalized, ProcessMetadata
  <2>. QED
    BY <2>1, <1>0, <1>1 DEF Unrecoverable, Processed
<1>6. CASE UpdateOk \/ SpinUpOk \/ RunEnclaveOk \/ RunEnclaveErr
  <2>1. UNCHANGED <<pos, lapsed>> /\ (js' = js \/ js.infra_state)
    BY <1>6 DEF UpdateOk, SpinUpOk, RunEnclaveOk, RunEnclaveErr,
                RunEnclaveReturns, In, Return, IInv, Control
  <2>. QED
    BY <2>1 DEF NewJobState
<1>7. CASE UpdateErr \/ ReplaceOk \/ SpinUpErr \/ SpinDownErr
  BY <1>2, <1>7 DEF UpdateErr, ReplaceOk, SpinUpErr, SpinDownErr, Return
<1>8. CASE ChangeInfraTerminate \/ SpinDownOk
  BY <1>1, <1>2, <1>8 DEF ChangeInfraTerminate, SpinDownOk
<1>9. CASE Restart \/ StreamEnd
  BY <1>1, <1>9 DEF Restart, StreamEnd
<1>10. CASE Emit \/ Deliver \/ Connect \/ EnclaveDown \/ EnclaveUp
  BY <1>2, <1>10 DEF Emit, Deliver, Connect, EnclaveDown, EnclaveUp, Elsewhere,
                     session
<1>11. ASSUME NEW i \in Instances, Outage(i) \/ EnclaveExit(i)
       PROVE  Untouched'
  BY <1>2, <1>11 DEF Outage, EnclaveExit, session
<1>12. CASE UNCHANGED vars
  BY <1>2, <1>12 DEF vars, session
<1>. QED
  BY <1>3, <1>4, <1>5, <1>6, <1>7, <1>8, <1>9, <1>10, <1>11, <1>12
     DEF Next, Environment, Manager, ChangeInfra, InfraOk, InfraErr

-----------------------------------------------------------------------------
\* No rate reaches the min_rate of a job that was refused, and only a job that
\* was accepted has the min_rate of its rate card.
Rated ==
  /\ js.rate < U256Max /\ js.original_rate < U256Max
  /\ \A k \in 1..Len(chain) : chain[k].rate < U256Max
  /\ js.min_rate = MinRate => pos > 0 /\ chain[1].kind = "OPENED"

\* Every step keeps what the rates say about the job.
LEMMA RatedStep ==
  ASSUME IInv, Rated, [Next]_vars
  PROVE  Rated'
<1> USE DEF Rated
<1>0. /\ pos \in Nat /\ pos <= Len(chain) /\ chain \in Seq(Event) /\ js \in JobState
      /\ MinRate \in Nat /\ U256Max \in Nat /\ 1 < U256Max /\ MinRate < U256Max
      /\ \A q \in Rates : q < U256Max
  BY JobManagerAssumption DEF IInv, TypeOK
<1>1. ASSUME NEW p, Leave(p), chain' = chain PROVE Rated'
  BY <1>0, <1>1 DEF Leave, NewJobState
<1>2. ASSUME UNCHANGED <<chain, pos>>, js'.rate = js.rate,
             js'.original_rate = js.original_rate, js'.min_rate = js.min_rate
      PROVE  Rated'
  BY <1>2
<1>3. CASE Emit
  <2>1. PICK e \in Emittable : chain' = Append(chain, e)
    BY <1>3 DEF Emit
  <2>2. e.rate < U256Max
    BY <1>0 DEF Emittable
  <2>3. pos > 0 => chain'[1] = chain[1]
    BY <1>0, <2>1
  <2>4. \A k \in 1..Len(chain') : chain'[k].rate < U256Max
    BY <1>0, <2>1, <2>2
  <2>5. UNCHANGED <<pos, js>>
    BY <1>3 DEF Emit, session
  <2>. QED
    BY <2>3, <2>4, <2>5
<1>4. CASE ProcessLog
  <2>a. ASSUME NEW ks, NextLog(ks) PROVE chain[pos + 1].rate < U256Max
    BY <2>a, <1>0, NextLogType DEF IInv
  <2>b. ASSUME NEW ks, NextLog(ks), Processed,
               js'.rate < U256Max, js'.original_rate < U256Max,
               js'.min_rate = js.min_rate
        PROVE  Rated'
    BY <2>b, <1>0 DEF Processed
  <2>1. CASE Unrecoverable
    BY <2>1, <1>1 DEF Unrecoverable
  <2>2. CASE ProcessOpened
    <3>1. pos = 0 /\ chain[1].kind = "OPENED" /\ chain[1].rate < U256Max
      <4>1. pos = 0
        BY <2>2, NextLogType DEF ProcessOpened, IInv, OpenedFirst, OpenKinds, TypeOK
      <4>2. NextLog({"OPENED"})
        BY <2>2 DEF ProcessOpened
      <4>3. chain[pos + 1].kind = "OPENED" /\ chain[pos + 1].rate < U256Max
        BY <4>2, <2>a DEF NextLog
      <4>. QED
        BY <4>1, <4>3
    <3>2. js'.rate = chain[1].rate /\ js'.original_rate = chain[1].rate
      BY <1>0, <2>2, <3>1
         DEF ProcessOpened, schedule_launch, schedule_termination, JobState
    <3>. QED
      BY <2>2, <3>1, <3>2, <1>0 DEF ProcessOpened, Processed
  <2>3. CASE ProcessOpenedDenied
    <3>1. js'.rate = chain[pos + 1].rate /\ js'.original_rate = chain[pos + 1].rate
          /\ js'.min_rate = js.min_rate
      BY <1>0, <2>3 DEF ProcessOpenedDenied, schedule_termination, JobState
    <3>. QED
      BY <2>3, <2>a, <2>b, <3>1 DEF ProcessOpenedDenied
  <2>4. CASE ProcessBalance
    BY <2>4, <2>b DEF ProcessBalance
  <2>5. CASE ProcessClosed
    <3>1. js'.rate = js.rate /\ js'.original_rate = js.original_rate
          /\ js'.min_rate = js.min_rate
      BY <1>0, <2>5 DEF ProcessClosed, schedule_termination, JobState
    <3>. QED
      BY <2>5, <2>b, <3>1 DEF ProcessClosed
  <2>6. CASE ProcessRateInitiated
    <3>1. js'.rate = chain[pos + 1].rate /\ js'.original_rate = js.rate
          /\ js'.min_rate = js.min_rate
      BY <1>0, <2>6 DEF ProcessRateInitiated, schedule_termination, JobState
    <3>. QED
      BY <2>6, <2>a, <2>b, <3>1 DEF ProcessRateInitiated
  <2>7. CASE ProcessRateCancelled
    <3>1. js'.rate = js.original_rate /\ js'.original_rate = js.original_rate
          /\ js'.min_rate = js.min_rate
      BY <1>0, <2>7 DEF ProcessRateCancelled, JobState
    <3>. QED
      BY <2>7, <2>b, <3>1 DEF ProcessRateCancelled
  <2>8. CASE ProcessRateFinalized /\ ~Unrecoverable
    <3>1. js'.rate = js.rate /\ js'.original_rate = chain[pos + 1].rate
          /\ js'.min_rate = js.min_rate
      BY <1>0, <2>8 DEF ProcessRateFinalized, JobState
    <3>. QED
      BY <2>8, <2>a, <2>b, <3>1 DEF ProcessRateFinalized
  <2>9. CASE ProcessMetadata /\ ~Unrecoverable
    <3>1. js'.rate = js.rate /\ js'.original_rate = js.original_rate
          /\ js'.min_rate = js.min_rate
      BY <1>0, <2>9 DEF ProcessMetadata, schedule_launch, JobState
    <3>. QED
      BY <2>9, <2>b, <3>1 DEF ProcessMetadata
  <2>. QED
    BY <1>4, <2>1, <2>2, <2>3, <2>4, <2>5, <2>6, <2>7, <2>8, <2>9
       DEF ProcessLog, ProcessOpenedBad
<1>5. CASE Insolvency \/ Heartbeat \/ ChangeInfraLaunch
  <2>1. UNCHANGED <<chain, pos>>
    BY <1>5 DEF Insolvency, Heartbeat, ChangeInfraLaunch, Elsewhere
  <2>2. js'.rate = js.rate /\ js'.original_rate = js.original_rate
        /\ js'.min_rate = js.min_rate
    BY <1>0, <1>5 DEF Insolvency, Heartbeat, HeartbeatRunning, HeartbeatLaunches,
                      ChangeInfraLaunch, schedule_launch, schedule_termination,
                      JobState
  <2>. QED
    BY <1>2, <2>1, <2>2
<1>6. CASE UpdateOk \/ SpinUpOk \/ RunEnclaveOk \/ RunEnclaveErr
  <2>1. UNCHANGED <<chain, pos>>
    BY <1>6 DEF UpdateOk, SpinUpOk, RunEnclaveOk, RunEnclaveErr,
                RunEnclaveReturns, Return
  <2>2. js'.rate = js.rate /\ js'.original_rate = js.original_rate
        /\ js'.min_rate = js.min_rate
    BY <1>0, <1>6 DEF UpdateOk, SpinUpOk, RunEnclaveOk, RunEnclaveErr,
                      RunEnclaveReturns, JobState
  <2>. QED
    BY <1>2, <2>1, <2>2
<1>7. CASE UpdateErr \/ ReplaceOk \/ SpinUpErr \/ SpinDownErr
  BY <1>2, <1>7 DEF UpdateErr, ReplaceOk, SpinUpErr, SpinDownErr, Return
<1>8. CASE ChangeInfraTerminate \/ SpinDownOk
  BY <1>1, <1>2, <1>8 DEF ChangeInfraTerminate, SpinDownOk
<1>9. CASE Restart \/ StreamEnd
  BY <1>1, <1>9 DEF Restart, StreamEnd
<1>10. CASE Deliver \/ Lapse \/ Connect \/ EnclaveDown \/ EnclaveUp
  BY <1>2, <1>10 DEF Deliver, Lapse, Connect, EnclaveDown, EnclaveUp, Elsewhere
<1>11. ASSUME NEW i \in Instances, Outage(i) \/ EnclaveExit(i)
       PROVE  Rated'
  BY <1>2, <1>11 DEF Outage, EnclaveExit, session
<1>12. CASE UNCHANGED vars
  BY <1>2, <1>12 DEF vars, session
<1>. QED
  BY <1>3, <1>4, <1>5, <1>6, <1>7, <1>8, <1>9, <1>10, <1>11, <1>12
     DEF Next, Environment, Manager, ChangeInfra, InfraOk, InfraErr

\* A scheduled termination survives every step of the session but a metadata
\* update and a heartbeat that finds the instance of an accepted, paying job
\* dead: not another log, not a failed call, not the heartbeat of a job that
\* was refused or does not pay.
THEOREM TerminationIsSticky == Spec => TerminationSticks
<1> DEFINE Pending == phase = "running" /\ js.infra_change_scheduled
                        /\ ~js.infra_state
           Kept == js'.infra_change_scheduled /\ ~js'.infra_state
           Revival == \/ pos' = pos + 1 /\ chain[pos + 1].kind = "METADATA"
                      \/ /\ pos' = pos /\ inst[js.instance_id] # "running"
                         /\ chain[1].kind = "OPENED" /\ js.rate >= MinRate
           A == Pending => phase' # "running" \/ Kept \/ Revival
<1>1. ASSUME IInv, Untouched, Rated, [Next]_vars PROVE [A]_vars
  <2> SUFFICES ASSUME Pending, phase' = "running", Next PROVE Kept \/ Revival
    BY <1>1
  <2> USE <1>1 DEF IInv
  <2>0. js \in JobState
    BY DEF TypeOK
  <2>1. CASE js' = js
    BY <2>1
  <2>a. CASE Insolvency
    BY <2>a DEF Insolvency
  <2>b. CASE Heartbeat /\ ~HeartbeatRunning
    <3>1. /\ js.rate >= js.min_rate /\ inst[js.instance_id] # "running"
          /\ pos' = pos /\ js.instance_id # NoInstance
      BY <2>b DEF Heartbeat, HeartbeatLaunches, Elsewhere
    <3>2. js.min_rate = MinRate
      BY <2>0, <3>1, JobManagerAssumption DEF Rated, Revived, JobState
    <3>. QED
      BY <3>1, <3>2 DEF Rated
  <2>2. CASE Heartbeat
    BY <2>1, <2>2, <2>b DEF HeartbeatRunning
  <2>3. CASE ProcessLog
    <3>1. ~ProcessOpened
      <4>1. ProcessOpened => pos = 0
        BY NextLogType DEF ProcessOpened, OpenedFirst, OpenKinds, TypeOK
      <4>. QED
        BY <4>1 DEF Untouched, NewJobState
    <3>2. CASE ProcessOpenedDenied \/ ProcessClosed
      BY <2>0, <3>2
         DEF ProcessOpenedDenied, ProcessClosed, schedule_termination, JobState
    <3>3. CASE Unrecoverable
      BY <3>3 DEF Unrecoverable, Leave
    <3>4. CASE ProcessRateInitiated \/ ProcessRateCancelled
      BY <2>0, <3>4 DEF ProcessRateInitiated, ProcessRateCancelled,
                        schedule_termination, JobState
    <3>5. CASE ProcessRateFinalized /\ ~Unrecoverable
      BY <2>0, <3>5 DEF ProcessRateFinalized, JobState
    <3>6. CASE ProcessMetadata /\ ~Unrecoverable
      BY <3>6 DEF ProcessMetadata, Processed
    <3>. QED
      BY <2>1, <2>3, <3>1, <3>2, <3>3, <3>4, <3>5, <3>6
         DEF ProcessLog, ProcessOpenedBad, ProcessBalance
  <2>4. CASE ChangeInfra \/ InfraOk \/ InfraErr
    <3>1. ~ChangeInfraLaunch
      BY DEF ChangeInfraLaunch
    <3>2. /\ ~(UpdateOk \/ SpinUpOk)
          /\ RunEnclaveOk \/ RunEnclaveErr => js' = js
      BY DEF UpdateOk, SpinUpOk, RunEnclaveOk, RunEnclaveErr, RunEnclaveReturns,
             In, Control
    <3>3. ~Leave("done")
      BY DEF Leave
    <3>4. js' = js
      BY <2>4, <3>1, <3>2, <3>3
         DEF ChangeInfra, InfraOk, InfraErr, ChangeInfraTerminate, UpdateErr,
             ReplaceOk, SpinUpErr, SpinDownOk, SpinDownErr
    <3>. QED
      BY <2>1, <3>4
  <2>5. CASE Environment \/ Connect \/ StreamEnd \/ EnclaveDown \/ EnclaveUp
    <3>1. js' = js
      BY <2>5 DEF Environment, Emit, Deliver, Lapse, Restart, Outage,
                  EnclaveExit, Connect, StreamEnd, EnclaveDown, EnclaveUp,
                  Leave, session
    <3>. QED
      BY <2>1, <3>1
  <2>. QED
    BY <2>a, <2>2, <2>3, <2>4, <2>5 DEF Next, Manager
<1>2. Init => Untouched /\ Rated
  BY JobManagerAssumption DEF Init, Untouched, Rated, NewJobState
<1>. QED
  BY <1>1, <1>2, UntouchedStep, RatedStep, Invariance, PTL DEF Spec, TerminationSticks
=============================================================================
