---------------------------- MODULE JobManager ----------------------------
(***************************************************************************)
(* The life of one job in the operator's control plane: job_manager,       *)
(* job_manager_once and JobState of operator/control-plane/src/market.rs,  *)
(* with the job's EC2 instances as the calls of InfraProvider change them. *)
(*                                                                         *)
(* A session (job_manager_once) starts from a fresh JobState and replays   *)
(* the job's logs from the first one.  Its select! is biased, so a log     *)
(* that has arrived is processed before any timer branch.  Every call of   *)
(* the provider is a step of its own and may fail; the environment moves   *)
(* between two calls.  Time is abstracted to which timers have elapsed.    *)
(* The delays of an infra change (launch 3s, retry 2s, termination 0s) are *)
(* shorter than the 5s of the heartbeat, which restarts with every turn of *)
(* the loop; but a task polled late finds both elapsed, and the select! is *)
(* biased towards the heartbeat.  So the heartbeat may fire while a change *)
(* is scheduled, only not for ever (Fairness).                             *)
(***************************************************************************)
EXTENDS Naturals, Sequences, FiniteSets

CONSTANTS
  Instances,        \* EC2 instance ids, in the order AWS hands them out
  NoInstance,       \* the empty instance_id
  Urls,             \* EIF urls
  NoUrl,            \* no url, or no enclave running
  Rates,            \* rates the market contract may report
  MinRate,          \* min_rate of the job's rate card
  U256Max,          \* U256::MAX, min_rate before the rate card is looked up
  Kinds,            \* the event kinds the contract emits in this instance
  LiveListedFirst,  \* does describe_instances list a live instance first?
  MaxLogs,          \* bound: logs of the job
  MaxRestarts,      \* bound: process restarts and dropped log streams
  MaxFaults         \* bound: AWS faults that change the state of an instance

AllKinds ==
  {"OPENED", "OPENED_DENIED", "OPENED_BAD", "SETTLED", "CLOSED", "DEPOSITED",
   "WITHDREW", "RATE_INITIATED", "RATE_CANCELLED", "RATE_FINALIZED",
   "METADATA", "METADATA_BAD"}

ASSUME JobManagerAssumption ==
  /\ Instances \subseteq Nat
  /\ NoInstance \notin Instances
  /\ NoUrl \notin Urls
  /\ Rates \subseteq Nat
  /\ MinRate \in Nat
  /\ U256Max \in Nat
  /\ \A r \in Rates \cup {1, MinRate} : r < U256Max
  /\ Kinds \subseteq AllKinds
  /\ LiveListedFirst \in BOOLEAN
  /\ MaxLogs \in Nat
  /\ MaxRestarts \in Nat
  /\ MaxFaults \in Nat

VARIABLES
  chain,     \* the logs of the job, in chain order
  phase,     \* job_manager: connecting, running a session, or returned
  avail,     \* how many logs have reached the session's stream
  pos,       \* how many of them process_log has consumed
  js,        \* the session's JobState
  lapsed,    \* insolvency_duration() is zero
  overruled, \* history: the session's heartbeat has turned a scheduled
             \* termination into a launch
  pc,        \* which await the session is in
  target,    \* the instance spin_down was called with
  inst,      \* state of every instance, as AWS reports it
  enclave,   \* image of the enclave that runs on an instance
  restarts,  \* restarts so far
  faults     \* AWS faults so far

session == <<avail, pos, js, lapsed, overruled, pc, target>>
aws     == <<inst, enclave>>
bounds  == <<restarts, faults>>
vars    == <<chain, phase, session, aws, bounds>>

-----------------------------------------------------------------------------
(* The job's logs.  A record has every field; the ones its kind does not   *)
(* carry hold MinRate and NoUrl.                                           *)

Event == [kind : AllKinds, rate : Nat, url : Urls \cup {NoUrl}]

OpenKinds == {"OPENED", "OPENED_DENIED", "OPENED_BAD"}

\* The rate revisions that are initiated and neither cancelled nor finalized.
PendingRates(c) ==
  {c[k].rate : k \in {n \in 1..Len(c) :
     /\ c[n].kind = "RATE_INITIATED"
     /\ \A m \in (n + 1)..Len(c) :
          c[m].kind \notin {"RATE_CANCELLED", "RATE_FINALIZED"}}}

Closed(c) == \E k \in 1..Len(c) : c[k].kind = "CLOSED"

\* What the market contract may emit next for the job.
MayEmit(c, e) ==
  /\ e.kind \in OpenKinds <=> c = <<>>
  /\ ~Closed(c)
  /\ e.kind = "RATE_INITIATED" => PendingRates(c) = {}
  /\ e.kind = "RATE_CANCELLED" => PendingRates(c) # {}
  /\ e.kind = "RATE_FINALIZED" => e.rate \in PendingRates(c)

Emittable ==
  [kind : {"OPENED_BAD", "SETTLED", "CLOSED", "DEPOSITED", "WITHDREW",
           "RATE_CANCELLED", "METADATA_BAD"}, rate : {MinRate}, url : {NoUrl}]
  \cup [kind : {"RATE_INITIATED", "RATE_FINALIZED"}, rate : Rates, url : {NoUrl}]
  \cup [kind : {"OPENED", "OPENED_DENIED"}, rate : Rates, url : Urls]
  \cup [kind : {"METADATA"}, rate : {MinRate}, url : Urls]

-----------------------------------------------------------------------------
(* JobState                                                                *)

JobState ==
  [rate : Nat, original_rate : Nat, min_rate : Nat,
   eif_url : Urls \cup {NoUrl}, eif_update : BOOLEAN,
   instance_id : Instances \cup {NoInstance},
   infra_state : BOOLEAN, infra_change_scheduled : BOOLEAN]

NewJobState ==
  [rate |-> 1, original_rate |-> 1, min_rate |-> U256Max,
   eif_url |-> NoUrl, eif_update |-> FALSE, instance_id |-> NoInstance,
   infra_state |-> FALSE, infra_change_scheduled |-> FALSE]

schedule_launch(s) ==
  [s EXCEPT !.infra_change_scheduled = TRUE, !.infra_state = TRUE]

schedule_termination(s) ==
  [s EXCEPT !.infra_change_scheduled = TRUE, !.infra_state = FALSE]

-----------------------------------------------------------------------------
(* The instances                                                           *)

InstState == {"none", "running", "stopped", "terminated"}

Live(i)  == inst[i] \in {"running", "stopped"}
Fresh(i) == /\ inst[i] = "none"
            /\ \A j \in Instances : j < i => inst[j] # "none"
Listed   == {i \in Instances : inst[i] # "none"}

\* The instances get_job_instance_id may return: the first reservation that
\* describe_instances lists, in an order AWS does not define.
FirstListed ==
  {i \in Listed :
     LiveListedFirst => (Live(i) \/ \A j \in Instances : ~Live(j))}

-----------------------------------------------------------------------------
Phases == {"connecting", "running", "done", "failed"}
Pcs == {"select", "check_enclave", "update", "replace", "spin_up",
        "run_enclave", "rerun_enclave", "spin_down"}

TypeOK ==
  /\ chain \in Seq(Event)
  /\ phase \in Phases
  /\ avail \in 0..Len(chain)
  /\ pos \in 0..avail
  /\ js \in JobState
  /\ lapsed \in BOOLEAN
  /\ overruled \in BOOLEAN
  /\ pc \in Pcs
  /\ target \in Instances \cup {NoInstance}
  /\ inst \in [Instances -> InstState]
  /\ enclave \in [Instances -> Urls \cup {NoUrl}]
  /\ restarts \in Nat
  /\ faults \in Nat

Init ==
  /\ chain = <<>>
  /\ phase = "connecting"
  /\ avail = 0 /\ pos = 0
  /\ js = NewJobState
  /\ lapsed = FALSE
  /\ overruled = FALSE
  /\ pc = "select"
  /\ target = NoInstance
  /\ inst = [i \in Instances |-> "none"]
  /\ enclave = [i \in Instances |-> NoUrl]
  /\ restarts = 0
  /\ faults = 0

\* The session ends; what it knew is dropped with it.
Leave(p) ==
  /\ phase' = p
  /\ avail' = 0 /\ pos' = 0
  /\ js' = NewJobState
  /\ lapsed' = FALSE
  /\ overruled' = FALSE
  /\ pc' = "select"
  /\ target' = NoInstance

-----------------------------------------------------------------------------
(* Environment                                                             *)

\* The chain emits a log of the job.
Emit ==
  /\ Len(chain) < MaxLogs
  /\ \E e \in Emittable :
       /\ e.kind \in Kinds
       /\ MayEmit(chain, e)
       /\ chain' = Append(chain, e)
  /\ UNCHANGED <<phase, session, aws, bounds>>

\* The subscription delivers the next log.
Deliver ==
  /\ phase = "running"
  /\ avail < Len(chain)
  /\ avail' = avail + 1
  /\ UNCHANGED <<chain, phase, pos, js, lapsed, overruled, pc, target, aws, bounds>>

\* Time passes until the job, as the session sees it, is insolvent.
Lapse ==
  /\ phase = "running" /\ pos > 0 /\ ~lapsed
  /\ lapsed' = TRUE
  /\ UNCHANGED <<chain, phase, avail, pos, js, overruled, pc, target, aws, bounds>>

\* An instance stops or dies by itself.
Outage(i) ==
  /\ faults < MaxFaults
  /\ Live(i)
  /\ \E s \in {"stopped", "terminated"} :
       /\ s # inst[i]
       /\ inst' = [inst EXCEPT ![i] = s]
  /\ enclave' = [enclave EXCEPT ![i] = NoUrl]
  /\ faults' = faults + 1
  /\ UNCHANGED <<chain, phase, session, restarts>>

\* The enclave exits while its instance keeps running.
EnclaveExit(i) ==
  /\ faults < MaxFaults
  /\ enclave[i] # NoUrl
  /\ enclave' = [enclave EXCEPT ![i] = NoUrl]
  /\ faults' = faults + 1
  /\ UNCHANGED <<chain, phase, session, inst, restarts>>

\* The control plane process restarts: run spawns job_manager anew, whatever
\* the old task was waiting for and whether it had returned or not.
Restart ==
  /\ restarts < MaxRestarts
  /\ restarts' = restarts + 1
  /\ Leave("connecting")
  /\ UNCHANGED <<chain, aws, faults>>

-----------------------------------------------------------------------------
(* job_manager: connect, subscribe, and replay from the first log          *)

Connect ==
  /\ phase = "connecting"
  /\ chain # <<>>
  /\ phase' = "running"
  /\ avail' = Len(chain)
  /\ UNCHANGED <<chain, pos, js, lapsed, overruled, pc, target, aws, bounds>>

-----------------------------------------------------------------------------
(* job_manager_once, first branch: process_log                             *)

AtSelect == phase = "running" /\ pc = "select"
Drained  == pos = avail

NextLog(ks) == AtSelect /\ pos < avail /\ chain[pos + 1].kind \in ks

Processed ==
  /\ pos' = pos + 1
  /\ UNCHANGED <<chain, phase, avail, overruled, pc, target, aws, bounds>>

\* process_log returned -2: job_manager returns.
Unrecoverable ==
  /\ Leave("failed")
  /\ UNCHANGED <<chain, aws, bounds>>

ProcessOpened ==
  LET e == chain[pos + 1]
      s == [js EXCEPT !.rate = e.rate, !.original_rate = e.rate,
                      !.eif_url = e.url, !.min_rate = MinRate]
  IN  /\ NextLog({"OPENED"})
      /\ js' = IF e.rate >= MinRate THEN schedule_launch(s)
                                    ELSE schedule_termination(s)
      /\ lapsed' \in BOOLEAN
      /\ Processed

\* The owner is not whitelisted or is blacklisted: -3 keeps the loop going,
\* and the rate card is not looked up.
ProcessOpenedDenied ==
  LET e == chain[pos + 1]
  IN  /\ NextLog({"OPENED_DENIED"})
      /\ js' = schedule_termination([js EXCEPT !.rate = e.rate,
                                               !.original_rate = e.rate,
                                               !.eif_url = e.url])
      /\ lapsed' \in BOOLEAN
      /\ Processed

\* Metadata that does not parse, a missing field, an unsupported region or
\* instance type.
ProcessOpenedBad ==
  /\ NextLog({"OPENED_BAD"})
  /\ Unrecoverable

\* SETTLED, DEPOSITED and WITHDREW move balance and last_settled only.
ProcessBalance ==
  /\ NextLog({"SETTLED", "DEPOSITED", "WITHDREW"})
  /\ lapsed' \in BOOLEAN
  /\ UNCHANGED js
  /\ Processed

ProcessClosed ==
  /\ NextLog({"CLOSED"})
  /\ js' = schedule_termination(js)
  /\ UNCHANGED lapsed
  /\ Processed

ProcessRateInitiated ==
  LET r == chain[pos + 1].rate
      s == [js EXCEPT !.original_rate = js.rate, !.rate = r]
  IN  /\ NextLog({"RATE_INITIATED"})
      /\ js' = IF r < js.min_rate THEN schedule_termination(s) ELSE s
      /\ lapsed' \in BOOLEAN
      /\ Processed

\* Faulty variant: a cancelled revision launches the job again.
ProcessRateCancelled_Relaunches ==
  /\ NextLog({"RATE_CANCELLED"})
  /\ js' = schedule_launch([js EXCEPT !.rate = js.original_rate])
  /\ lapsed' \in BOOLEAN
  /\ Processed

ProcessRateCancelled ==
  /\ NextLog({"RATE_CANCELLED"})
  /\ js' = [js EXCEPT !.rate = js.original_rate]
  /\ lapsed' \in BOOLEAN
  /\ Processed

ProcessRateFinalized ==
  LET r == chain[pos + 1].rate
  IN  /\ NextLog({"RATE_FINALIZED"})
      /\ \/ /\ js.rate # r
            /\ Unrecoverable
         \/ /\ js.rate = r
            /\ js' = [js EXCEPT !.original_rate = r]
            /\ UNCHANGED lapsed
            /\ Processed

\* A change of anything but the url, or no change of the url, schedules a
\* termination and returns -2: the session is left before it can run.
ProcessMetadata ==
  LET e == chain[pos + 1]
  IN  /\ NextLog({"METADATA", "METADATA_BAD"})
      /\ \/ /\ e.kind = "METADATA_BAD" \/ e.url = js.eif_url
            /\ Unrecoverable
         \/ /\ e.kind = "METADATA" /\ e.url # js.eif_url
            /\ js' = schedule_launch([js EXCEPT !.eif_url = e.url,
                                                !.eif_update = TRUE])
            /\ UNCHANGED lapsed
            /\ Processed

\* The log stream ended (None): -1, job_manager connects again.
StreamEnd ==
  /\ restarts < MaxRestarts
  /\ AtSelect /\ Drained
  /\ restarts' = restarts + 1
  /\ Leave("connecting")
  /\ UNCHANGED <<chain, aws, faults>>

ProcessLog ==
  \/ ProcessOpened
  \/ ProcessOpenedDenied
  \/ ProcessOpenedBad
  \/ ProcessBalance
  \/ ProcessClosed
  \/ ProcessRateInitiated
  \/ ProcessRateCancelled
  \/ ProcessRateFinalized
  \/ ProcessMetadata

-----------------------------------------------------------------------------
(* Second branch: heartbeat_check.  A call that fails changes nothing.     *)

Elsewhere == <<chain, phase, avail, pos, lapsed, target, aws, bounds>>

\* The instance runs: the enclave on it is checked next.
HeartbeatRunning ==
  /\ inst[js.instance_id] = "running"
  /\ pc' = "check_enclave"
  /\ UNCHANGED <<js, overruled>>

\* schedule_launch overwrites whatever change is scheduled.
HeartbeatLaunches ==
  /\ inst[js.instance_id] # "running"
  /\ js' = schedule_launch(js)
  /\ overruled' = (overruled \/ (js.infra_change_scheduled /\ ~js.infra_state))
  /\ UNCHANGED pc

\* Faulty variant: the heartbeat does not look at the rate.
Heartbeat_AnyRate ==
  /\ AtSelect /\ Drained
  /\ js.instance_id # NoInstance
  /\ HeartbeatRunning \/ HeartbeatLaunches
  /\ UNCHANGED Elsewhere

Heartbeat ==
  /\ AtSelect /\ Drained
  /\ js.instance_id # NoInstance
  /\ HeartbeatRunning \/ (js.rate >= js.min_rate /\ HeartbeatLaunches)
  /\ UNCHANGED Elsewhere

\* check_enclave_running says no.
EnclaveDown ==
  /\ phase = "running" /\ pc = "check_enclave"
  /\ inst[js.instance_id] = "running"
  /\ enclave[js.instance_id] = NoUrl
  /\ pc' = "rerun_enclave"
  /\ UNCHANGED <<js, overruled, Elsewhere>>

\* check_enclave_running says yes, or fails.
EnclaveUp ==
  /\ phase = "running" /\ pc = "check_enclave"
  /\ pc' = "select"
  /\ UNCHANGED <<js, overruled, Elsewhere>>

-----------------------------------------------------------------------------
(* Third branch: the insolvency timer                                      *)

Insolvency ==
  /\ AtSelect /\ Drained
  /\ lapsed
  /\ ~js.infra_change_scheduled \/ js.infra_state
  /\ js' = schedule_termination(js)
  /\ UNCHANGED <<pc, overruled, Elsewhere>>

-----------------------------------------------------------------------------
(* Fourth branch: change_infra.  ChangeInfra is its get_job_instance; the  *)
(* calls it leads to are the actions after it.  On an error change_infra   *)
(* stays scheduled and is tried again.                                     *)

InfraDue ==
  /\ AtSelect /\ Drained
  /\ js.infra_change_scheduled
  /\ js.infra_state => ~lapsed

ChangeInfraLaunch ==
  /\ InfraDue
  /\ js.infra_state
  /\ \/ \E i \in FirstListed :
          /\ inst[i] = "running"
          /\ js' = [js EXCEPT !.instance_id = i,
                              !.infra_change_scheduled = js.eif_update]
          /\ pc' = IF js.eif_update THEN "update" ELSE "select"
          /\ UNCHANGED target
     \/ \E i \in FirstListed :
          /\ inst[i] = "stopped"
          /\ target' = i
          /\ pc' = "replace"
          /\ UNCHANGED js
     \/ /\ Listed = {} \/ \E i \in FirstListed : inst[i] = "terminated"
        /\ pc' = "spin_up"
        /\ UNCHANGED <<js, target>>
  /\ UNCHANGED <<chain, phase, avail, pos, lapsed, overruled, aws, bounds>>

ChangeInfraTerminate ==
  /\ InfraDue
  /\ ~js.infra_state
  /\ \/ \E i \in FirstListed :
          /\ Live(i)
          /\ target' = i
          /\ pc' = "spin_down"
          /\ UNCHANGED <<phase, avail, pos, js, lapsed, overruled>>
     \/ /\ Listed = {} \/ \E i \in FirstListed : inst[i] = "terminated"
        /\ Leave("done")
  /\ UNCHANGED <<chain, aws, bounds>>

In(p) == phase = "running" /\ pc = p

Terminated(i) ==
  /\ inst' = [inst EXCEPT ![i] = "terminated"]
  /\ enclave' = [enclave EXCEPT ![i] = NoUrl]

Return(p) ==
  /\ pc' = p
  /\ target' = NoInstance
  /\ UNCHANGED <<chain, phase, avail, pos, lapsed, overruled, restarts>>

UpdateOk ==
  /\ In("update")
  /\ inst[js.instance_id] = "running"
  /\ enclave' = [enclave EXCEPT ![js.instance_id] = js.eif_url]
  /\ js' = [js EXCEPT !.eif_update = FALSE, !.infra_change_scheduled = FALSE]
  /\ Return("select")
  /\ UNCHANGED <<inst, faults>>

\* Faulty variant: a failed update is not tried again.
UpdateErr_GivesUp ==
  /\ In("update")
  /\ js' = [js EXCEPT !.infra_change_scheduled = FALSE]
  /\ Return("select")
  /\ UNCHANGED <<aws, faults>>

\* update_enclave_image fails: before it touched the enclave, after it stopped
\* the old one, or after the new one started.
UpdateErr ==
  /\ In("update")
  /\ \/ UNCHANGED enclave
     \/ enclave' = [enclave EXCEPT ![js.instance_id] = NoUrl]
     \/ /\ inst[js.instance_id] = "running"
        /\ enclave' = [enclave EXCEPT ![js.instance_id] = js.eif_url]
  /\ Return("select")
  /\ UNCHANGED <<js, inst, faults>>

\* Faulty variant: the unhealthy instance is not terminated.
ReplaceOk_SkipsSpinDown ==
  /\ In("replace")
  /\ Return("spin_up")
  /\ UNCHANGED <<js, aws, faults>>

ReplaceOk ==
  /\ In("replace")
  /\ Terminated(target)
  /\ Return("spin_up")
  /\ UNCHANGED <<js, faults>>

SpinUpOk ==
  /\ In("spin_up")
  /\ \E i \in Instances :
       /\ Fresh(i)
       /\ inst' = [inst EXCEPT ![i] = "running"]
       /\ js' = [js EXCEPT !.instance_id = i]
  /\ Return("run_enclave")
  /\ UNCHANGED <<enclave, faults>>

\* spin_up fails before it launches, after it launched and cleaned up, or
\* after it launched and failed to clean up.
SpinUpErr ==
  /\ In("spin_up")
  /\ \/ UNCHANGED <<inst, faults>>
     \/ /\ faults < MaxFaults
        /\ faults' = faults + 1
        /\ \E i \in Instances, s \in {"running", "terminated"} :
             /\ Fresh(i)
             /\ inst' = [inst EXCEPT ![i] = s]
  /\ Return("select")
  /\ UNCHANGED <<js, enclave>>

\* run_enclave, called by change_infra, which counts it as done whatever its
\* result, or by heartbeat_check, which leaves the JobState alone.
RunEnclaveReturns ==
  /\ \/ /\ In("run_enclave")
        /\ js' = [js EXCEPT !.infra_change_scheduled = FALSE]
     \/ /\ In("rerun_enclave")
        /\ UNCHANGED js
  /\ Return("select")
  /\ UNCHANGED <<inst, faults>>

EnclaveStarts ==
  /\ inst[js.instance_id] = "running"
  /\ enclave' = [enclave EXCEPT ![js.instance_id] = js.eif_url]

RunEnclaveOk == RunEnclaveReturns /\ EnclaveStarts

\* An error may come after the enclave started.
RunEnclaveErr == RunEnclaveReturns /\ (EnclaveStarts \/ UNCHANGED enclave)

SpinDownOk ==
  /\ In("spin_down")
  /\ Terminated(target)
  /\ Leave("done")
  /\ UNCHANGED <<chain, bounds>>

\* Faulty variants: a failed spin_down counts as done, or is not retried.
SpinDownErr_CountsAsDone ==
  /\ In("spin_down")
  /\ Leave("done")
  /\ UNCHANGED <<chain, aws, bounds>>

SpinDownErr_GivesUp ==
  /\ In("spin_down") \/ In("replace")
  /\ js' = [js EXCEPT !.infra_change_scheduled = FALSE]
  /\ Return("select")
  /\ UNCHANGED <<aws, faults>>

\* spin_down fails, in terminate mode or on an unhealthy instance; the
\* instance may be terminated all the same.
SpinDownErr ==
  /\ In("spin_down") \/ In("replace")
  /\ Terminated(target) \/ UNCHANGED aws
  /\ Return("select")
  /\ UNCHANGED <<js, faults>>

ChangeInfra == ChangeInfraLaunch \/ ChangeInfraTerminate
InfraOk     == UpdateOk \/ ReplaceOk \/ SpinUpOk \/ RunEnclaveOk \/ SpinDownOk
InfraErr    == UpdateErr \/ SpinUpErr \/ RunEnclaveErr \/ SpinDownErr

-----------------------------------------------------------------------------
Environment ==
  Emit \/ Deliver \/ Lapse \/ Restart
  \/ \E i \in Instances : Outage(i) \/ EnclaveExit(i)

Manager ==
  Connect \/ ProcessLog \/ StreamEnd \/ Heartbeat \/ EnclaveDown \/ EnclaveUp
  \/ Insolvency \/ ChangeInfra \/ InfraOk \/ InfraErr

Next == Environment \/ Manager

\* The task runs, timers fire when due, the subscription delivers, and a call
\* that is retried for ever succeeds in the end: all but update_enclave_image,
\* whose failure can be the same at every try.  Neither the insolvency timer
\* nor change_infra is overtaken by a late heartbeat for ever.
Fairness ==
  /\ WF_vars(Connect) /\ WF_vars(Deliver) /\ WF_vars(ProcessLog)
  /\ WF_vars(Heartbeat) /\ WF_vars(EnclaveDown \/ EnclaveUp)
  /\ SF_vars(EnclaveDown) /\ SF_vars(Insolvency)
  /\ SF_vars(ChangeInfra) /\ WF_vars(InfraOk \/ InfraErr)
  /\ SF_vars(ReplaceOk) /\ SF_vars(SpinUpOk)
  /\ SF_vars(RunEnclaveOk) /\ SF_vars(SpinDownOk)

Spec     == Init /\ [][Next]_vars
FairSpec == Spec /\ Fairness

-----------------------------------------------------------------------------
(* Properties                                                              *)

NoLive == \A i \in Instances : ~Live(i)

\* A log that kills the job by itself: it is closed, its owner is refused, or
\* its rate is below the rate card's.
Kills(e) ==
  \/ e.kind \in {"CLOSED", "OPENED_DENIED"}
  \/ e.kind \in {"OPENED", "RATE_INITIATED"} /\ e.rate < MinRate

KilledAt(c, k) == k \in 1..Len(c) /\ Kills(c[k])

\* The job never has two live instances, through restarts, replays, failed
\* calls and instances that die while change_infra waits: spin_up runs only
\* after get_job_instance saw none or after the unhealthy one was terminated.
AtMostOneLive ==
  LiveListedFirst => \A i, j \in Instances : Live(i) /\ Live(j) => i = j

\* When job_manager_once returns 0 ("successful termination, exit") nothing of
\* the job is left running.
CleanExit == LiveListedFirst /\ phase = "done" => NoLive

\* A session that is about to launch has seen no killing log, or has seen a
\* metadata update after the last one: no replay and no other log revives a
\* killed job.  The exception is a late heartbeat (TerminationSticks).
KillNeedsMetadata ==
  phase = "running" /\ pc \in {"spin_up", "replace"} /\ ~overruled =>
    \A k \in 1..pos : KilledAt(chain, k) =>
      \E m \in (k + 1)..pos : chain[m].kind = "METADATA"

\* Whenever job_manager_once is left for good, no instance of the job is left
\* (the assertion at the end of run_test).
ExitLeavesNoInstance == phase \in {"done", "failed"} => NoLive

\* While the session lasts, a scheduled termination is dropped or turned into a
\* launch by two things only: a metadata update, and a heartbeat that comes
\* before change_infra, finds the instance dead, and deals with a job that was
\* accepted and pays its rate.  So a refused or underpaid job stays down,
\* whatever timer fires first and whatever log comes in between.
TerminationSticks ==
  [][(phase = "running" /\ js.infra_change_scheduled /\ ~js.infra_state)
       => \/ phase' # "running"
          \/ js'.infra_change_scheduled /\ ~js'.infra_state
          \/ pos' = pos + 1 /\ chain[pos + 1].kind = "METADATA"
          \/ /\ pos' = pos /\ inst[js.instance_id] # "running"
             /\ chain[1].kind = "OPENED" /\ js.rate >= MinRate]_vars

\* A closed job's instance is eventually gone, unless the task gave up on an
\* unrecoverable log or a late heartbeat overruled the termination; and so is
\* the instance of a job that has become insolvent, unless a later log makes it
\* solvent again or the session is lost.
TornDown ==
  /\ Closed(chain) ~> (NoLive \/ phase = "failed" \/ overruled)
  /\ (phase = "running" /\ lapsed) ~>
       (NoLive \/ phase \in {"connecting", "failed"}
               \/ (phase = "running" /\ ~lapsed))

\* The url in force after the logs of c.
UrlOf(c) ==
  LET u == {k \in 1..Len(c) : c[k].kind \in {"OPENED", "METADATA"}}
  IN  c[CHOOSE k \in u : \A m \in u : m <= k].url

\* The job deserves an instance: opened, not killed, solvent, and its task has
\* not given up.
Deserving ==
  /\ chain # <<>> /\ chain[1].kind = "OPENED"
  /\ \A k \in 1..Len(chain) : ~KilledAt(chain, k)
  /\ phase = "running" /\ ~lapsed
  /\ js.infra_state \/ ~js.infra_change_scheduled

Serving ==
  \E i \in Instances : inst[i] = "running" /\ enclave[i] = UrlOf(chain)

\* A job that goes on deserving an instance ends up with one that runs the
\* enclave of its latest url, whatever was lost on the way; or the update to
\* that url fails again and again, and is tried again and again.
EventuallyServing ==
  <>[]Deserving => (<>[]Serving \/ []<>(pc = "update"))
=============================================================================
