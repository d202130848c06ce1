---------------------------- MODULE EnclaveImage ----------------------------
(***************************************************************************)
(* How an enclave gets onto an instance: run_enclave_impl (salmon and      *)
(* tuna), update_enclave_image_impl and check_eif_blacklist_whitelist of   *)
(* operator/control-plane/src/aws.rs, one remote command per step, as      *)
(* change_infra_impl and heartbeat_check of market.rs call them.           *)
(*                                                                         *)
(* A command may fail before or after it took effect, and then ends the    *)
(* call; only curl fails silently, because its exit code and stderr are    *)
(* not looked at.  An image is named by the url it is served at.           *)
(***************************************************************************)
EXTENDS Naturals, Sequences

CONSTANTS
  Urls,        \* EIF urls; also the images served there
  NoImage,     \* no file, no url, no enclave
  Broken,      \* a truncated download or an error page
  Allowed,     \* images the whitelist and the blacklist let pass
  Family,      \* image family: "salmon" or "tuna"
  Debug,       \* the job's debug flag
  MaxUpdates,  \* bound: metadata updates with a new url
  MaxFaults    \* bound: failed commands, exits, restarts, lost instances

ASSUME EnclaveImageAssumption ==
  /\ NoImage \notin Urls /\ Broken \notin Urls
  /\ Allowed \subseteq Urls \cup {Broken}
  /\ Family \in {"salmon", "tuna"} /\ Debug \in BOOLEAN
  /\ MaxUpdates \in Nat /\ MaxFaults \in Nat

VARIABLES
  want,      \* JobState.eif_url
  pending,   \* an infra change with eif_update is scheduled
  updates,   \* metadata updates so far
  call,      \* the provider call in progress: idle, run or update
  pc,        \* its next step
  eif,       \* content of enclave.eif
  url_txt,   \* the url in image_url.txt
  host,      \* what has been set up on the instance
  enclave,   \* the enclave that runs
  faults

jobVars  == <<want, pending, updates>>
callVars == <<call, pc>>
diskVars == <<eif, url_txt, host>>
vars     == <<jobVars, callVars, diskVars, enclave, faults>>

Ports == {"80", "443", "high"}
Host  == [allocated : BOOLEAN, limited : BOOLEAN, ports : SUBSET Ports,
          job_id : BOOLEAN, logger : BOOLEAN]
FreshHost == [allocated |-> FALSE, limited |-> FALSE, ports |-> {},
              job_id |-> FALSE, logger |-> FALSE]

Enclave == [image : Urls \cup {Broken}, debug : BOOLEAN, by : {"run", "update"}]
NoEnclave == [image |-> NoImage, debug |-> FALSE, by |-> "run"]
Running == enclave # NoEnclave

When(b, s) == IF b THEN s ELSE <<>>

\* The commands of the two calls, in order.
RunPlan ==
  <<"connect">> \o When(Family = "tuna", <<"ephemeral_ports">>)
  \o <<"allocator_file", "allocator", "download", "check", "store", "tc_del",
       "tc_add", "80", "443", "high">>
  \o When(Family = "tuna", <<"job_id", "supervisor">>)
  \o When(Debug, <<"logger">>) \o <<"run">>

\* echo ends image_url.txt with a newline, so what cat prints is never equal to
\* the url and the early return after "read_url" is not reached.
UpdatePlan ==
  <<"connect", "read_url", "download", "check", "store", "terminate", "run">>

Plan == IF call = "update" THEN UpdatePlan ELSE RunPlan

TypeOK ==
  /\ want \in Urls /\ pending \in BOOLEAN /\ updates \in 0..MaxUpdates
  /\ call \in {"idle", "run", "update"}
  /\ pc \in 0..(Len(RunPlan) + 1) /\ (pc = 0 <=> call = "idle")
  /\ eif \in Urls \cup {NoImage, Broken}
  /\ url_txt \in Urls \cup {NoImage}
  /\ host \in Host
  /\ enclave \in Enclave \cup {NoEnclave}
  /\ faults \in 0..MaxFaults

\* spin_up has just returned.
Init ==
  /\ want \in Urls /\ pending = FALSE /\ updates = 0
  /\ call = "run" /\ pc = 1
  /\ eif = NoImage /\ url_txt = NoImage /\ host = FreshHost
  /\ enclave = NoEnclave
  /\ faults = 0

-----------------------------------------------------------------------------
(* The job manager                                                         *)

\* JobMetadataUpdated with a new url: a launch is scheduled.
NewUrl ==
  /\ call = "idle" /\ updates < MaxUpdates
  /\ updates' = updates + 1
  /\ want' \in Urls \ {want}
  /\ pending' = TRUE
  /\ UNCHANGED <<callVars, diskVars, enclave, faults>>

\* Faulty variant: only an instance that got as far as storing its url.
StartRun_OnlyStored ==
  /\ call = "idle" /\ ~pending
  /\ ~Running /\ url_txt = want
  /\ call' = "run" /\ pc' = 1
  /\ UNCHANGED <<jobVars, diskVars, enclave, faults>>

\* Faulty variant: the enclave's state is not asked for.
StartRun_Anytime ==
  /\ call = "idle" /\ ~pending
  /\ call' = "run" /\ pc' = 1
  /\ UNCHANGED <<jobVars, diskVars, enclave, faults>>

\* heartbeat_check, which does not fire while a change is scheduled: the
\* enclave is not RUNNING.
StartRun ==
  /\ call = "idle" /\ ~pending
  /\ ~Running
  /\ call' = "run" /\ pc' = 1
  /\ UNCHANGED <<jobVars, diskVars, enclave, faults>>

\* change_infra_impl on an existing healthy instance, with eif_update set.
StartUpdate ==
  /\ call = "idle" /\ pending
  /\ call' = "update" /\ pc' = 1
  /\ UNCHANGED <<jobVars, diskVars, enclave, faults>>

-----------------------------------------------------------------------------
(* The steps of a call                                                     *)

At(s) == call # "idle" /\ pc <= Len(Plan) /\ Plan[pc] = s
Continue == pc' = pc + 1 /\ UNCHANGED <<jobVars, call, faults>>
Leave == call' = "idle" /\ pc' = 0

\* Commands that only set up the instance.
HostSteps == {"connect", "ephemeral_ports", "allocator_file", "allocator",
              "read_url", "tc_del", "tc_add", "job_id", "supervisor", "logger"}
             \cup Ports

HostAfter(s) ==
  CASE s = "allocator" -> [host EXCEPT !.allocated = TRUE]
    [] s = "tc_del"    -> [host EXCEPT !.limited = FALSE]
    [] s = "tc_add"    -> [host EXCEPT !.limited = TRUE]
    [] s \in Ports     -> [host EXCEPT !.ports = @ \cup {s}]
    [] s = "job_id"    -> [host EXCEPT !.job_id = TRUE]
    [] s = "logger"    -> [host EXCEPT !.logger = TRUE]
    [] OTHER           -> host

SetUp(s) ==
  /\ At(s)
  /\ host' = HostAfter(s)
  /\ Continue
  /\ UNCHANGED <<eif, url_txt, enclave>>

Download ==
  /\ At("download")
  /\ eif' = want
  /\ Continue
  /\ UNCHANGED <<url_txt, host, enclave>>

\* curl could not connect and leaves the old file, or stops half way.
DownloadFails ==
  /\ At("download")
  /\ faults < MaxFaults
  /\ faults' = faults + 1
  /\ \/ UNCHANGED eif
     \/ eif' = Broken
  /\ pc' = pc + 1
  /\ UNCHANGED <<jobVars, call, url_txt, host, enclave>>

\* Faulty variant: the result of the check is ignored.
Check_Ignored ==
  /\ At("check")
  /\ Continue
  /\ UNCHANGED <<diskVars, enclave>>

\* check_eif_blacklist_whitelist hashes the file and lets it pass.
Check ==
  /\ At("check")
  /\ eif \in Allowed
  /\ Continue
  /\ UNCHANGED <<diskVars, enclave>>

\* "store eif_url only when the image is allowed"
Store ==
  /\ At("store")
  /\ url_txt' = want
  /\ Continue
  /\ UNCHANGED <<eif, host, enclave>>

TerminateEnclave ==
  /\ At("terminate")
  /\ enclave' = NoEnclave
  /\ Continue
  /\ UNCHANGED diskVars

\* nitro-cli run-enclave: the allocator has reserved what is asked for, the
\* file is an image, and no enclave runs.  An update never asks for debug mode.
CanRun == host.allocated /\ eif \in Urls /\ ~Running
Started == [image |-> eif, debug |-> Debug /\ call = "run", by |-> call]

RunEnclave ==
  /\ At("run")
  /\ CanRun
  /\ enclave' = Started
  /\ Continue
  /\ UNCHANGED diskVars

\* Ok; after an update, eif_update is cleared and nothing is scheduled.
Done ==
  /\ call # "idle" /\ pc > Len(Plan)
  /\ pending' = (pending /\ call # "update")
  /\ Leave
  /\ UNCHANGED <<want, updates, diskVars, enclave, faults>>

\* Err because the check refuses the image or nitro-cli the enclave.  run's
\* error is ignored, update's keeps the change scheduled.
Refused ==
  /\ \/ At("check") /\ eif \notin Allowed
     \/ At("run") /\ ~CanRun
  /\ Leave
  /\ UNCHANGED <<jobVars, diskVars, enclave, faults>>

Fault == faults < MaxFaults /\ faults' = faults + 1

\* Err because the connection or a command failed; the command may have taken
\* effect.
StepErr ==
  /\ Fault
  /\ call # "idle" /\ pc <= Len(Plan)
  /\ \/ UNCHANGED <<diskVars, enclave>>
     \/ /\ host' = HostAfter(Plan[pc]) /\ host' # host
        /\ UNCHANGED <<eif, url_txt, enclave>>
     \/ /\ At("store") /\ url_txt' = want
        /\ UNCHANGED <<eif, host, enclave>>
     \/ /\ At("terminate") /\ enclave' = NoEnclave
        /\ UNCHANGED diskVars
     \/ /\ At("run") /\ CanRun /\ enclave' = Started
        /\ UNCHANGED diskVars
  /\ Leave
  /\ UNCHANGED jobVars

-----------------------------------------------------------------------------
(* What happens to the instance and to the control plane                   *)

EnclaveExits ==
  /\ Fault /\ Running
  /\ enclave' = NoEnclave
  /\ UNCHANGED <<jobVars, callVars, diskVars>>

\* The instance is lost and change_infra launches another one.
Replaced ==
  /\ Fault /\ call = "idle"
  /\ call' = "run" /\ pc' = 1
  /\ eif' = NoImage /\ url_txt' = NoImage /\ host' = FreshHost
  /\ enclave' = NoEnclave
  /\ pending' = FALSE
  /\ UNCHANGED <<want, updates>>

\* The control plane restarts.  The replay of the job's logs schedules a launch
\* that finds the instance; any metadata update among them sets eif_update.
Restart ==
  /\ Fault
  /\ Leave
  /\ pending' = (updates > 0)
  /\ UNCHANGED <<want, updates, diskVars, enclave>>

Steps == \/ \E s \in HostSteps : SetUp(s)
         \/ Download \/ Check \/ Store \/ TerminateEnclave \/ RunEnclave
         \/ Refused \/ Done

Next == \/ NewUrl \/ StartRun \/ StartUpdate
        \/ Steps \/ DownloadFails \/ StepErr
        \/ EnclaveExits \/ Replaced \/ Restart

\* The manager's timers fire and a call makes progress.
Fairness == WF_vars(StartRun) /\ WF_vars(StartUpdate) /\ WF_vars(Steps)

Spec     == Init /\ [][Next]_vars
FairSpec == Spec /\ Fairness

-----------------------------------------------------------------------------
(* Properties                                                              *)

\* Only an image the lists let pass ever runs, whatever a failed, repeated or
\* interrupted run or update has left on the disk.
RunsOnlyAllowed == Running => enclave.image \in Allowed

\* An enclave that run_enclave started has its bandwidth limit, its ports, its
\* job id and its logger, and keeps them: no retry or restart takes the limit
\* away under it.
SetUpWhileRunning ==
  Running /\ enclave.by = "run" =>
    /\ host.allocated /\ host.limited /\ host.ports = Ports
    /\ Family = "tuna" => host.job_id
    /\ Debug => host.logger

\* A job whose image is allowed and that gets no update ends up with its
\* enclave running, wherever a run_enclave was cut off.
EventuallyRuns == [](updates = 0 /\ want \in Allowed) => <>[]Running

\* "return true here and let heartbeat check pick up from the errors": an
\* enclave that did not start is started in the end.
HeartbeatPicksUp == []<>(Running \/ want \notin Allowed)
=============================================================================
