------------------------ MODULE EnclaveImage_proofs ------------------------
(***************************************************************************)
(* Proofs about EnclaveImage: for any images, lists, updates and faults,   *)
(* for both families and with or without debug mode, only an allowed image *)
(* ever runs, and an enclave that run_enclave started is set up while it   *)
(* runs.                                                                   *)
(***************************************************************************)
EXTENDS EnclaveImage, TLAPS

-----------------------------------------------------------------------------
(* The plans                                                               *)

Has(P, s) == \E q \in 1..Len(P) : P[q] = s

\* What the proofs need to know of the order of the commands.
Ordered(P) ==
  /\ Len(P) \in Nat
  /\ \A q \in 1..Len(P) : P[q] = "run" <=> q = Len(P)
  /\ Has(P, "check") /\ Has(P, "run")
  /\ \A q, r \in 1..Len(P) : P[q] = "download" /\ P[r] = "check" => q < r
  /\ \A q, r \in 1..Len(P) : P[q] = "tc_del" /\ P[r] = "tc_add" => q < r

\* The commands of update_enclave_image_impl do not touch the host.
LEMMA UpdatePlanOrdered ==
  /\ Ordered(UpdatePlan) /\ Len(UpdatePlan) <= Len(RunPlan)
  /\ \A q \in 1..Len(UpdatePlan) :
       UpdatePlan[q] \in {"connect", "read_url", "download", "check", "store", "terminate", "run"}
<1>1. Len(UpdatePlan) = 7 /\ UpdatePlan[4] = "check" /\ UpdatePlan[7] = "run"
  BY DEF UpdatePlan
<1>2. Len(RunPlan) >= 7
  BY EnclaveImageAssumption DEF RunPlan, When
<1>3. \A q \in 1..7 :
        /\ UpdatePlan[q] \in {"connect", "read_url", "download", "check", "store", "terminate", "run"}
        /\ UpdatePlan[q] = "run" <=> q = 7
        /\ UpdatePlan[q] = "download" <=> q = 3
        /\ UpdatePlan[q] = "check" <=> q = 4
        /\ UpdatePlan[q] \notin {"tc_del", "tc_add"}
  BY DEF UpdatePlan
<1> QED BY <1>1, <1>2, <1>3 DEF Ordered, Has

\* The commands of run_enclave_impl, for either family and debug flag.
LEMMA RunPlanOrdered ==
  /\ Ordered(RunPlan)
  /\ \A s \in {"allocator", "tc_add"} \cup Ports : Has(RunPlan, s)
  /\ Family = "tuna" => Has(RunPlan, "job_id")
  /\ Debug => Has(RunPlan, "logger")
<1> DEFINE n == Len(RunPlan)
           o == IF Family = "tuna" THEN 1 ELSE 0
<1>1. /\ n \in {12, 13, 15, 16} /\ o \in 0..1
      /\ RunPlan[o + 3] = "allocator" /\ RunPlan[o + 5] = "check" /\ RunPlan[o + 8] = "tc_add"
      /\ RunPlan[o + 9] = "80" /\ RunPlan[o + 10] = "443" /\ RunPlan[o + 11] = "high"
      /\ RunPlan[n] = "run"
      /\ Family = "tuna" => RunPlan[13] = "job_id" /\ n >= 15
      /\ Debug => RunPlan[n - 1] = "logger"
  <2>1. CASE Family = "tuna" /\ Debug = TRUE
    BY <2>1 DEF RunPlan, When
  <2>2. CASE Family = "tuna" /\ Debug = FALSE
    BY <2>2 DEF RunPlan, When
  <2>3. CASE Family = "salmon" /\ Debug = TRUE
    BY <2>3 DEF RunPlan, When
  <2>4. CASE Family = "salmon" /\ Debug = FALSE
    BY <2>4 DEF RunPlan, When
  <2> QED BY <2>1, <2>2, <2>3, <2>4, EnclaveImageAssumption
<1>2. \A q \in 1..n : /\ RunPlan[q] = "run" <=> q = n
                      /\ RunPlan[q] = "download" => q = o + 4
                      /\ RunPlan[q] = "check" => q = o + 5
                      /\ RunPlan[q] = "tc_del" => q = o + 7
                      /\ RunPlan[q] = "tc_add" => q = o + 8
  <2>1. CASE Family = "tuna" /\ Debug = TRUE
    BY <2>1 DEF RunPlan, When
  <2>2. CASE Family = "tuna" /\ Debug = FALSE
    BY <2>2 DEF RunPlan, When
  <2>3. CASE Family = "salmon" /\ Debug = TRUE
    BY <2>3 DEF RunPlan, When
  <2>4. CASE Family = "salmon" /\ Debug = FALSE
    BY <2>4 DEF RunPlan, When
  <2> QED BY <2>1, <2>2, <2>3, <2>4, EnclaveImageAssumption
<1>3. Ordered(RunPlan)
  BY <1>1, <1>2, SMTT(30) DEF Ordered, Has
<1>4. \A s \in {"allocator", "tc_add"} \cup Ports : Has(RunPlan, s)
  BY <1>1, SMTT(30) DEF Ports, Has
<1>5. Family = "tuna" => Has(RunPlan, "job_id")
  BY <1>1 DEF Has
<1>6. Debug => Has(RunPlan, "logger")
  BY <1>1 DEF Has
<1> QED BY <1>3, <1>4, <1>5, <1>6

-----------------------------------------------------------------------------
(* The inductive invariant                                                 *)

\* The call in progress has completed command s.
Passed(s) == call # "idle" /\ \E q \in 1..Len(Plan) : q < pc /\ Plan[q] = s

\* A call is at one of its commands or after the last.
InPlan == call # "idle" => pc <= Len(Plan) + 1

\* The file that passed the check is the one that is started: nothing after the
\* check of a call writes enclave.eif, and every call downloads before it checks.
CheckedFile ==
  /\ Passed("check") => eif \in Allowed
  /\ Running => enclave.image \in Allowed

\* Whatever earlier calls have done to the host, the commands of this one hold.
HostSetUp ==
  call = "run" =>
    /\ Passed("allocator") => host.allocated
    /\ Passed("tc_add") => host.limited
    /\ \A p \in Ports : Passed(p) => p \in host.ports
    /\ Passed("job_id") => host.job_id
    /\ Passed("logger") => host.logger

\* A run starts only when no enclave runs, so it takes no limit away under one.
RunsAlone == call = "run" /\ Running => pc > Len(Plan)

IInv == TypeOK /\ InPlan /\ CheckedFile /\ HostSetUp /\ RunsAlone /\ SetUpWhileRunning

-----------------------------------------------------------------------------
(* The invariant is inductive                                              *)

\* The plan of a call in progress is ordered.
LEMMA PlanOrdered == Ordered(Plan) /\ Len(Plan) <= Len(RunPlan)
BY UpdatePlanOrdered, RunPlanOrdered DEF Plan, Ordered

\* A step that continues has passed its own command as well, and no other.
LEMMA Advances ==
  ASSUME IInv, call # "idle", pc <= Len(Plan), pc' = pc + 1, UNCHANGED call, NEW s
  PROVE  /\ Passed(s)' <=> (Passed(s) \/ Plan[pc] = s)
         /\ UNCHANGED Plan /\ pc \in 1..Len(Plan)
         /\ pc' \in 0..(Len(RunPlan) + 1) /\ InPlan'
<1>1. UNCHANGED Plan
  BY DEF Plan, RunPlan, UpdatePlan
<1>2. pc \in 1..Len(Plan) /\ Len(Plan) \in Nat /\ Len(RunPlan) \in Nat /\ pc' \in 0..(Len(RunPlan) + 1)
  BY PlanOrdered, RunPlanOrdered DEF IInv, TypeOK, Ordered
<1> HIDE DEF Plan
<1>3. Passed(s)' <=> (Passed(s) \/ Plan[pc] = s)
  BY <1>1, <1>2 DEF Passed
<1>4. InPlan'
  BY <1>1, <1>2 DEF InPlan
<1> QED BY <1>1, <1>2, <1>3, <1>4

\* A call that begins or ends has passed nothing.
LEMMA NothingPassed ==
  ASSUME call' = "idle" \/ pc' = 1, NEW s
  PROVE  ~Passed(s)'
BY PlanOrdered DEF Passed

\* The initial state satisfies the invariant.
LEMMA Initially == Init => IInv
<1> SUFFICES ASSUME Init PROVE IInv
  OBVIOUS
<1>1. \A s : ~Passed(s)
  BY DEF Init, Passed
<1>2. TypeOK
  <2>1. FreshHost \in Host
    BY DEF Host, FreshHost
  <2>2. Len(RunPlan) \in Nat
    BY RunPlanOrdered DEF Ordered
  <2>3. pending \in BOOLEAN
    BY DEF Init
  <2>4. host \in Host /\ enclave \in Enclave \cup {NoEnclave}
    BY <2>1 DEF Init
  <2> QED BY <2>2, <2>3, <2>4, EnclaveImageAssumption DEF Init, TypeOK
<1>3. InPlan
  BY PlanOrdered DEF Init, InPlan, Ordered
<1> QED BY <1>1, <1>2, <1>3 DEF Init, IInv, CheckedFile, HostSetUp, RunsAlone,
        SetUpWhileRunning, Running

\* Steps at which a call begins or ends, and no enclave starts.
LEMMA BoundariesKeep ==
  ASSUME IInv, NewUrl \/ StartRun \/ StartUpdate \/ Done \/ Refused \/ Restart \/ Replaced
  PROVE  IInv'
<1> USE DEF IInv, Fault, Leave, jobVars, callVars, diskVars
<1>1. call' = "idle" \/ (call' \in {"run", "update"} /\ pc' = 1)
  BY DEF NewUrl, StartRun, StartUpdate, Done, Refused, Restart, Replaced, TypeOK
<1>2. \A s : ~Passed(s)'
  BY <1>1, NothingPassed
<1>3. TypeOK'
  <2>1. Len(RunPlan) \in Nat /\ Len(RunPlan)' = Len(RunPlan)
    BY RunPlanOrdered DEF Ordered
  <2>2. FreshHost \in Host
    BY DEF Host, FreshHost
  <2>3. CASE NewUrl
    BY <2>1, <2>3, EnclaveImageAssumption DEF NewUrl, TypeOK
  <2>4. CASE StartRun
    BY <2>1, <2>4 DEF StartRun, TypeOK
  <2>5. CASE StartUpdate
    BY <2>1, <2>5 DEF StartUpdate, TypeOK
  <2>6. CASE Done
    BY <2>1, <2>6 DEF Done, TypeOK
  <2>7. CASE Refused
    BY <2>1, <2>7 DEF Refused, TypeOK
  <2>8. CASE Restart
    BY <2>1, <2>8, EnclaveImageAssumption DEF Restart, TypeOK
  <2>9. CASE Replaced
    <3>1. pending' \in BOOLEAN
      BY <2>9 DEF Replaced
    <3>2. host' \in Host /\ enclave' \in Enclave \cup {NoEnclave}
      BY <2>2, <2>9 DEF Replaced
    <3> QED BY <2>1, <2>9, <3>1, <3>2, EnclaveImageAssumption DEF Replaced, TypeOK
  <2> QED BY <2>3, <2>4, <2>5, <2>6, <2>7, <2>8, <2>9
<1>4. InPlan'
  <2>1. Len(Plan)' \in Nat
    BY PlanOrdered, UpdatePlanOrdered, RunPlanOrdered DEF Ordered, Plan
  <2> QED BY <1>1, <2>1 DEF InPlan
<1>5. enclave' = NoEnclave \/ UNCHANGED <<enclave, host>>
  BY DEF NewUrl, StartRun, StartUpdate, Done, Refused, Restart, Replaced
<1>6. CheckedFile' /\ HostSetUp' /\ SetUpWhileRunning'
  BY <1>2, <1>5 DEF CheckedFile, HostSetUp, SetUpWhileRunning, Running
<1>7. RunsAlone'
  BY <1>1 DEF RunsAlone, NewUrl, StartRun, StartUpdate, Done, Refused, Restart, Replaced, Running
<1> QED BY <1>3, <1>4, <1>6, <1>7

\* What the order of the commands says when a call comes to one.
LEMMA AtCommand ==
  ASSUME IInv, call # "idle", pc <= Len(Plan)
  PROVE  /\ Plan[pc] = "run" <=> pc = Len(Plan)
         /\ Plan[pc] = "download" => ~Passed("check")
         /\ Plan[pc] = "tc_del" => ~Passed("tc_add")
         /\ \A s : Plan[pc] = "run" /\ Has(Plan, s) /\ s # "run" => Passed(s)
         /\ call = "update" => Plan[pc] \in {"connect", "read_url", "download", "check",
                                             "store", "terminate", "run"}
<1>1. pc \in 1..Len(Plan)
  BY PlanOrdered DEF IInv, TypeOK, Ordered
<1>2. /\ Plan[pc] = "run" <=> pc = Len(Plan)
      /\ Plan[pc] = "download" => ~Passed("check")
      /\ Plan[pc] = "tc_del" => ~Passed("tc_add")
  BY <1>1, PlanOrdered DEF Ordered, Passed
<1>3. \A s : Plan[pc] = "run" /\ Has(Plan, s) /\ s # "run" => Passed(s)
  BY <1>1, PlanOrdered DEF Ordered, Passed, Has
<1>4. call = "update" => Plan[pc] \in {"connect", "read_url", "download", "check",
                                       "store", "terminate", "run"}
  BY <1>1, UpdatePlanOrdered DEF Plan
<1> QED BY <1>2, <1>3, <1>4

\* A command changes the host in one way, if at all.
LEMMA HostCommands ==
  ASSUME IInv, NEW s, host' = HostAfter(s)
  PROVE  /\ host' \in Host
         /\ (host.allocated => host'.allocated) /\ (host.job_id => host'.job_id)
         /\ (host.logger => host'.logger) /\ host.ports \subseteq host'.ports
         /\ s # "tc_del" /\ host.limited => host'.limited
         /\ s = "allocator" => host'.allocated
         /\ s = "tc_add" => host'.limited
         /\ s \in Ports => s \in host'.ports
         /\ s = "job_id" => host'.job_id
         /\ s = "logger" => host'.logger
         /\ s \in {"connect", "read_url", "download", "check", "store", "terminate", "run"} => host' = host
<1>1. host \in Host
  BY DEF IInv, TypeOK
<1> QED BY <1>1 DEF HostAfter, Host, Ports

\* The enclave that is started is one, and is allowed and set up.
LEMMA StartedIsReady ==
  ASSUME IInv, At("run"), CanRun
  PROVE  /\ Started \in Enclave /\ Started # NoEnclave
         /\ Started.image \in Allowed /\ Started.by = call
         /\ call = "run" =>
              /\ host.allocated /\ host.limited /\ host.ports = Ports
              /\ Family = "tuna" => host.job_id
              /\ Debug => host.logger
<1>1. call \in {"run", "update"} /\ eif \in Urls
  BY DEF At, CanRun, IInv, TypeOK
<1>2. (Debug /\ call = "run") \in BOOLEAN
  OBVIOUS
<1>3. Started \in Enclave /\ Started # NoEnclave /\ Started.image = eif /\ Started.by = call
  BY <1>1, <1>2, EnclaveImageAssumption DEF Started, Enclave, NoEnclave
<1>4. \A s : Has(Plan, s) /\ s # "run" => Passed(s)
  BY AtCommand DEF At
<1>5. Passed("check")
  BY <1>4, PlanOrdered DEF Ordered
<1>6. ASSUME call = "run"
      PROVE  /\ host.allocated /\ host.limited /\ host.ports = Ports
             /\ Family = "tuna" => host.job_id
             /\ Debug => host.logger
  <2>1. Plan = RunPlan
    BY <1>6 DEF Plan
  <2>2. /\ Passed("allocator") /\ Passed("tc_add") /\ \A p \in Ports : Passed(p)
        /\ Family = "tuna" => Passed("job_id")
        /\ Debug => Passed("logger")
    BY <1>4, <2>1, RunPlanOrdered DEF Ports
  <2>3. host.ports \subseteq Ports
    BY DEF IInv, TypeOK, Host
  <2> QED BY <1>6, <2>2, <2>3 DEF IInv, HostSetUp
<1> QED BY <1>3, <1>5, <1>6 DEF IInv, CheckedFile

\* The commands that succeed, and a download that fails silently.
LEMMA CommandsKeep ==
  ASSUME IInv, \/ \E s \in HostSteps : SetUp(s)
               \/ Download \/ DownloadFails \/ Check \/ Store \/ TerminateEnclave \/ RunEnclave
  PROVE  IInv'
<1> DEFINE c == Plan[pc]
<1> USE DEF jobVars, diskVars
<1>1. /\ call # "idle" /\ pc <= Len(Plan) /\ pc' = pc + 1 /\ UNCHANGED <<jobVars, call>>
      /\ UNCHANGED faults \/ (faults < MaxFaults /\ faults' = faults + 1)
  BY DEF SetUp, Download, DownloadFails, Check, Store, TerminateEnclave, RunEnclave, At, Continue
<1>2. /\ \A s : Passed(s)' <=> (Passed(s) \/ c = s)
      /\ UNCHANGED Plan /\ pc' \in 0..(Len(RunPlan) + 1) /\ pc \in 1..Len(Plan) /\ InPlan'
  BY <1>1, Advances
<1>3. /\ c = "run" <=> pc = Len(Plan)
      /\ c = "download" => ~Passed("check")
      /\ c = "tc_del" => ~Passed("tc_add")
      /\ call = "update" => c \in {"connect", "read_url", "download", "check", "store",
                                   "terminate", "run"}
  BY <1>1, AtCommand
<1> HIDE DEF c
\* The effects, one variable at a time.
<1>4. \/ host' = HostAfter(c) /\ UNCHANGED <<eif, url_txt, enclave>> /\ c \notin {"download", "check", "run"}
      \/ host' = host /\ c \in {"download", "check", "store", "terminate", "run"}
  BY DEF SetUp, Download, DownloadFails, Check, Store, TerminateEnclave, RunEnclave, At,
         HostSteps, Ports, c
<1>5. eif' = eif \/ (c = "download" /\ eif' \in Urls \cup {Broken})
  BY DEF SetUp, Download, DownloadFails, Check, Store, TerminateEnclave, RunEnclave, At,
         c, IInv, TypeOK
<1>6. url_txt' \in Urls \cup {NoImage}
  BY DEF SetUp, Download, DownloadFails, Check, Store, TerminateEnclave, RunEnclave, IInv, TypeOK
<1>7. \/ UNCHANGED enclave
      \/ enclave' = NoEnclave
      \/ At("run") /\ CanRun /\ enclave' = Started /\ c = "run"
  BY DEF SetUp, Download, DownloadFails, Check, Store, TerminateEnclave, RunEnclave, At, c
<1>8. c = "check" => eif \in Allowed
  BY <1>1 DEF SetUp, Download, DownloadFails, Check, Store, TerminateEnclave, RunEnclave, At, c,
     HostSteps, Ports
<1>9. c = "run" => enclave' = Started /\ At("run") /\ CanRun
  BY <1>1 DEF SetUp, Download, DownloadFails, Check, Store, TerminateEnclave, RunEnclave, At, c,
     HostSteps, Ports
<1>10. host' = HostAfter(c)
  BY <1>4 DEF HostAfter, Ports
<1>11. TypeOK'
  <2>1. host' \in Host
    BY <1>10, HostCommands
  <2>2. enclave' \in Enclave \cup {NoEnclave}
    BY <1>7, StartedIsReady DEF IInv, TypeOK
  <2>3. Len(RunPlan)' = Len(RunPlan)
    BY DEF RunPlan
  <2> QED BY <1>1, <1>2, <1>5, <1>6, <2>1, <2>2, <2>3, EnclaveImageAssumption DEF IInv, TypeOK
<1>12. CheckedFile'
  <2>1. Passed("check")' => eif' \in Allowed
    BY <1>2, <1>3, <1>5, <1>8 DEF IInv, CheckedFile
  <2>2. Running' => enclave'.image \in Allowed
    BY <1>7, StartedIsReady DEF IInv, CheckedFile, Running
  <2> QED BY <2>1, <2>2 DEF CheckedFile
<1>13. HostSetUp'
  <2> SUFFICES ASSUME call = "run"
               PROVE  /\ Passed("allocator")' => host'.allocated
                      /\ Passed("tc_add")' => host'.limited
                      /\ \A p \in Ports : Passed(p)' => p \in host'.ports
                      /\ Passed("job_id")' => host'.job_id
                      /\ Passed("logger")' => host'.logger
    BY <1>1 DEF HostSetUp
  <2>1. /\ Passed("allocator") => host.allocated
        /\ Passed("tc_add") => host.limited
        /\ \A p \in Ports : Passed(p) => p \in host.ports
        /\ Passed("job_id") => host.job_id
        /\ Passed("logger") => host.logger
    BY DEF IInv, HostSetUp
  <2> QED BY <1>2, <1>3, <1>10, <2>1, HostCommands
<1>14. RunsAlone'
  <2>1. c # "run" /\ call = "run" => enclave' = NoEnclave
    BY <1>1, <1>2, <1>7 DEF IInv, RunsAlone, Running
  <2> QED BY <1>1, <1>2, <1>3, <2>1, PlanOrdered DEF RunsAlone, Running, Ordered
<1>15. SetUpWhileRunning'
  <2>1. CASE call = "run" /\ c # "run"
    BY <1>1, <1>2, <1>7, <2>1 DEF IInv, RunsAlone, Running, SetUpWhileRunning
  <2>2. CASE c = "run"
    BY <1>4, <1>9, <2>2, StartedIsReady DEF SetUpWhileRunning, At, IInv, TypeOK
  <2>3. CASE call = "update" /\ c # "run"
    <3>1. host' = host
      BY <1>3, <1>10, <2>3, HostCommands
    <3> QED BY <1>7, <2>3, <3>1 DEF IInv, SetUpWhileRunning, Running
  <2> QED BY <1>1, <2>1, <2>2, <2>3 DEF IInv, TypeOK
<1> QED BY <1>2, <1>11, <1>12, <1>13, <1>14, <1>15 DEF IInv

\* A command that fails, with or without effect, and an enclave that exits.
LEMMA FaultsKeep == ASSUME IInv, StepErr \/ EnclaveExits PROVE IInv'
<1> USE DEF jobVars, callVars, diskVars, Fault, Leave
<1>1. CASE StepErr
  <2> DEFINE c == Plan[pc]
  <2>1. /\ call' = "idle" /\ pc' = 0 /\ UNCHANGED <<want, pending, updates>>
        /\ faults' \in 0..MaxFaults /\ call # "idle" /\ pc <= Len(Plan)
    BY <1>1, EnclaveImageAssumption DEF StepErr, IInv, TypeOK
  <2>2. /\ host' = host \/ (host' = HostAfter(c) /\ host' # host /\ UNCHANGED enclave)
        /\ eif' = eif
        /\ url_txt' \in Urls \cup {NoImage}
    BY <1>1 DEF StepErr, IInv, TypeOK
  <2>3. \/ UNCHANGED enclave
        \/ enclave' = NoEnclave
        \/ At("run") /\ CanRun /\ enclave' = Started /\ host' = host
    BY <1>1 DEF StepErr
  <2>4. \A s : ~Passed(s)'
    BY <2>1, NothingPassed
  <2>5. TypeOK'
    <3>1. host' \in Host
      BY <2>2, HostCommands DEF IInv, TypeOK
    <3>2. enclave' \in Enclave \cup {NoEnclave}
      BY <2>3, StartedIsReady DEF IInv, TypeOK
    <3>3. Len(RunPlan) \in Nat /\ Len(RunPlan)' = Len(RunPlan)
      BY RunPlanOrdered DEF Ordered
    <3> QED BY <2>1, <2>2, <3>1, <3>2, <3>3 DEF IInv, TypeOK
  <2>6. CheckedFile'
    BY <2>3, <2>4, StartedIsReady DEF IInv, CheckedFile, Running
  <2>7. SetUpWhileRunning'
    <3>1. CASE enclave' = NoEnclave
      BY <3>1 DEF SetUpWhileRunning, Running
    <3>2. CASE At("run") /\ CanRun /\ enclave' = Started /\ host' = host
      BY <3>2, StartedIsReady DEF SetUpWhileRunning
    <3>3. CASE UNCHANGED <<enclave, host>>
      BY <3>3 DEF IInv, SetUpWhileRunning, Running
    <3>4. CASE host' # host /\ UNCHANGED enclave
      <4>1. call = "run"
        BY <2>1, <2>2, <3>4, AtCommand, HostCommands DEF IInv, TypeOK
      <4> QED BY <2>1, <3>4, <4>1, PlanOrdered DEF IInv, RunsAlone, SetUpWhileRunning, Running,
              Ordered, TypeOK
    <3> QED BY <2>2, <2>3, <3>1, <3>2, <3>3, <3>4
  <2> QED BY <2>1, <2>4, <2>5, <2>6, <2>7 DEF IInv, InPlan, HostSetUp, RunsAlone
<1>2. CASE EnclaveExits
  <2>1. UNCHANGED <<Plan, RunPlan>> /\ \A s : Passed(s)' <=> Passed(s)
    BY <1>2 DEF EnclaveExits, Plan, Passed, RunPlan, UpdatePlan
  <2> QED BY <1>2, <2>1, EnclaveImageAssumption DEF EnclaveExits, IInv, TypeOK, InPlan, CheckedFile,
          HostSetUp, RunsAlone, SetUpWhileRunning, Running
<1> QED BY <1>1, <1>2

\* Every reachable state satisfies the invariant.
THEOREM Invariance == Spec => []IInv
<1>1. IInv /\ [Next]_vars => IInv'
  <2> SUFFICES ASSUME IInv, [Next]_vars PROVE IInv'
    OBVIOUS
  <2>1. CASE UNCHANGED vars
    <3>1. UNCHANGED <<Plan, RunPlan>> /\ \A s : Passed(s)' <=> Passed(s)
      BY <2>1 DEF vars, callVars, Plan, Passed, RunPlan, UpdatePlan
    <3> QED BY <2>1, <3>1 DEF vars, jobVars, callVars, diskVars, IInv, TypeOK, InPlan,
            CheckedFile, HostSetUp, RunsAlone, SetUpWhileRunning, Running
  <2> QED BY <2>1, BoundariesKeep, CommandsKeep, FaultsKeep DEF Next, Steps
<1> QED BY Initially, <1>1, PTL DEF Spec

-----------------------------------------------------------------------------
(* What follows from it                                                    *)

\* Only an image the lists let pass ever runs: although a download may fail
\* silently and a call may be cut off anywhere, no call reaches nitro-cli with
\* a file it has not checked since it downloaded it.
THEOREM OnlyAllowedRuns == Spec => []RunsOnlyAllowed
<1>1. IInv => RunsOnlyAllowed
  BY DEF IInv, CheckedFile, RunsOnlyAllowed
<1> QED BY <1>1, Invariance, PTL

\* An enclave that run_enclave started has its limit, ports, job id and logger
\* for as long as it runs: no later call touches the host under it.
THEOREM SetUpAsLongAsItRuns == Spec => []SetUpWhileRunning
<1>1. IInv => SetUpWhileRunning
  BY DEF IInv
<1> QED BY <1>1, Invariance, PTL
=============================================================================
