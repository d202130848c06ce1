-------------------------- MODULE AwsInfra_proofs --------------------------
(***************************************************************************)
(* Proofs about AwsInfra: for any number of instances, addresses and       *)
(* faults, a job has one elastic IP at most, spin_down leaves nothing      *)
(* behind, and the provider implements InfraProvider.                      *)
(***************************************************************************)
EXTENDS AwsInfra, FiniteSetTheorems, TLAPS

-----------------------------------------------------------------------------
(* The inductive invariant                                                 *)

\* Steps between the launch of an instance and the end of post_spin_up.
PostSpinUp == {"get_job_ip", "allocate", "associate"}

\* The job has one elastic IP at most; only an elastic IP that is allocated is
\* associated, and only with an instance that runs.
Addresses ==
  /\ \A e, f \in eips : e = f
  /\ \A e \in Eips : assoc[e] # NoInstance =>
       e \in eips /\ inst[assoc[e]] = "running"

\* The job has one running instance at most.  A launch starts from none, and
\* whatever else a call finds running is its own instance.
OneRunning ==
  /\ \A i, j \in Running : i = j
  /\ pc \in {"lookup", "run_instances"} =>
       op = "up" /\ cur = NoInstance /\ Running = {}
  /\ op # "idle" /\ pc \notin {"lookup", "run_instances", "error"} =>
       cur \in Instances /\ inst[cur] # "none" /\ Running \subseteq {cur}

\* What has been achieved when a call comes to a step.
Control ==
  /\ pc \in PostSpinUp => op = "up"
  /\ pc = "allocate" => eips = {}
  /\ pc = "associate" => alloc \in eips
  /\ pc \in {"disassociate", "release"} => alloc \in Eips
  /\ pc = "terminate" => eips = {}
  /\ pc = "return" /\ op = "up" =>
       inst[cur] # "running" \/ \E e \in eips : assoc[e] = cur
  /\ pc = "return" /\ op = "down" => eips = {} /\ Running = {}

\* What a call in progress says about the job.
Purpose ==
  /\ op = "up" => mode = "launch" /\ id = NoInstance
  /\ op = "down" => mode = "terminate"
  /\ mode = "done" => Running = {} /\ eips = {}

IInv == TypeOK /\ Addresses /\ OneRunning /\ Control /\ Purpose

-----------------------------------------------------------------------------
(* The invariant is inductive                                              *)

\* The initial state satisfies the invariant.
LEMMA Initially == Init => IInv
BY AwsInfraAssumption DEF Init, IInv, TypeOK, Addresses, OneRunning, Control,
   Purpose, Steps, PostSpinUp, Running

\* The steps of change_infra_impl.
LEMMA CallerKeeps == IInv /\ (Caller \/ JobEnds) => IInv'
<1> SUFFICES ASSUME IInv, Caller \/ JobEnds PROVE IInv'
  OBVIOUS
<1> USE DEF IInv, TypeOK, Addresses, OneRunning, Control, Purpose, Steps, PostSpinUp,
            Running, Goto, Return, awsVars, callVars, jobVars
<1>1. CASE SpinUp
  BY <1>1, AwsInfraAssumption DEF SpinUp
<1>2. CASE Adopt
  BY <1>2, AwsInfraAssumption DEF Adopt
<1>3. CASE NothingToTerminate
  BY <1>3, AwsInfraAssumption DEF NothingToTerminate
<1>4. CASE Relaunch
  BY <1>4, AwsInfraAssumption DEF Relaunch
<1>5. CASE Returned
  BY <1>5, AwsInfraAssumption DEF Returned
<1>6. CASE JobEnds
  BY <1>6, AwsInfraAssumption DEF JobEnds
<1>7. CASE SpinDown
  <2>1. PICK i \in Running : cur' = i
    BY <1>7 DEF SpinDown
  <2>2. Running' = Running
    BY <1>7 DEF SpinDown
  <2> QED BY <1>7, <2>1, <2>2, AwsInfraAssumption DEF SpinDown
<1> QED BY <1>1, <1>2, <1>3, <1>4, <1>5, <1>6, <1>7 DEF Caller

\* The EC2 calls that succeed.  An address is looked up before one is allocated,
\* and released before the instance is terminated.
LEMMA Ec2Keeps == IInv /\ Ec2 => IInv'
<1> SUFFICES ASSUME IInv, Ec2 PROVE IInv'
  OBVIOUS
<1> USE DEF IInv, TypeOK, Addresses, OneRunning, Control, Purpose, Steps, PostSpinUp,
            Running, Goto, Return, awsVars, callVars, jobVars
<1>1. CASE Lookup
  BY <1>1, AwsInfraAssumption DEF Lookup
<1>2. CASE RunInstances
  BY <1>2, AwsInfraAssumption DEF RunInstances, FreshInstance
<1>3. CASE Allocate
  BY <1>3, AwsInfraAssumption DEF Allocate, FreshEip
<1>4. CASE Associate
  BY <1>4, AwsInfraAssumption DEF Associate
<1>5. CASE Disassociate
  BY <1>5, AwsInfraAssumption DEF Disassociate
<1>6. CASE Release
  BY <1>6, AwsInfraAssumption DEF Release
<1>7. CASE Terminate
  BY <1>7, AwsInfraAssumption DEF Terminate, Kill
<1>8. CASE GetJobIp
  <2>1. ASSUME NEW e \in eips, alloc' = e, Goto("get_job_ip", "associate"),
               UNCHANGED <<awsVars, cur>>
        PROVE  IInv'
    BY <2>1, AwsInfraAssumption
  <2>2. CASE eips = {} /\ Goto("get_job_ip", "allocate") /\ UNCHANGED <<awsVars, cur, alloc>>
    BY <2>2, AwsInfraAssumption
  <2> QED BY <1>8, <2>1, <2>2 DEF GetJobIp
<1>9. CASE GetInstanceIp
  <2>1. ASSUME NEW e \in EipOf(cur), alloc' = e, Goto("get_instance_ip", "disassociate"),
               UNCHANGED <<awsVars, cur>>
        PROVE  IInv'
    BY <2>1, AwsInfraAssumption DEF EipOf
  <2>2. CASE Goto("get_instance_ip", "get_release_ip") /\ UNCHANGED <<awsVars, cur, alloc>>
    BY <2>2, AwsInfraAssumption
  <2> QED BY <1>9, <2>1, <2>2 DEF GetInstanceIp
<1>10. CASE GetReleaseIp
  <2>1. ASSUME NEW e \in eips, alloc' = e, Goto("get_release_ip", "release"),
               UNCHANGED <<awsVars, cur>>
        PROVE  IInv'
    BY <2>1, AwsInfraAssumption
  <2>2. CASE eips = {} /\ Goto("get_release_ip", "terminate") /\ UNCHANGED <<awsVars, cur, alloc>>
    BY <2>2, AwsInfraAssumption
  <2> QED BY <1>10, <2>1, <2>2 DEF GetReleaseIp
<1> QED BY <1>1, <1>2, <1>3, <1>4, <1>5, <1>6, <1>7, <1>8, <1>9, <1>10 DEF Ec2

\* Errors, with and without an effect.
LEMMA ErrorsKeep == IInv /\ Errors => IInv'
<1> SUFFICES ASSUME IInv, Errors PROVE IInv'
  OBVIOUS
<1> USE DEF IInv, TypeOK, Addresses, OneRunning, Control, Purpose, Steps, PostSpinUp,
            Running, Goto, Return, awsVars, callVars, jobVars
<1>1. CASE CleanUp
  BY <1>1, AwsInfraAssumption DEF CleanUp
<1>2. CASE Fail
  BY <1>2, AwsInfraAssumption DEF Fail
<1>3. CASE LostResponse
  <2>1. /\ faults' \in 0..MaxFaults /\ UNCHANGED <<op, alloc, res, jobVars>>
        /\ pc' = IF pc \in {"allocate", "associate"} THEN "get_instance_ip" ELSE "error"
    BY <1>3, AwsInfraAssumption DEF LostResponse
  <2>2. CASE pc = "run_instances"
    <3>1. PICK i \in Instances : /\ FreshInstance(i) /\ cur' = i
                                 /\ inst' = [inst EXCEPT ![i] = "running"]
                                 /\ UNCHANGED <<eips, assoc>>
      BY <1>3, <2>2 DEF LostResponse
    <3> QED BY <2>1, <2>2, <3>1, AwsInfraAssumption DEF FreshInstance
  <2>3. CASE pc = "allocate"
    <3>1. PICK e \in Eips : /\ FreshEip(e) /\ eips' = eips \cup {e}
                            /\ UNCHANGED <<inst, assoc, cur>>
      BY <1>3, <2>3 DEF LostResponse
    <3> QED BY <2>1, <2>3, <3>1, AwsInfraAssumption DEF FreshEip
  <2>4. CASE pc = "associate"
    <3>1. /\ inst[cur] = "running" /\ assoc' = [assoc EXCEPT ![alloc] = cur]
          /\ UNCHANGED <<inst, eips, cur>>
      BY <1>3, <2>4 DEF LostResponse
    <3> QED BY <2>1, <2>4, <3>1, AwsInfraAssumption
  <2>5. CASE pc = "disassociate"
    <3>1. /\ assoc' = [assoc EXCEPT ![alloc] = NoInstance]
          /\ UNCHANGED <<inst, eips, cur>>
      BY <1>3, <2>5 DEF LostResponse
    <3> QED BY <2>1, <2>5, <3>1, AwsInfraAssumption
  <2>6. CASE pc = "release"
    <3>1. /\ assoc[alloc] = NoInstance /\ eips' = eips \ {alloc}
          /\ UNCHANGED <<inst, assoc, cur>>
      BY <1>3, <2>6 DEF LostResponse
    <3> QED BY <2>1, <2>6, <3>1, AwsInfraAssumption
  <2>7. CASE pc = "terminate"
    <3>1. Kill(cur) /\ UNCHANGED cur
      BY <1>3, <2>7 DEF LostResponse
    <3> QED BY <2>1, <2>7, <3>1, AwsInfraAssumption DEF Kill
  <2> QED BY <1>3, <2>2, <2>3, <2>4, <2>5, <2>6, <2>7 DEF LostResponse
<1> QED BY <1>1, <1>2, <1>3 DEF Errors

\* Deaths and restarts.
LEMMA EnvironmentKeeps == IInv /\ (InstanceDies \/ Restart) => IInv'
<1> SUFFICES ASSUME IInv, InstanceDies \/ Restart PROVE IInv'
  OBVIOUS
<1> USE DEF IInv, TypeOK, Addresses, OneRunning, Control, Purpose, Steps, PostSpinUp,
            Running, Goto, Return, awsVars, callVars, jobVars
<1>1. CASE InstanceDies
  BY <1>1, AwsInfraAssumption DEF InstanceDies, Kill
<1>2. CASE Restart
  BY <1>2, AwsInfraAssumption DEF Restart
<1> QED BY <1>1, <1>2

\* Every reachable state satisfies the invariant.
THEOREM Invariance == Spec => []IInv
<1>1. IInv /\ [Next]_vars => IInv'
  <2> SUFFICES ASSUME IInv, [Next]_vars PROVE IInv'
    OBVIOUS
  <2>1. CASE UNCHANGED vars
    BY <2>1 DEF vars, awsVars, callVars, jobVars, IInv, TypeOK, Addresses,
       OneRunning, Control, Purpose, Running
  <2> QED BY <2>1, CallerKeeps, Ec2Keeps, ErrorsKeep, EnvironmentKeeps DEF Next
<1> QED BY Initially, <1>1, PTL DEF Spec

-----------------------------------------------------------------------------
(* What follows from it                                                    *)

\* A job never holds two elastic IPs, whatever calls fail, take effect without
\* an answer or are cut off: allocate_ip_addr looks for one first.
THEOREM OneElasticIp == Spec => []AtMostOneEip
<1>1. IInv => AtMostOneEip
  <2> SUFFICES ASSUME IInv PROVE Cardinality(eips) <= 1
    BY DEF AtMostOneEip
  <2>1. CASE eips = {}
    BY <2>1, FS_EmptySet
  <2>2. ASSUME NEW e \in eips PROVE Cardinality(eips) <= 1
    <3>1. eips = {e}
      BY <2>2 DEF IInv, Addresses
    <3>2. Cardinality({e}) = 1
      BY FS_Singleton
    <3> QED BY <3>1, <3>2
  <2> QED BY <2>1, <2>2
<1> QED BY <1>1, Invariance, PTL

\* An Ok of spin_down_instance leaves neither instance nor address.
THEOREM SpinDownLeavesNothing == Spec => []SpinDownReleases
<1>1. IInv => SpinDownReleases
  BY DEF IInv, Purpose, SpinDownReleases
<1> QED BY <1>1, Invariance, PTL

\* No call of the provider takes the address away from the instance of a job
\* that is to run: calls are made only while the job has no settled instance.
THEOREM AddressIsKept == Spec => AddressStays
<1>1. ASSUME IInv, [Next]_vars, NEW e \in Eips, mode = "launch", id \in Running,
             assoc[e] = id
      PROVE  assoc'[e] = id \/ inst'[id] # "running"
  <2> USE <1>1 DEF IInv
  <2>1. op = "idle" /\ pc = "none"
    BY AwsInfraAssumption DEF Purpose, Running, TypeOK
  <2>2. CASE UNCHANGED <<inst, assoc>>
    BY <2>2
  <2>3. CASE InstanceDies
    BY <2>3 DEF InstanceDies, Kill, TypeOK
  <2> QED BY <2>1, <2>2, <2>3 DEF Next, Caller, Ec2, Errors, vars, awsVars,
         SpinUp, Adopt, SpinDown, NothingToTerminate, Relaunch, Returned, JobEnds,
         Goto, Lookup, RunInstances, GetJobIp, Allocate, Associate, GetInstanceIp,
         Disassociate, GetReleaseIp, Release, Terminate, CleanUp, Fail, LostResponse,
         Restart
<1>2. IInv /\ [Next]_vars => [\A e \in Eips :
         mode = "launch" /\ id \in Running /\ assoc[e] = id
           => assoc'[e] = id \/ inst'[id] # "running"]_vars
  BY <1>1
<1> QED BY <1>2, Invariance, PTL DEF Spec, AddressStays

-----------------------------------------------------------------------------
(* Refinement                                                              *)

\* With one address at most, what answers there is what it is associated with.
LEMMA AnswersAtTheOne ==
  ASSUME NEW E, NEW A, \A e, f \in E : e = f
  PROVE  /\ E = {} => AnswersAt(E, A) = NoInstance
         /\ \A e \in E : AnswersAt(E, A) = A[e]
BY DEF AnswersAt

\* The provider starts without instances and addresses.
LEMMA PromisedInit == Init => IP!Init
BY AnswersAtTheOne DEF Init, IP!Init

\* A call begins, returns or is forgotten.
LEMMA PromisedCalls ==
  ASSUME IInv, Caller \/ JobEnds \/ Fail \/ Restart
  PROVE  [IP!Next]_(IP!vars)
<1> DEFINE ip == AnswersAt(eips, assoc)
<1>1. UNCHANGED <<inst, ip>>
  BY DEF Caller, SpinUp, Adopt, SpinDown, NothingToTerminate, Relaunch, Returned,
         JobEnds, Fail, Restart, awsVars
<1>2. CASE UNCHANGED <<op, cur, res>>
  BY <1>1, <1>2 DEF IP!vars
<1>3. CASE SpinUp
  BY <1>1, <1>3 DEF SpinUp, IP!Next, IP!Call
<1>4. CASE SpinDown
  <2>1. PICK i \in Instances : cur' = i
    BY <1>4 DEF SpinDown, Running
  <2>2. IP!Call("down", i)
    BY <1>1, <1>4, <2>1 DEF SpinDown, IP!Call
  <2> QED BY <2>2 DEF IP!Next
<1>5. CASE Returned
  <2>1. /\ op \in {"up", "down"} /\ cur \in Instances /\ inst[cur] # "none"
        /\ inst \in [Instances -> {"none", "running", "terminated"}]
    BY <1>5 DEF Returned, IInv, TypeOK, OneRunning
  <2>2. CASE op = "up"
    <3>1. ip = cur \/ inst[cur] # "running"
      BY <1>5, <2>2, AnswersAtTheOne DEF Returned, IInv, Control, Addresses
    <3> QED BY <1>1, <1>5, <2>1, <2>2, <3>1, AwsInfraAssumption
            DEF Returned, Return, IP!Next, IP!ReturnOk
  <2>3. CASE op = "down"
    <3>1. ip = NoInstance /\ inst[cur] = "terminated"
      BY <1>5, <2>1, <2>3, AnswersAtTheOne DEF Returned, IInv, Control, Running
    <3> QED BY <1>1, <1>5, <2>3, <3>1 DEF Returned, Return, IP!Next, IP!ReturnOk
  <2> QED BY <2>1, <2>2, <2>3
<1>6. CASE Fail
  <2>1. op # "idle"
    BY <1>6 DEF Fail, IInv, TypeOK
  <2> QED BY <1>1, <1>6, <2>1 DEF Fail, Return, IP!Next, IP!ReturnErr
<1>7. CASE Restart
  BY <1>1, <1>7 DEF Restart, IP!Next, IP!Forget
<1> QED BY <1>2, <1>3, <1>4, <1>5, <1>6, <1>7 DEF Caller, Adopt, NothingToTerminate,
        Relaunch, JobEnds, callVars

\* Nothing is promised about lookups, the allocation of an address or its release:
\* nobody answers at an address that is not associated.
LEMMA PromisedStutters ==
  ASSUME IInv, UNCHANGED <<inst, op, cur, res>>,
         \/ UNCHANGED <<eips, assoc>>
         \/ /\ eips = {} /\ UNCHANGED assoc
            /\ \E e \in Eips : eips' = {e}
         \/ /\ assoc[alloc] = NoInstance /\ alloc \in eips
            /\ eips' = eips \ {alloc} /\ UNCHANGED assoc
  PROVE  UNCHANGED IP!vars
<1>1. CASE UNCHANGED <<eips, assoc>>
  BY <1>1 DEF IP!vars
<1>2. CASE eips = {} /\ UNCHANGED assoc /\ \E e \in Eips : eips' = {e}
  <2>1. PICK e \in Eips : eips' = {e}
    BY <1>2
  <2>2. assoc[e] = NoInstance
    BY <1>2 DEF IInv, Addresses
  <2>3. AnswersAt(eips, assoc) = NoInstance
    BY <1>2, AnswersAtTheOne
  <2>4. AnswersAt(eips', assoc') = NoInstance
    BY <1>2, <2>1, <2>2, AnswersAtTheOne
  <2> QED BY <2>3, <2>4 DEF IP!vars
<1>3. CASE /\ assoc[alloc] = NoInstance /\ alloc \in eips
           /\ eips' = eips \ {alloc} /\ UNCHANGED assoc
  <2>1. eips' = {}
    BY <1>3 DEF IInv, Addresses
  <2>2. AnswersAt(eips, assoc) = NoInstance
    BY <1>3, AnswersAtTheOne DEF IInv, Addresses
  <2>3. AnswersAt(eips', assoc') = NoInstance
    BY <2>1, AnswersAtTheOne
  <2> QED BY <2>2, <2>3 DEF IP!vars
<1> QED BY <1>1, <1>2, <1>3

\* The effects of the EC2 calls, whether their answers arrive or not.
LEMMA PromisedEffects ==
  ASSUME IInv, UNCHANGED <<op, res>>,
         \/ /\ pc = "run_instances" /\ UNCHANGED <<eips, assoc>>
            /\ \E i \in Instances : FreshInstance(i) /\ cur' = i
                                    /\ inst' = [inst EXCEPT ![i] = "running"]
         \/ /\ pc = "associate" /\ inst[cur] = "running"
            /\ assoc' = [assoc EXCEPT ![alloc] = cur] /\ UNCHANGED <<inst, eips, cur>>
         \/ /\ pc = "disassociate" /\ assoc[alloc] = cur
            /\ assoc' = [assoc EXCEPT ![alloc] = NoInstance] /\ UNCHANGED <<inst, eips, cur>>
         \/ pc = "terminate" /\ Kill(cur) /\ UNCHANGED cur
  PROVE  [IP!Next]_(IP!vars)
<1> USE DEF IInv, TypeOK, Addresses, Control
<1>1. CASE pc = "run_instances"
  <2>1. PICK i \in Instances : /\ FreshInstance(i) /\ cur' = i
                               /\ inst' = [inst EXCEPT ![i] = "running"]
    BY <1>1
  <2>2. UNCHANGED <<eips, assoc>>
    BY <1>1
  <2>3. op = "up" /\ cur = NoInstance
    BY <1>1 DEF OneRunning
  <2>4. IP!Start(i)
    BY <2>1, <2>2, <2>3 DEF FreshInstance, IP!Start
  <2> QED BY <2>4 DEF IP!Next
<1>2. CASE pc = "associate"
  <2>1. /\ inst[cur] = "running" /\ alloc \in eips /\ op = "up" /\ cur \in Instances
        /\ assoc' = [assoc EXCEPT ![alloc] = cur] /\ UNCHANGED <<inst, eips, cur>>
    BY <1>2 DEF OneRunning, PostSpinUp
  <2>2. alloc \in eips' /\ assoc'[alloc] = cur /\ \A e, f \in eips' : e = f
    BY <2>1
  <2>3. AnswersAt(eips', assoc') = cur
    BY <2>2, AnswersAtTheOne
  <2> QED BY <2>1, <2>3, AwsInfraAssumption DEF IP!Next, IP!Attach
<1>3. CASE pc = "disassociate"
  <2>1. /\ alloc \in Eips /\ assoc[alloc] = cur /\ op # "idle" /\ cur \in Instances
        /\ assoc' = [assoc EXCEPT ![alloc] = NoInstance] /\ UNCHANGED <<inst, eips, cur>>
    BY <1>3 DEF OneRunning
  <2>2. alloc \in eips' /\ assoc'[alloc] = NoInstance /\ \A e, f \in eips' : e = f
    BY <2>1, AwsInfraAssumption
  <2>3. AnswersAt(eips', assoc') = NoInstance
    BY <2>2, AnswersAtTheOne
  <2> QED BY <2>1, <2>3 DEF IP!Next, IP!Detach
<1>4. CASE pc = "terminate"
  <2>1. /\ eips = {} /\ UNCHANGED <<eips, cur>> /\ op # "idle" /\ cur \in Instances
        /\ inst' = [inst EXCEPT ![cur] = "terminated"]
    BY <1>4 DEF OneRunning, Kill
  <2>2. AnswersAt(eips, assoc) = NoInstance /\ AnswersAt(eips', assoc') = NoInstance
    BY <2>1, AnswersAtTheOne
  <2> QED BY <2>1, <2>2, AwsInfraAssumption DEF IP!Next, IP!Stop
<1> QED BY <1>1, <1>2, <1>3, <1>4

\* An instance that dies takes its association with it.
LEMMA PromisedDeath == IInv /\ InstanceDies => [IP!Next]_(IP!vars)
<1> SUFFICES ASSUME IInv, InstanceDies PROVE [IP!Next]_(IP!vars)
  OBVIOUS
<1>1. PICK i \in Running : Kill(i)
  BY DEF InstanceDies
<1>2. /\ UNCHANGED <<op, cur, res, eips>> /\ i \in Instances /\ inst[i] = "running"
      /\ inst' = [inst EXCEPT ![i] = "terminated"]
      /\ assoc' = [e \in Eips |-> IF assoc[e] = i THEN NoInstance ELSE assoc[e]]
  BY <1>1 DEF InstanceDies, callVars, Kill, Running
<1>3. AnswersAt(eips', assoc')
        = IF AnswersAt(eips, assoc) = i THEN NoInstance ELSE AnswersAt(eips, assoc)
  <2>1. CASE eips = {}
    BY <1>2, <2>1, AnswersAtTheOne
  <2>2. ASSUME NEW e \in eips
        PROVE  AnswersAt(eips', assoc')
                 = IF AnswersAt(eips, assoc) = i THEN NoInstance ELSE AnswersAt(eips, assoc)
    <3>1. AnswersAt(eips, assoc) = assoc[e] /\ AnswersAt(eips', assoc') = assoc'[e]
      BY <1>2, AnswersAtTheOne DEF IInv, Addresses
    <3>2. e \in Eips
      BY DEF IInv, TypeOK
    <3> QED BY <1>2, <3>1, <3>2
  <2> QED BY <2>1, <2>2
<1>4. IP!Die(i)
  BY <1>2, <1>3 DEF IP!Die
<1> QED BY <1>2, <1>4 DEF IP!Next

\* aws.rs keeps what the trait promises: a call starts one instance at most, stops only
\* its own, and an Ok of either call means what InfraProvider says.
THEOREM ImplementsInfraProvider == Spec => KeepsPromises
<1>1. IInv /\ [Next]_vars => [IP!Next]_(IP!vars)
  <2> SUFFICES ASSUME IInv, [Next]_vars PROVE [IP!Next]_(IP!vars)
    OBVIOUS
  <2>1. CASE UNCHANGED vars
    BY <2>1, PromisedStutters DEF vars, awsVars, callVars
  <2>2. CASE CleanUp \/ Lookup \/ GetJobIp \/ GetInstanceIp \/ GetReleaseIp
    <3>1. UNCHANGED <<inst, op, cur, res, eips, assoc>>
      BY <2>2 DEF CleanUp, Lookup, GetJobIp,
         GetInstanceIp, GetReleaseIp, Goto, awsVars, callVars
    <3> QED BY <3>1, PromisedStutters
  <2>3. CASE Allocate
    <3>1. UNCHANGED <<inst, op, cur, res, assoc>> /\ eips = {} /\ \E e \in Eips : eips' = {e}
      BY <2>3 DEF Allocate, Goto, IInv, Control
    <3> QED BY <3>1, PromisedStutters
  <2>4. CASE Release
    <3>1. /\ UNCHANGED <<inst, op, cur, res, assoc>> /\ assoc[alloc] = NoInstance
          /\ alloc \in eips /\ eips' = eips \ {alloc}
      BY <2>4 DEF Release, Goto
    <3> QED BY <3>1, PromisedStutters
  <2>5. CASE RunInstances \/ Associate \/ Disassociate \/ Terminate
    <3>1. CASE RunInstances
      BY <3>1, PromisedEffects DEF RunInstances, Goto
    <3>2. CASE Associate
      BY <3>2, PromisedEffects DEF Associate, Goto
    <3>3. CASE Disassociate
      BY <3>3, PromisedEffects DEF Disassociate, Goto
    <3>4. CASE Terminate
      BY <3>4, PromisedEffects DEF Terminate, Goto
    <3> QED BY <2>5, <3>1, <3>2, <3>3, <3>4
  <2>6. CASE LostResponse
    <3>1. UNCHANGED <<op, res>>
      BY <2>6 DEF LostResponse
    <3>2. CASE pc = "allocate"
      <4>1. UNCHANGED <<inst, op, cur, res, assoc>> /\ eips = {} /\ \E e \in Eips : eips' = {e}
        BY <2>6, <3>2 DEF LostResponse, IInv, Control
      <4> QED BY <4>1, PromisedStutters
    <3>3. CASE pc = "release"
      <4>1. /\ UNCHANGED <<inst, op, cur, res, assoc>> /\ assoc[alloc] = NoInstance
            /\ alloc \in eips /\ eips' = eips \ {alloc}
        BY <2>6, <3>3 DEF LostResponse
      <4> QED BY <4>1, PromisedStutters
    <3>4. CASE pc \notin {"allocate", "release"}
      BY <2>6, <3>1, <3>4, PromisedEffects DEF LostResponse
    <3> QED BY <3>2, <3>3, <3>4
  <2> QED BY <2>1, <2>2, <2>3, <2>4, <2>5, <2>6, PromisedCalls, PromisedDeath
          DEF Next, Ec2, Errors
<1> QED BY PromisedInit, <1>1, Invariance, PTL DEF Spec, KeepsPromises, IP!Spec
=============================================================================
