----------------------------- MODULE AwsInfra -----------------------------
(***************************************************************************)
(* spin_up_instance and spin_down_instance of                              *)
(* operator/control-plane/src/aws.rs, one EC2 call per step, with the      *)
(* job's elastic IPs, and change_infra_impl (market.rs) as their caller.   *)
(*                                                                         *)
(* Any call may fail without effect.  A call that changes something may    *)
(* also take effect and still be reported as failed (a lost response or    *)
(* one that does not parse).  Only live instances are told apart from dead *)
(* ones; a live instance is listed before dead ones.                       *)
(***************************************************************************)
EXTENDS Naturals, FiniteSets

CONSTANTS
  Instances,   \* instance ids, in the order AWS hands them out
  NoInstance,
  Eips,        \* allocation ids, in the order AWS hands them out
  NoEip,       \* no elastic IP; also the temporary IP of an instance
  MaxFaults    \* bound: lost responses, deaths and restarts

ASSUME AwsInfraAssumption ==
  /\ Instances \subseteq Nat /\ NoInstance \notin Instances
  /\ Eips \subseteq Nat /\ NoEip \notin Eips
  /\ MaxFaults \in Nat

VARIABLES
  inst,     \* state of every instance: none, running or terminated
  eips,     \* elastic IPs allocated with the job's tags
  assoc,    \* the instance an elastic IP is associated with
  op,       \* the provider call in progress: idle, up or down
  pc,       \* the EC2 call it makes next
  cur,      \* instance of the call
  alloc,    \* elastic IP the call has looked up
  res,      \* what the last provider call returned
  mode,     \* what change_infra wants: launch, terminate, then done or gone
  id,       \* JobState.instance_id once the launch has succeeded
  faults

awsVars == <<inst, eips, assoc>>
callVars == <<op, pc, cur, alloc, res>>
jobVars == <<mode, id>>
vars == <<awsVars, callVars, jobVars, faults>>

Steps == {"none", "lookup", "run_instances", "get_job_ip", "allocate", "associate",
          "get_instance_ip", "disassociate", "get_release_ip", "release",
          "terminate", "return", "error"}

TypeOK ==
  /\ inst \in [Instances -> {"none", "running", "terminated"}]
  /\ eips \subseteq Eips
  /\ assoc \in [Eips -> Instances \cup {NoInstance}]
  /\ op \in {"idle", "up", "down"}
  /\ pc \in Steps /\ (pc = "none" <=> op = "idle")
  /\ cur \in Instances \cup {NoInstance}
  /\ alloc \in Eips \cup {NoEip}
  /\ res \in {"none", "ok", "err"}
  /\ mode \in {"launch", "terminate", "done", "gone"}
  /\ id \in Instances \cup {NoInstance}
  /\ faults \in 0..MaxFaults

Init ==
  /\ inst = [i \in Instances |-> "none"]
  /\ eips = {}
  /\ assoc = [e \in Eips |-> NoInstance]
  /\ op = "idle" /\ pc = "none" /\ cur = NoInstance /\ alloc = NoEip
  /\ res = "none"
  /\ mode = "launch" /\ id = NoInstance
  /\ faults = 0

-----------------------------------------------------------------------------
(* EC2, as the code uses it                                                *)

Running == {i \in Instances : inst[i] = "running"}
FreshInstance(i) == /\ inst[i] = "none"
                    /\ \A j \in Instances : j < i => inst[j] # "none"
FreshEip(e) == e \notin eips /\ \A f \in Eips : f < e => f \in eips

\* Address of instance i: its elastic IP or, with none, a temporary one.
EipOf(i) == {e \in eips : assoc[e] = i}

\* Stopping an instance frees its addresses.
Kill(i) ==
  /\ inst' = [inst EXCEPT ![i] = "terminated"]
  /\ assoc' = [e \in Eips |-> IF assoc[e] = i THEN NoInstance ELSE assoc[e]]
  /\ UNCHANGED eips

-----------------------------------------------------------------------------
(* change_infra_impl, the caller                                           *)

\* Faulty variant: an existing instance is not looked for.
SpinUp_Again ==
  /\ op = "idle" /\ mode = "launch"
  /\ op' = "up" /\ pc' = "lookup" /\ cur' = NoInstance /\ res' = "none"
  /\ UNCHANGED <<awsVars, alloc, jobVars, faults>>

SpinUp ==
  /\ op = "idle" /\ mode = "launch" /\ id = NoInstance
  /\ Running = {}
  /\ op' = "up" /\ pc' = "lookup" /\ cur' = NoInstance /\ res' = "none"
  /\ UNCHANGED <<awsVars, alloc, jobVars, faults>>

\* "Found existing healthy instance"
Adopt ==
  /\ op = "idle" /\ mode = "launch" /\ id = NoInstance
  /\ \E i \in Running : id' = i
  /\ UNCHANGED <<awsVars, callVars, mode, faults>>

\* Faulty variant: a termination that failed is not retried.
SpinDown_Once ==
  /\ op = "idle" /\ mode = "terminate" /\ res # "err"
  /\ \E i \in Running : cur' = i
  /\ op' = "down" /\ pc' = "get_instance_ip" /\ res' = "none"
  /\ UNCHANGED <<awsVars, alloc, jobVars, faults>>

SpinDown ==
  /\ op = "idle" /\ mode = "terminate"
  /\ \E i \in Running : cur' = i
  /\ op' = "down" /\ pc' = "get_instance_ip" /\ res' = "none"
  /\ UNCHANGED <<awsVars, alloc, jobVars, faults>>

\* "Instance does not exist or is already terminated"
NothingToTerminate ==
  /\ op = "idle" /\ mode = "terminate"
  /\ Running = {}
  /\ mode' = "gone"
  /\ UNCHANGED <<awsVars, callVars, id, faults>>

\* The job is closed, revised below the minimum rate or insolvent.
JobEnds ==
  /\ op = "idle" /\ mode = "launch"
  /\ mode' = "terminate"
  /\ UNCHANGED <<awsVars, callVars, id, faults>>

\* The heartbeat finds the instance dead and schedules a launch.
Relaunch ==
  /\ op = "idle" /\ mode = "launch" /\ id # NoInstance
  /\ inst[id] # "running"
  /\ id' = NoInstance
  /\ UNCHANGED <<awsVars, callVars, mode, faults>>

\* The provider call returns.
Return(r) ==
  /\ op' = "idle" /\ pc' = "none" /\ alloc' = NoEip /\ res' = r
  /\ cur' = IF r = "ok" THEN cur ELSE NoInstance

Returned ==
  /\ pc = "return"
  /\ Return("ok")
  /\ id' = IF op = "up" THEN cur ELSE id
  /\ mode' = IF op = "down" THEN "done" ELSE mode
  /\ UNCHANGED <<awsVars, faults>>

-----------------------------------------------------------------------------
(* The steps of spin_up_instance and spin_down_instance                    *)

\* The EC2 call succeeds and the code goes on to step p.
Goto(from, p) ==
  /\ pc = from /\ pc' = p
  /\ UNCHANGED <<op, res, jobVars, faults>>

\* The instance type, the image, the security group and the subnet are looked
\* up.  Any of them may be missing, or the type too small for the job: Fail.
Lookup ==
  /\ Goto("lookup", "run_instances")
  /\ UNCHANGED <<awsVars, cur, alloc>>

RunInstances ==
  /\ Goto("run_instances", "get_job_ip")
  /\ \E i \in Instances : /\ FreshInstance(i)
                          /\ inst' = [inst EXCEPT ![i] = "running"]
                          /\ cur' = i
  /\ UNCHANGED <<eips, assoc, alloc>>

\* Faulty variant: the address of an earlier attempt is not looked up.
GetJobIp_AlwaysAllocates ==
  /\ Goto("get_job_ip", "allocate")
  /\ UNCHANGED <<awsVars, cur, alloc>>

GetJobIp ==
  \/ /\ Goto("get_job_ip", "associate")
     /\ \E e \in eips : alloc' = e
     /\ UNCHANGED <<awsVars, cur>>
  \/ /\ Goto("get_job_ip", "allocate")
     /\ eips = {}
     /\ UNCHANGED <<awsVars, cur, alloc>>

Allocate ==
  /\ Goto("allocate", "associate")
  /\ \E e \in Eips : FreshEip(e) /\ alloc' = e /\ eips' = eips \cup {e}
  /\ UNCHANGED <<inst, assoc, cur>>

Associate ==
  /\ Goto("associate", "return")
  /\ inst[cur] = "running" /\ alloc \in eips
  /\ assoc' = [assoc EXCEPT ![alloc] = cur]
  /\ UNCHANGED <<inst, eips, cur, alloc>>

GetInstanceIp ==
  \/ /\ Goto("get_instance_ip", "disassociate")
     /\ \E e \in EipOf(cur) : alloc' = e
     /\ UNCHANGED <<awsVars, cur>>
  \/ /\ Goto("get_instance_ip", "get_release_ip")
     /\ EipOf(cur) = {}
     /\ UNCHANGED <<awsVars, cur, alloc>>

\* Fails when the association is already gone.
Disassociate ==
  /\ Goto("disassociate", "get_release_ip")
  /\ assoc[alloc] = cur
  /\ assoc' = [assoc EXCEPT ![alloc] = NoInstance]
  /\ UNCHANGED <<inst, eips, cur, alloc>>

GetReleaseIp ==
  \/ /\ Goto("get_release_ip", "release")
     /\ \E e \in eips : alloc' = e
     /\ UNCHANGED <<awsVars, cur>>
  \/ /\ Goto("get_release_ip", "terminate")
     /\ eips = {}
     /\ UNCHANGED <<awsVars, cur, alloc>>

\* Faulty variant: the address is left allocated.
Release_Skipped ==
  /\ Goto("release", "terminate")
  /\ UNCHANGED <<awsVars, cur, alloc>>

\* AWS does not release an address that is in use.
Release ==
  /\ Goto("release", "terminate")
  /\ alloc \in eips /\ assoc[alloc] = NoInstance
  /\ eips' = eips \ {alloc}
  /\ UNCHANGED <<inst, assoc, cur, alloc>>

\* Cleaning up after a failed post_spin_up still returns the first error.
Terminate ==
  /\ Goto("terminate", IF op = "down" THEN "return" ELSE "error")
  /\ Kill(cur)
  /\ UNCHANGED <<cur, alloc>>

\* post_spin_up failed: spin down what was launched.
CleanUp ==
  /\ op = "up" /\ pc \in {"get_job_ip", "allocate", "associate"}
  /\ pc' = "get_instance_ip"
  /\ UNCHANGED <<awsVars, op, cur, alloc, res, jobVars, faults>>

\* Faulty variant: an error on the way to terminate_instance is swallowed.
Fail_Swallowed ==
  /\ pc \in {"disassociate", "get_release_ip", "release", "terminate"}
  /\ pc' = IF pc = "terminate" THEN "return" ELSE "terminate"
  /\ UNCHANGED <<awsVars, op, cur, alloc, res, jobVars, faults>>

\* Any other error leaves the provider call at once.
Fail ==
  /\ pc \in {"lookup", "run_instances", "get_instance_ip", "disassociate",
             "get_release_ip", "release", "terminate", "error"}
  /\ Return("err")
  /\ UNCHANGED <<awsVars, jobVars, faults>>

\* The call takes effect and is reported as failed.
LostResponse ==
  /\ faults < MaxFaults
  /\ faults' = faults + 1
  /\ \/ /\ pc = "run_instances"
        /\ \E i \in Instances : /\ FreshInstance(i)
                                /\ inst' = [inst EXCEPT ![i] = "running"]
                                /\ cur' = i
        /\ UNCHANGED <<eips, assoc>>
     \/ /\ pc = "allocate"
        /\ \E e \in Eips : FreshEip(e) /\ eips' = eips \cup {e}
        /\ UNCHANGED <<inst, assoc, cur>>
     \/ /\ pc = "associate" /\ inst[cur] = "running"
        /\ assoc' = [assoc EXCEPT ![alloc] = cur]
        /\ UNCHANGED <<inst, eips, cur>>
     \/ /\ pc = "disassociate" /\ assoc[alloc] = cur
        /\ assoc' = [assoc EXCEPT ![alloc] = NoInstance]
        /\ UNCHANGED <<inst, eips, cur>>
     \/ /\ pc = "release" /\ alloc \in eips /\ assoc[alloc] = NoInstance
        /\ eips' = eips \ {alloc}
        /\ UNCHANGED <<inst, assoc, cur>>
     \/ /\ pc = "terminate"
        /\ Kill(cur)
        /\ UNCHANGED cur
  /\ pc' = IF pc \in {"allocate", "associate"} THEN "get_instance_ip" ELSE "error"
  /\ UNCHANGED <<op, alloc, res, jobVars>>

-----------------------------------------------------------------------------
InstanceDies ==
  /\ faults < MaxFaults
  /\ faults' = faults + 1
  /\ \E i \in Running : Kill(i)
  /\ UNCHANGED <<callVars, jobVars>>

\* The control plane restarts; the job's logs tell it the mode again.
Restart ==
  /\ faults < MaxFaults
  /\ faults' = faults + 1
  /\ op' = "idle" /\ pc' = "none" /\ cur' = NoInstance /\ alloc' = NoEip
  /\ res' = "none" /\ id' = NoInstance
  /\ mode' = IF mode = "launch" THEN mode ELSE "terminate"
  /\ UNCHANGED awsVars

Caller == SpinUp \/ Adopt \/ SpinDown \/ NothingToTerminate \/ Relaunch \/ Returned
Ec2    == Lookup \/ RunInstances \/ GetJobIp \/ Allocate \/ Associate \/ GetInstanceIp
            \/ Disassociate \/ GetReleaseIp \/ Release \/ Terminate
Errors == CleanUp \/ Fail \/ LostResponse

Next == Caller \/ JobEnds \/ Ec2 \/ Errors \/ InstanceDies \/ Restart

\* change_infra retries for ever, and a call that is retried succeeds in the end.
Fairness == WF_vars(Caller) /\ WF_vars(Ec2 \/ Errors)
  /\ SF_vars(GetInstanceIp) /\ SF_vars(Disassociate) /\ SF_vars(GetReleaseIp)
  /\ SF_vars(Release) /\ SF_vars(Terminate)

Spec     == Init /\ [][Next]_vars
FairSpec == Spec /\ Fairness

-----------------------------------------------------------------------------
(* Properties                                                              *)

\* A job never holds two elastic IPs, through lost responses, failed cleanups
\* and restarts between allocate_address and associate_address: that is why
\* allocate_ip_addr looks for the one of an earlier attempt.
AtMostOneEip == Cardinality(eips) <= 1

\* When spin_down returns Ok the job's instance is gone and its elastic IP is
\* released.
SpinDownReleases == mode = "done" => Running = {} /\ eips = {}

\* While the job is to run, the address of its instance is never taken away by
\* anything but the death of the instance.
AddressStays ==
  [][\A e \in Eips :
       mode = "launch" /\ id \in Running /\ assoc[e] = id
         => assoc'[e] = id \/ inst'[id] # "running"]_vars

\* A job that has to end is ended.
TerminationCompletes == mode = "terminate" ~> mode \in {"done", "gone"}

\* The instance that answers at the job's elastic IPs E, associated by A.
AnswersAt(E, A) ==
  IF \E e \in E : A[e] # NoInstance
  THEN A[CHOOSE e \in E : A[e] # NoInstance]
  ELSE NoInstance

\* The provider keeps the promises of InfraProvider.
IP == INSTANCE InfraProvider WITH tgt <- cur, ip <- AnswersAt(eips, assoc)

\* Every behaviour of the AWS provider is one InfraProvider allows.
KeepsPromises == IP!Spec

\* "instance exists and is already running, we are done": an instance that the
\* launch settles on has the job's address.
SettledHasAddress ==
  mode = "launch" /\ op = "idle" /\ id \in Running =>
    \E e \in eips : assoc[e] = id
=============================================================================
