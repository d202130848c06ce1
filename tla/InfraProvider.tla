--------------------------- MODULE InfraProvider ---------------------------
(***************************************************************************)
(* What the trait InfraProvider promises the job manager about spin_up and *)
(* spin_down of one job: how many instances a call may start or stop, and  *)
(* what may be relied on when it returns Ok.  A call is not atomic and may *)
(* fail at any point; instances may die by themselves.                     *)
(***************************************************************************)
EXTENDS Naturals

CONSTANTS Instances, NoInstance

VARIABLES
  inst,  \* state of every instance
  ip,    \* the instance that answers at the job's public address
  op,    \* the call in progress: "idle", "up" or "down"
  tgt,   \* the instance the call started, or was told to stop
  res    \* what the last call returned

vars == <<inst, ip, op, tgt, res>>

Init ==
  /\ inst = [i \in Instances |-> "none"]
  /\ ip = NoInstance /\ op = "idle" /\ tgt = NoInstance /\ res = "none"

Call(o, i) ==
  /\ op = "idle" /\ op' = o /\ tgt' = i /\ res' = "none"
  /\ UNCHANGED <<inst, ip>>

\* spin_up starts one instance at most ...
Start(i) ==
  /\ op = "up" /\ tgt = NoInstance
  /\ inst[i] = "none" /\ inst' = [inst EXCEPT ![i] = "running"]
  /\ tgt' = i
  /\ UNCHANGED <<ip, op, res>>

\* ... and gives it the job's address.
Attach ==
  /\ op = "up" /\ tgt # NoInstance /\ inst[tgt] = "running" /\ ip' = tgt
  /\ UNCHANGED <<inst, op, tgt, res>>

\* Either call may detach the address and stop its own instance.
Detach ==
  /\ op # "idle" /\ ip' = NoInstance
  /\ UNCHANGED <<inst, op, tgt, res>>

Stop ==
  /\ op # "idle" /\ tgt # NoInstance
  /\ inst' = [inst EXCEPT ![tgt] = "terminated"]
  /\ ip' = IF ip = tgt THEN NoInstance ELSE ip
  /\ UNCHANGED <<op, tgt, res>>

\* Ok from spin_up: the instance answers at the job's address, unless it died.
\* Ok from spin_down: the instance is gone and nothing answers there.
ReturnOk ==
  /\ \/ op = "up" /\ tgt # NoInstance /\ (ip = tgt \/ inst[tgt] # "running")
     \/ op = "down" /\ inst[tgt] = "terminated" /\ ip = NoInstance
  /\ op' = "idle" /\ res' = "ok"
  /\ UNCHANGED <<inst, ip, tgt>>

\* Err promises nothing; a process restart forgets the call.
ReturnErr ==
  /\ op # "idle" /\ op' = "idle" /\ res' = "err" /\ tgt' = NoInstance
  /\ UNCHANGED <<inst, ip>>

Forget ==
  /\ op' = "idle" /\ res' = "none" /\ tgt' = NoInstance
  /\ UNCHANGED <<inst, ip>>

Die(i) ==
  /\ inst[i] = "running" /\ inst' = [inst EXCEPT ![i] = "terminated"]
  /\ ip' = IF ip = i THEN NoInstance ELSE ip
  /\ UNCHANGED <<op, tgt, res>>

Next ==
  \/ Call("up", NoInstance)
  \/ \E i \in Instances : Call("down", i) \/ Start(i) \/ Die(i)
  \/ Attach \/ Detach \/ Stop \/ ReturnOk \/ ReturnErr \/ Forget

Spec == Init /\ [][Next]_vars
=============================================================================
