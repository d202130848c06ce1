-------------------------- MODULE Executor_proofs --------------------------
(***************************************************************************)
(* Proofs about JobExecution: for any number of jobs, cgroups and tasks, a *)
(* cgroup is never lost or shared, and a job is answered by its own worker.*)
(* And about EventsListener: a completed job is not started again.         *)
(***************************************************************************)
EXTENDS JobExecution, EventsListener, SequenceTheorems, FiniteSetTheorems, TLAPS

-----------------------------------------------------------------------------
(* The inductive invariant                                                 *)

Holds(t) == tasks[t].pc \in Holding

\* execute_job has a cgroup exactly from reserve to its end.
Reserved ==
  \A t \in DOMAIN tasks :
    /\ Holds(t) => tasks[t].cgroup \in Cgroups
    /\ tasks[t].pc = "fetch" => tasks[t].cgroup = NoCgroup

\* A worker that may still answer is that of a task in execution.
WorkerHeld ==
  \A t \in DOMAIN tasks :
    tasks[t].proc \in {"starting", "listening"} => Holds(t)

\* CgroupOwned, entry by entry.
FreeOnce  == \A k, m \in DOMAIN free : free[k] = free[m] => k = m
HeldOnce  == \A t, u \in DOMAIN tasks :
               Holds(t) /\ Holds(u) /\ tasks[t].cgroup = tasks[u].cgroup => t = u
NotBoth   == \A k \in DOMAIN free : \A t \in DOMAIN tasks :
               Holds(t) => free[k] # tasks[t].cgroup
NoneLost  == \A c \in Cgroups : \/ \E k \in DOMAIN free : free[k] = c
                                \/ \E t \in DOMAIN tasks : Holds(t) /\ tasks[t].cgroup = c

IInv == /\ TypeOK /\ Reserved /\ WorkerHeld
        /\ FreeOnce /\ HeldOnce /\ NotBoth /\ NoneLost
        /\ OwnWorker

-----------------------------------------------------------------------------
(* Lemmas                                                                  *)

\* What a task that changes its own record leaves of the others.
LEMMA RecordChanged ==
  ASSUME TypeOK, NEW t \in DOMAIN tasks, NEW r \in Task,
         tasks' = [tasks EXCEPT ![t] = r]
  PROVE  /\ tasks' \in Seq(Task) /\ DOMAIN tasks' = DOMAIN tasks
         /\ tasks'[t] = r
         /\ \A u \in DOMAIN tasks : u # t => tasks'[u] = tasks[u]
BY ExceptSeq, LenProperties DEF TypeOK

\* Return ends the task, kills its worker and gives its cgroup back.
LEMMA ReturnEffect ==
  ASSUME TypeOK, NEW t \in DOMAIN tasks, NEW o \in Outcome, NEW h \in Nat,
         Return(t, o, h)
  PROVE  /\ tasks' \in Seq(Task) /\ DOMAIN tasks' = DOMAIN tasks
         /\ \A u \in DOMAIN tasks : u # t => tasks'[u] = tasks[u]
         /\ tasks'[t].pc = "done" /\ tasks'[t].out = o /\ tasks'[t].by = h
         /\ tasks'[t].cgroup = tasks[t].cgroup
         /\ tasks'[t].proc \notin {"starting", "listening"}
<1> DEFINE r == [tasks[t] EXCEPT !.pc = "done", !.out = o, !.by = h,
                                 !.proc = Killed(@)]
<1>1. tasks[t] \in Task
  BY ElementOfSeq, LenProperties DEF TypeOK
<1>2. Killed(tasks[t].proc) \in ProcState \ {"starting", "listening"}
  BY <1>1 DEF Task, ProcState, Killed
<1>3. r \in Task
  BY <1>1, <1>2 DEF Task, TaskPc
<1>4. tasks' = [tasks EXCEPT ![t] = r]
  BY <1>1 DEF Return
<1>5. /\ r.pc = "done" /\ r.out = o /\ r.by = h /\ r.cgroup = tasks[t].cgroup
      /\ r.proc = Killed(tasks[t].proc)
  BY <1>1 DEF Task
<1> QED
  <2> HIDE DEF r
  <2> QED BY <1>2, <1>3, <1>4, <1>5, RecordChanged

\* Advance leaves everything but the pc and the worker of the task alone.
LEMMA AdvanceEffect ==
  ASSUME TypeOK, NEW t \in DOMAIN tasks, NEW p \in TaskPc, NEW s \in ProcState,
         Advance(t, p, s)
  PROVE  /\ tasks' \in Seq(Task) /\ DOMAIN tasks' = DOMAIN tasks
         /\ \A u \in DOMAIN tasks : u # t => tasks'[u] = tasks[u]
         /\ tasks'[t].pc = p /\ tasks'[t].proc = s
         /\ tasks'[t].cgroup = tasks[t].cgroup
         /\ tasks'[t].out = tasks[t].out /\ tasks'[t].by = tasks[t].by
         /\ UNCHANGED <<created, assigned, free>>
<1> DEFINE r == [tasks[t] EXCEPT !.pc = p, !.proc = s]
<1>1. tasks[t] \in Task
  BY ElementOfSeq, LenProperties DEF TypeOK
<1>2. r \in Task
  BY <1>1 DEF Task
<1>3. tasks' = [tasks EXCEPT ![t] = r]
  BY <1>1 DEF Advance
<1>4. /\ r.pc = p /\ r.proc = s /\ r.cgroup = tasks[t].cgroup
      /\ r.out = tasks[t].out /\ r.by = tasks[t].by
  BY <1>1 DEF Task
<1> QED
  <2> HIDE DEF r
  <2> QED BY <1>2, <1>3, <1>4, RecordChanged DEF Advance, ContractOnly

\* Reserve moves the first free cgroup to the task; the last entry takes its place.
LEMMA ReserveEffect ==
  ASSUME TypeOK, NEW t \in DOMAIN tasks, Reserve(t)
  PROVE  /\ tasks' \in Seq(Task) /\ DOMAIN tasks' = DOMAIN tasks
         /\ \A u \in DOMAIN tasks : u # t => tasks'[u] = tasks[u]
         /\ tasks'[t].pc = "config" /\ tasks'[t].cgroup = free[1]
         /\ tasks'[t].proc = tasks[t].proc
         /\ tasks'[t].out = tasks[t].out /\ tasks'[t].by = tasks[t].by
         /\ Len(free) \in Nat \ {0} /\ DOMAIN free = 1..Len(free)
         /\ free[1] \in Cgroups
         /\ free' \in Seq(Cgroups) /\ DOMAIN free' = 1..(Len(free) - 1)
         /\ \A k \in DOMAIN free' : free'[k] = IF k = 1 THEN free[Len(free)] ELSE free[k]
<1> DEFINE r == [tasks[t] EXCEPT !.pc = "config", !.cgroup = free[1]]
<1>1. tasks[t] \in Task
  BY ElementOfSeq, LenProperties DEF TypeOK
<1>2. /\ Len(free) \in Nat \ {0} /\ DOMAIN free = 1..Len(free)
      /\ \A k \in 1..Len(free) : free[k] \in Cgroups
  BY EmptySeq, LenProperties, ElementOfSeq DEF TypeOK, Reserve
<1>2a. free[1] \in Cgroups
  BY <1>2
<1>3. r \in Task
  BY <1>1, <1>2a DEF Task, TaskPc
<1>4. tasks' = [tasks EXCEPT ![t] = r]
  BY <1>1 DEF Reserve
<1>5. /\ r.pc = "config" /\ r.cgroup = free[1] /\ r.proc = tasks[t].proc
      /\ r.out = tasks[t].out /\ r.by = tasks[t].by
  BY <1>1 DEF Task
<1>6. /\ free' \in Seq(Cgroups) /\ DOMAIN free' = 1..(Len(free) - 1)
      /\ \A k \in DOMAIN free' : free'[k] = IF k = 1 THEN free[Len(free)] ELSE free[k]
  BY <1>2 DEF Reserve, SwapRemoveFirst
<1> QED
  <2> HIDE DEF r
  <2> QED BY <1>2, <1>2a, <1>3, <1>4, <1>5, <1>6, RecordChanged

\* A step in which the tasks that hold a cgroup, and the free list, stay what they
\* are keeps every cgroup where it is.
LEMMA PoolUntouched ==
  ASSUME FreeOnce, HeldOnce, NotBoth, NoneLost, UNCHANGED free,
         DOMAIN tasks \subseteq DOMAIN tasks',
         \A t \in DOMAIN tasks' : Holds(t)' => t \in DOMAIN tasks /\ Holds(t),
         \A t \in DOMAIN tasks :
           Holds(t) => Holds(t)' /\ tasks'[t].cgroup = tasks[t].cgroup
  PROVE  (FreeOnce /\ HeldOnce /\ NotBoth /\ NoneLost)'
<1> USE DEF Holds
<1>1. FreeOnce'
  BY DEF FreeOnce
<1>2. HeldOnce'
  BY DEF HeldOnce
<1>3. NotBoth'
  BY DEF NotBoth
<1>4. NoneLost'
  BY DEF NoneLost
<1> QED
  BY <1>1, <1>2, <1>3, <1>4

-----------------------------------------------------------------------------
(* The three kinds of steps of a task                                      *)

\* A task that ends gives back what it holds, and leaves no worker behind that
\* could answer.
LEMMA ReturnKeeps ==
  ASSUME IInv, NEW t \in DOMAIN tasks, Holds(t) \/ tasks[t].pc = "fetch",
         NEW o \in {"success", "failed"}, NEW h \in Nat, o = "success" => h = t,
         Return(t, o, h)
  PROVE  IInv'
<1>1. /\ tasks' \in Seq(Task) /\ DOMAIN tasks' = DOMAIN tasks
      /\ \A u \in DOMAIN tasks : u # t => tasks'[u] = tasks[u]
      /\ tasks'[t].pc = "done" /\ tasks'[t].out = o /\ tasks'[t].by = h
      /\ tasks'[t].cgroup = tasks[t].cgroup
      /\ tasks'[t].proc \notin {"starting", "listening"}
  BY ReturnEffect DEF IInv, Outcome
<1>2. ~Holds(t)' /\ \A u \in DOMAIN tasks : u # t => Holds(u)' = Holds(u)
  BY <1>1 DEF Holds, Holding
<1>3. UNCHANGED <<created, assigned>>
  BY DEF Return, ContractOnly
<1>4. Reserved' /\ WorkerHeld' /\ OwnWorker'
  BY <1>1, <1>2 DEF IInv, Reserved, WorkerHeld, OwnWorker, Holds
<1>5. CASE tasks[t].pc = "fetch"
  <2>1. ~Holds(t) /\ UNCHANGED free
    BY <1>5, ExecutionAssumption DEF Holds, Holding, IInv, Reserved, Return
  <2>2. (FreeOnce /\ HeldOnce /\ NotBoth /\ NoneLost)'
    BY <1>1, <1>2, <2>1, PoolUntouched DEF IInv
  <2> QED
    BY <1>1, <1>3, <1>4, <2>1, <2>2 DEF IInv, TypeOK
<1>6. CASE Holds(t)
  <2> DEFINE c == tasks[t].cgroup
  <2>1. c \in Cgroups /\ free' = Append(free, c)
    BY <1>6, ExecutionAssumption DEF IInv, Reserved, Return
  <2>2. /\ Len(free) \in Nat /\ DOMAIN free = 1..Len(free)
        /\ free' \in Seq(Cgroups) /\ DOMAIN free' = 1..(Len(free) + 1)
        /\ \A k \in 1..Len(free) : free'[k] = free[k]
        /\ free'[Len(free) + 1] = c
    BY <2>1, AppendProperties, LenProperties DEF IInv, TypeOK
  <2>3. TypeOK'
    BY <1>1, <1>3, <2>2 DEF IInv, TypeOK
  <2>4. \A k \in DOMAIN free : free[k] # c
    BY <1>6 DEF IInv, NotBoth
  <2>5. FreeOnce'
    BY <2>2, <2>4 DEF IInv, FreeOnce
  <2>6. HeldOnce'
    BY <1>1, <1>2 DEF IInv, HeldOnce
  <2>7. \A u \in DOMAIN tasks : u # t /\ Holds(u) => tasks[u].cgroup # c
    BY <1>6 DEF IInv, HeldOnce
  <2>8. NotBoth'
    BY <1>1, <1>2, <2>2, <2>7, SMTT(30) DEF IInv, NotBoth
  <2>9. NoneLost'
    BY <1>1, <1>2, <2>2, SMTT(30) DEF IInv, NoneLost
  <2> QED
    BY <1>4, <2>3, <2>5, <2>6, <2>8, <2>9 DEF IInv
<1> QED
  BY <1>5, <1>6

\* A task that goes on while it holds its cgroup, or whose worker is over.
LEMMA AdvanceKeeps ==
  ASSUME IInv, NEW t \in DOMAIN tasks, NEW p \in TaskPc, NEW s \in ProcState,
         p \in Holding <=> Holds(t), p = "fetch" <=> tasks[t].pc = "fetch",
         s \in {"starting", "listening"} => Holds(t),
         Advance(t, p, s)
  PROVE  IInv'
<1>1. /\ tasks' \in Seq(Task) /\ DOMAIN tasks' = DOMAIN tasks
      /\ \A u \in DOMAIN tasks : u # t => tasks'[u] = tasks[u]
      /\ tasks'[t].pc = p /\ tasks'[t].proc = s
      /\ tasks'[t].cgroup = tasks[t].cgroup
      /\ tasks'[t].out = tasks[t].out /\ tasks'[t].by = tasks[t].by
      /\ UNCHANGED <<created, assigned, free>>
  BY AdvanceEffect DEF IInv
<1>2. \A u \in DOMAIN tasks : Holds(u)' <=> Holds(u)
  BY <1>1 DEF Holds
<1>3. TypeOK'
  BY <1>1 DEF IInv, TypeOK
<1>4. Reserved' /\ WorkerHeld' /\ OwnWorker'
  BY <1>1, <1>2 DEF IInv, Reserved, WorkerHeld, OwnWorker
<1>5. (FreeOnce /\ HeldOnce /\ NotBoth /\ NoneLost)'
  BY <1>1, <1>2, PoolUntouched DEF IInv
<1> QED
  BY <1>3, <1>4, <1>5 DEF IInv

\* The first free cgroup changes hands; swap_remove loses no other.
LEMMA ReserveKeeps ==
  ASSUME IInv, NEW t \in DOMAIN tasks, tasks[t].pc = "fetch", Reserve(t)
  PROVE  IInv'
<1> DEFINE n == Len(free)
<1>1. /\ tasks' \in Seq(Task) /\ DOMAIN tasks' = DOMAIN tasks
      /\ \A u \in DOMAIN tasks : u # t => tasks'[u] = tasks[u]
      /\ tasks'[t].pc = "config" /\ tasks'[t].cgroup = free[1]
      /\ tasks'[t].proc = tasks[t].proc
      /\ tasks'[t].out = tasks[t].out /\ tasks'[t].by = tasks[t].by
  BY ReserveEffect DEF IInv
<1>2. /\ n \in Nat \ {0} /\ DOMAIN free = 1..n /\ free[1] \in Cgroups
      /\ free' \in Seq(Cgroups) /\ DOMAIN free' = 1..(n - 1)
      /\ \A k \in DOMAIN free' : free'[k] = IF k = 1 THEN free[n] ELSE free[k]
  BY ReserveEffect DEF IInv
<1>3. ~Holds(t) /\ Holds(t)' /\ \A u \in DOMAIN tasks : u # t => (Holds(u)' <=> Holds(u))
  BY <1>1 DEF Holds, Holding
<1>4. TypeOK'
  BY <1>1, <1>2 DEF IInv, TypeOK, Reserve, ContractOnly
<1>5. Reserved' /\ WorkerHeld' /\ OwnWorker'
  BY <1>1, <1>2, <1>3, SMTT(30) DEF IInv, Reserved, WorkerHeld, OwnWorker
<1> HIDE DEF n
<1>6. FreeOnce'
  BY <1>2 DEF IInv, FreeOnce
<1>7. HeldOnce'
  BY <1>1, <1>2, <1>3 DEF IInv, HeldOnce, NotBoth
<1>8. \A k \in DOMAIN free' : free'[k] # free[1]
  BY <1>2 DEF IInv, FreeOnce
<1>9. NotBoth'
  <2>1. \A k \in DOMAIN free' : \E m \in DOMAIN free : free'[k] = free[m]
    BY <1>2
  <2>2. ASSUME NEW k \in DOMAIN free', NEW u \in DOMAIN tasks', Holds(u)'
        PROVE  free'[k] # tasks'[u].cgroup
    BY <1>1, <1>3, <1>8, <2>1, <2>2 DEF IInv, NotBoth
  <2> QED
    BY <2>2 DEF NotBoth
<1>10. ASSUME NEW c \in Cgroups
       PROVE  \/ \E k \in DOMAIN free' : free'[k] = c
              \/ \E u \in DOMAIN tasks' : Holds(u)' /\ tasks'[u].cgroup = c
  <2>1. CASE \E u \in DOMAIN tasks : Holds(u) /\ tasks[u].cgroup = c
    BY <1>1, <1>3, <2>1
  <2>2. CASE c = free[1]
    BY <1>1, <1>3, <2>2
  <2>3. ASSUME NEW k \in DOMAIN free, free[k] = c, c # free[1]
        PROVE  \E m \in DOMAIN free' : free'[m] = c
    <3>1. k \in 2..n
      BY <1>2, <2>3
    <3>2. CASE k = n
      BY <1>2, <2>3, <3>1, <3>2
    <3>3. CASE k # n
      BY <1>2, <2>3, <3>1, <3>3
    <3> QED
      BY <3>2, <3>3
  <2> QED
    BY <2>1, <2>2, <2>3 DEF IInv, NoneLost
<1>11. NoneLost'
  BY <1>10 DEF NoneLost
<1> QED
  BY <1>4, <1>5, <1>6, <1>7, <1>9, <1>11 DEF IInv

-----------------------------------------------------------------------------
(* Every step                                                              *)

LEMMA InitIInv == Init => IInv
<1> SUFFICES ASSUME Init PROVE IInv
  OBVIOUS
<1>1. Cardinality(Cgroups) \in Nat
  BY ExecutionAssumption, FS_CardinalityType
<1>2. free \in Seq(Cgroups)
  BY <1>1 DEF Init
<1>3. TypeOK
  BY <1>2 DEF Init, TypeOK
<1>4. DOMAIN tasks = {}
  BY DEF Init
<1>5. FreeOnce /\ NoneLost
  BY DEF Init, FreeOnce, NoneLost
<1> QED
  BY <1>3, <1>4, <1>5 DEF IInv, Reserved, WorkerHeld, HeldOnce, NotBoth, OwnWorker

\* A spawned task holds nothing yet.
LEMMA SpawnKeeps ==
  ASSUME IInv, NEW j \in Jobs, Spawn(j)
  PROVE  IInv'
<1>0. PICK n \in Nat : n = Len(tasks)
  BY LenProperties DEF IInv, TypeOK
<1>1. NewTask(j) \in Task
  BY DEF NewTask, Task, TaskPc, ProcState, Outcome
<1>2. /\ n \in Nat /\ DOMAIN tasks = 1..n
      /\ tasks' \in Seq(Task) /\ DOMAIN tasks' = 1..(n + 1)
      /\ \A u \in 1..n : tasks'[u] = tasks[u]
      /\ tasks'[n + 1] = NewTask(j)
  BY <1>0, <1>1, AppendProperties, LenProperties DEF IInv, TypeOK, Spawn
<1>3. UNCHANGED <<created, assigned, free>>
  BY DEF Spawn
<1>4. ~Holds(n + 1)' /\ \A u \in 1..n : Holds(u)' <=> Holds(u)
  BY <1>2 DEF Holds, Holding, NewTask
<1>5. TypeOK'
  BY <1>2, <1>3 DEF IInv, TypeOK
<1>6. Reserved'
  BY <1>2, <1>4 DEF IInv, Reserved, NewTask
<1>7. WorkerHeld'
  BY <1>2, <1>4 DEF IInv, WorkerHeld, NewTask
<1>8. OwnWorker'
  BY <1>2 DEF IInv, OwnWorker, NewTask
<1>9. (FreeOnce /\ HeldOnce /\ NotBoth /\ NoneLost)'
  BY <1>2, <1>3, <1>4, PoolUntouched DEF IInv
<1> QED
  BY <1>5, <1>6, <1>7, <1>8, <1>9 DEF IInv

LEMMA NextIInv == IInv /\ [Next]_vars => IInv'
<1> SUFFICES ASSUME IInv, [Next]_vars PROVE IInv'
  OBVIOUS
<1> USE DEF IInv
<1>1. ASSUME UNCHANGED <<tasks, free>>, created' \subseteq Jobs, assigned' \subseteq created'
      PROVE  IInv'
  BY <1>1 DEF TypeOK, Reserved, WorkerHeld, FreeOnce, HeldOnce, NotBoth, NoneLost,
              OwnWorker, Holds
<1>2. ASSUME NEW j \in Jobs, Assign(j) \/ Settle(j) PROVE IInv'
  BY <1>1, <1>2 DEF Assign, Settle, TypeOK
<1>3. ASSUME NEW j \in Jobs, Spawn(j) PROVE IInv'
  BY <1>3, SpawnKeeps
<1>4. ASSUME NEW t \in DOMAIN tasks, Step(t) PROVE IInv'
  <2>1. tasks[t] \in Task
    BY ElementOfSeq, LenProperties DEF TypeOK
  <2>2. ASSUME tasks[t].pc \in Holding \cup {"fetch"}, Return(t, "failed", 0)
        PROVE  IInv'
    BY <2>2, ReturnKeeps DEF Holds
  <2>3. CASE Fetch(t) \/ FetchErr(t)
    BY <2>2, <2>3, ReserveKeeps DEF Fetch, FetchErr, At
  <2>4. CASE Config(t)
    <3>1. tasks[t].pc = "config"
      BY <2>4 DEF Config, At
    <3>2. CASE Advance(t, "wait", "starting")
      BY <3>1, <3>2, AdvanceKeeps DEF Holds, Holding, TaskPc, ProcState
    <3> QED
      BY <2>2, <2>4, <3>1, <3>2 DEF Config, Holding
  <2>5. CASE WaitForPort(t)
    <3> DEFINE p == IF PortHolders(tasks[t].cgroup) # {} THEN "request" ELSE "blocked"
    <3>1. /\ tasks[t].pc = "wait" /\ Advance(t, p, tasks[t].proc)
          /\ p \in {"request", "blocked"}
      BY <2>5 DEF WaitForPort, At
    <3> HIDE DEF p
    <3>2. tasks[t].proc \in ProcState
      BY <2>1 DEF Task
    <3> QED
      BY <3>1, <3>2, AdvanceKeeps DEF Holds, Holding, TaskPc
  <2>6. CASE ReadStderr(t)
    BY <2>2, <2>6 DEF ReadStderr, At, Holding
  <2>7. CASE Request(t)
    <3>1. tasks[t].pc = "request"
      BY <2>7 DEF Request, At
    <3>2. ASSUME NEW h \in PortHolders(tasks[t].cgroup),
                 tasks[h].proc = "listening", Return(t, "success", h)
          PROVE  IInv'
      <4>1. h \in DOMAIN tasks /\ tasks[h].cgroup = tasks[t].cgroup
        BY DEF PortHolders
      <4>2. Holds(h) /\ Holds(t)
        BY <3>1, <3>2, <4>1 DEF WorkerHeld, Holds, Holding
      <4>3. h = t
        BY <4>1, <4>2 DEF HeldOnce
      <4>4. h \in Nat
        BY <4>1, LenProperties DEF TypeOK
      <4> QED
        BY <3>2, <4>2, <4>3, <4>4, ReturnKeeps
    <3> QED
      BY <2>2, <2>7, <3>1, <3>2 DEF Request, Holding
  <2>8. CASE Deadline(t)
    BY <2>2, <2>8 DEF Deadline, Awaiting, Holding
  <2>9. CASE Bind(t) \/ ProcExit(t)
    <3>1. PICK s \in {"listening", "exited"} :
            /\ Advance(t, tasks[t].pc, s)
            /\ s = "listening" => tasks[t].proc = "starting"
      BY <2>9 DEF Bind, ProcExit
    <3>2. s = "listening" => Holds(t)
      BY <3>1 DEF WorkerHeld
    <3>3. tasks[t].pc \in TaskPc /\ s \in ProcState
      BY <2>1 DEF Task, ProcState
    <3> QED
      BY <3>1, <3>2, <3>3, AdvanceKeeps DEF Holds
  <2> QED
    BY <1>4, <2>3, <2>4, <2>5, <2>6, <2>7, <2>8, <2>9 DEF Step
<1>5. CASE UNCHANGED vars
  BY <1>1, <1>5 DEF vars, TypeOK
<1> QED
  BY <1>2, <1>3, <1>4, <1>5 DEF Next

LEMMA Inductive == Spec => []IInv
BY InitIInv, NextIInv, PTL DEF Spec

-----------------------------------------------------------------------------
(* Theorems                                                                *)

\* The pool only ever holds cgroups of the enclave: nothing is released that was
\* not reserved.
THEOREM TypeCorrect == Spec => []TypeOK
<1>1. IInv => TypeOK
  BY DEF IInv
<1> QED
  BY <1>1, Inductive, PTL

\* Whatever path the tasks of job_handler.rs end on, a cgroup is in the free list
\* once or in the hands of one task, and never both or neither.
THEOREM CgroupOwnedAlways == Spec => []CgroupOwned
<1>1. IInv => CgroupOwned
  <2> SUFFICES ASSUME IInv, NEW c \in Cgroups
               PROVE  \/ Holders(c) = {} /\ \E k \in DOMAIN free : FreeAt(c) = {k}
                      \/ FreeAt(c) = {} /\ \E t \in DOMAIN tasks : Holders(c) = {t}
    BY DEF CgroupOwned
  <2>1. ASSUME NEW k \in DOMAIN free, free[k] = c
        PROVE  Holders(c) = {} /\ FreeAt(c) = {k}
    BY <2>1 DEF IInv, FreeOnce, NotBoth, Holds, Holders, FreeAt
  <2>2. ASSUME NEW t \in DOMAIN tasks, Holds(t), tasks[t].cgroup = c
        PROVE  FreeAt(c) = {} /\ Holders(c) = {t}
    BY <2>2 DEF IInv, HeldOnce, NotBoth, Holds, Holders, FreeAt
  <2> QED
    BY <2>1, <2>2 DEF IInv, NoneLost
<1> QED
  BY <1>1, Inductive, PTL

\* A job that succeeds was answered by the worker it started itself, although
\* the kill of execute_job is not waited for.
THEOREM OwnWorkerAlways == Spec => []OwnWorker
<1>1. IInv => OwnWorker
  BY DEF IInv
<1> QED
  BY <1>1, Inductive, PTL

\* The contract counts no more jobs against the executor than it has cgroups.
Within == IsFiniteSet(assigned) /\ Cardinality(assigned) <= Cardinality(Cgroups)

\* The capacity the executor registered with bounds the assigned jobs.
LEMMA CapacityKept == Spec => []Within
<1>1. Cardinality(Cgroups) \in Nat
  BY ExecutionAssumption, FS_CardinalityType
<1>2. Init => Within
  BY <1>1, FS_EmptySet DEF Init, Within
<1>3. Within /\ [Next]_vars => Within'
  <2> SUFFICES ASSUME Within, [Next]_vars PROVE Within'
    OBVIOUS
  <2>1. IsFiniteSet(assigned) /\ Cardinality(assigned) \in Nat
    BY FS_CardinalityType DEF Within
  <2>2. ASSUME NEW j \in Jobs, Assign(j) PROVE Within'
    <3>1. /\ IsFiniteSet(assigned \cup {j})
          /\ Cardinality(assigned \cup {j}) \in {Cardinality(assigned), Cardinality(assigned) + 1}
      BY <2>1, FS_AddElement
    <3> QED BY <1>1, <2>1, <2>2, <3>1 DEF Assign, Within
  <2>3. ASSUME NEW j \in Jobs, Settle(j) PROVE Within'
    <3>1. /\ IsFiniteSet(assigned \ {j})
          /\ Cardinality(assigned \ {j}) \in {Cardinality(assigned), Cardinality(assigned) - 1}
      BY <2>1, FS_RemoveElement
    <3> QED BY <1>1, <2>1, <2>3, <3>1 DEF Settle, Within
  <2>4. CASE UNCHANGED assigned
    BY <2>4 DEF Within
  <2>5. ASSUME NEW j \in Jobs, Spawn(j) PROVE UNCHANGED assigned
    BY <2>5 DEF Spawn
  <2>6. ASSUME NEW t \in DOMAIN tasks, Step(t) PROVE UNCHANGED assigned
    BY <2>6 DEF Step, Fetch, FetchErr, Config, WaitForPort, ReadStderr, Request, Deadline, Bind,
                ProcExit, Reserve, Return, Advance, ContractOnly
  <2> QED BY <2>2, <2>3, <2>4, <2>5, <2>6 DEF Next, vars
<1> QED BY <1>2, <1>3, PTL DEF Spec

\* As long as the executed jobs count against the capacity, and once each, a job that
\* wants a cgroup finds one: were none free, the jobs that hold them and the one that
\* wants one would be more than the contract allows (cgroups.rs reserve).
THEOREM ReserveSucceedsAlways == Spec => []ReserveSucceeds
<1>1. IInv /\ Within => ReserveSucceeds
  <2> DEFINE live == {t \in DOMAIN tasks : tasks[t].pc \in Holding \cup {"fetch"}}
  <2> SUFFICES ASSUME IInv, Within,
                      \A t \in live : tasks[t].job \in assigned,
                      \A t, u \in live : tasks[t].job = tasks[u].job => t = u,
                      NEW u \in live, tasks[u].pc = "fetch",
                      free = <<>>
               PROVE  FALSE
    BY DEF ReserveSucceeds
  <2> DEFINE holder(c) == CHOOSE t \in DOMAIN tasks : Holds(t) /\ tasks[t].cgroup = c
             others == assigned \ {tasks[u].job}
             f == [c \in Cgroups |-> tasks[holder(c)].job]
  <2>1. ASSUME NEW c \in Cgroups
        PROVE  /\ holder(c) \in live /\ tasks[holder(c)].cgroup = c
               /\ holder(c) # u
    <3>1. \E t \in DOMAIN tasks : Holds(t) /\ tasks[t].cgroup = c
      BY DEF IInv, NoneLost
    <3>2. holder(c) \in DOMAIN tasks /\ Holds(holder(c)) /\ tasks[holder(c)].cgroup = c
      BY <3>1
    <3> HIDE DEF holder
    <3> QED BY <3>2 DEF Holds, Holding
  <2> HIDE DEF holder
  <2>2. \A c \in Cgroups : tasks[holder(c)].job \in others
    BY <2>1
  <2>3. \A c, d \in Cgroups : tasks[holder(c)].job = tasks[holder(d)].job => c = d
    BY <2>1
  <2>4. f \in [Cgroups -> others] /\ \A c, d \in Cgroups : f[c] = f[d] => c = d
    BY <2>2, <2>3
  <2>5. /\ IsFiniteSet(others) /\ Cardinality(others) = Cardinality(assigned) - 1
        /\ Cardinality(assigned) \in Nat /\ Cardinality(Cgroups) \in Nat /\ Cardinality(others) \in Nat
    BY FS_RemoveElement, FS_CardinalityType, ExecutionAssumption DEF Within
  <2>6. Cardinality(others) < Cardinality(Cgroups)
    BY <2>5 DEF Within
  <2> HIDE DEF others, f
  <2>7. \E c, d \in Cgroups : c # d /\ f[c] = f[d]
    BY <2>4, <2>5, <2>6, ExecutionAssumption, FS_PigeonHole
  <2> QED BY <2>4, <2>7
<1> QED BY <1>1, Inductive, CapacityKept, PTL
-----------------------------------------------------------------------------
(* The events listener                                                     *)

\* Block numbers do not decrease along the chain.
Ordered == \A k, m \in 1..Len(events) : k <= m => events[k].block <= events[m].block

\* One JobCreated log per job, before the block of any of its outputs.
CreatedFirst ==
  \A k, m \in 1..Len(events) :
    events[k].kind = "JobCreated" /\ events[m].job = events[k].job =>
      /\ events[m].kind = "JobCreated" => k = m
      /\ events[m].kind = "JobResponded" => events[k].block < events[m].block

\* Every output is that of a job that was created.
RespondedIsCreated ==
  \A m \in 1..Len(events) :
    events[m].kind = "JobResponded" =>
      \E k \in 1..Len(events) : events[k].kind = "JobCreated" /\ events[k].job = events[m].job

\* last_block_seen is beyond the creation of a job whose last output was seen.
CompletedPassed ==
  ~rewound => \A j \in completed : \E k \in 1..Len(events) :
    /\ events[k].kind = "JobCreated" /\ events[k].job = j
    /\ events[k].block < last_block

\* Until it is registered again, the listener looks at no log from before
\* last_block_seen.
FromSeen ==
  ~registered /\ ~rewound =>
    /\ phase \in {"connect", "ExecutorRegistered"} => last_block <= from
    /\ phase = "ExecutorRegistered" =>
         \A k \in 1..Len(events) :
           k > pos["ExecutorRegistered"] => last_block <= events[k].block

\* The listener waits for its registration only while it is not registered.
Waits ==
  /\ phase = "ExecutorRegistered" => ~registered
  /\ phase \in JobStreams \cup {"listen"} => registered

\* The logs of jobs name one.
CreatedIsJob ==
  \A k \in 1..Len(events) : events[k].kind = "JobCreated" => events[k].job \in JobIds

ChainInv == Ordered /\ CreatedFirst /\ RespondedIsCreated /\ CreatedIsJob

ListenerInv == ListenerTypeOK /\ ChainInv /\ CompletedPassed /\ FromSeen /\ Waits

\* What a log looks like, and where the newest block is.
LEMMA LogTypes ==
  ASSUME ListenerTypeOK
  PROVE  /\ Len(events) \in Nat /\ Block \in Nat
         /\ \A k \in 1..Len(events) : events[k] \in Event /\ events[k].block \in Nat
<1>1. Len(events) \in Nat /\ \A k \in 1..Len(events) : events[k] \in Event
  BY DEF ListenerTypeOK
<1>2. \A k \in 1..Len(events) : events[k].block \in Nat
  BY <1>1 DEF Event
<1>3. Block \in Nat
  <2>1. CASE events = <<>>
    BY <2>1 DEF Block
  <2>2. CASE events # <<>>
    <3>1. Len(events) \in 1..Len(events)
      BY <2>2, EmptySeq DEF ListenerTypeOK
    <3> QED BY <3>1, <2>2, <1>2 DEF Block
  <2> QED BY <2>1, <2>2
<1> QED BY <1>1, <1>2, <1>3

\* A subscription from block b on misses no log of b or of a later block.
LEMMA StreamStartMisses ==
  ASSUME ListenerTypeOK, Ordered, NEW b \in Nat
  PROVE  /\ StreamStart(b) \in 0..Len(events)
         /\ \A k \in 1..Len(events) : k > StreamStart(b) => b <= events[k].block
<1> DEFINE S == {k \in 1..Len(events) : events[k].block < b}
<1>1. Len(events) \in Nat /\ \A k \in 1..Len(events) : events[k].block \in Nat
  BY LogTypes
<1>2. IsFiniteSet(1..Len(events)) /\ Cardinality(1..Len(events)) = Len(events)
  <2> DEFINE N == Len(events)
  <2>1. N \in Int /\ 1 \in Int /\ N \in Nat
    BY <1>1
  <2> HIDE DEF N
  <2>2. IsFiniteSet(1..N) /\ Cardinality(1..N) = IF 1 > N THEN 0 ELSE N - 1 + 1
    BY <2>1, FS_Interval
  <2> QED BY <2>1, <2>2 DEF N
<1>3. IsFiniteSet(S) /\ Cardinality(S) <= Len(events)
  BY <1>2, FS_Subset
<1>4. Cardinality(S) \in Nat
  BY <1>3, FS_CardinalityType
<1>5. ASSUME NEW k \in 1..Len(events), k > Cardinality(S), ~(b <= events[k].block)
      PROVE  FALSE
  <2>1. 1..k \subseteq S
    <3> SUFFICES ASSUME NEW m \in 1..k PROVE m \in S
      OBVIOUS
    <3>1. m \in 1..Len(events) /\ events[m].block <= events[k].block
      BY <1>1 DEF Ordered
    <3> QED BY <3>1, <1>1, <1>5
  <2>2. Cardinality(1..k) = k
    BY FS_Interval
  <2>3. k <= Cardinality(S)
    BY <2>1, <2>2, <1>3, FS_Subset
  <2> QED BY <2>3, <1>4, <1>5
<1> QED BY <1>1, <1>3, <1>4, <1>5 DEF StreamStart

-----------------------------------------------------------------------------
(* The contracts emit a log                                                *)

\* What a log leaves of those before it.
LEMMA EmitEffect ==
  ASSUME ListenerInv, NEW kind \in Streams, NEW j \in JobIds \cup {NoJob}, NEW b,
         NEW sel \in BOOLEAN, NEW n \in Nat, Emit(kind, j, b, sel, n)
  PROVE  /\ events' \in Seq(Event) /\ Len(events') = Len(events) + 1
         /\ Len(events) \in Nat /\ b \in Nat
         /\ \A k \in 1..Len(events) : events'[k] = events[k] /\ events[k].block <= b
         /\ events'[Len(events) + 1] = [kind |-> kind, job |-> j, block |-> b,
                                        selected |-> sel, count |-> n]
         /\ Block' = b /\ Block <= b
         /\ UNCHANGED <<ownerVars, loopVars, jobVars, drops>>
<1> DEFINE e == [kind |-> kind, job |-> j, block |-> b, selected |-> sel, count |-> n]
<1>1. Len(events) \in Nat /\ Block \in Nat /\ events \in Seq(Event)
  BY LogTypes DEF ListenerInv, ListenerTypeOK
<1>2. b \in Nat /\ Block <= b
  BY <1>1 DEF Emit
<1>3. e \in Event
  BY <1>2 DEF Event
<1>4. events' = Append(events, e)
  BY DEF Emit
<1> HIDE DEF e
<1>5. /\ events' \in Seq(Event) /\ Len(events') = Len(events) + 1
      /\ \A k \in 1..Len(events) : events'[k] = events[k]
      /\ events'[Len(events) + 1] = e
  BY <1>1, <1>3, <1>4, AppendProperties
<1>6. e.block = b
  BY DEF e
<1>7. events' # <<>>
  BY <1>1, <1>5, EmptySeq
<1>8. Block' = b
  BY <1>5, <1>6, <1>7 DEF Block
<1>9. ASSUME NEW k \in 1..Len(events)
      PROVE  events[k].block <= b
  <2>1. events # <<>> /\ Len(events) \in 1..Len(events)
    BY <1>1, EmptySeq
  <2>2. events[k].block <= Block
    BY <1>1, <2>1 DEF Block, ListenerInv, ChainInv, Ordered
  <2>3. events[k].block \in Nat
    BY LogTypes DEF ListenerInv
  <2> QED BY <2>2, <2>3, <1>1, <1>2
<1> QED
  BY <1>1, <1>2, <1>5, <1>8, <1>9 DEF Emit, e

\* A log that comes after those its contract asks for keeps the invariant.
LEMMA EmitKeeps ==
  ASSUME ListenerInv, NEW kind \in Streams, NEW j \in JobIds \cup {NoJob}, NEW b,
         NEW sel \in BOOLEAN, NEW n \in Nat, Emit(kind, j, b, sel, n),
         kind = "JobCreated" =>
           j \in JobIds /\ Of("JobCreated", j) = {} /\ Of("JobResponded", j) = {},
         kind = "JobResponded" => \E k \in Of("JobCreated", j) : events[k].block < b
  PROVE  ListenerInv'
<1> DEFINE N == Len(events)
<1>1. /\ events' \in Seq(Event) /\ Len(events') = N + 1 /\ N \in Nat /\ b \in Nat
      /\ \A k \in 1..N : events'[k] = events[k] /\ events[k].block <= b
      /\ events'[N + 1].kind = kind /\ events'[N + 1].job = j /\ events'[N + 1].block = b
      /\ Block' = b /\ Block <= b
      /\ UNCHANGED <<ownerVars, loopVars, jobVars, drops>>
  <2> DEFINE e == [kind |-> kind, job |-> j, block |-> b, selected |-> sel, count |-> n]
  <2>1. e.kind = kind /\ e.job = j /\ e.block = b
    OBVIOUS
  <2>2. /\ events' \in Seq(Event) /\ Len(events') = N + 1 /\ N \in Nat /\ b \in Nat
        /\ \A k \in 1..N : events'[k] = events[k] /\ events[k].block <= b
        /\ events'[N + 1] = e
        /\ Block' = b /\ Block <= b
        /\ UNCHANGED <<ownerVars, loopVars, jobVars, drops>>
    BY EmitEffect
  <2> QED BY <2>1, <2>2, Zenon
<1>2. UNCHANGED <<configured, calls, rewound, active, registered, phase, from, last_block, pos,
                  running, completed, spawned, sleeping, sending, timeouts, exports, drops>>
  BY <1>1 DEF ownerVars, loopVars, jobVars
<1>3. /\ \A k \in 1..N : events[k].block \in Nat
      /\ Block \in Nat /\ last_block \in Nat /\ last_block <= Block
  BY LogTypes DEF ListenerInv, ListenerTypeOK
<1>4. \A k \in 1..Len(events') : k \in 1..N \/ k = N + 1
  BY <1>1
<1>5. ListenerTypeOK'
  <2>1. last_block \in 0..b
    BY <1>1, <1>3
  <2>2. pos \in [Streams -> 0..Len(events')]
    <3>1. 0..N \subseteq 0..Len(events')
      BY <1>1
    <3> QED BY <3>1 DEF ListenerInv, ListenerTypeOK
  <2> QED BY <1>1, <1>2, <2>1, <2>2 DEF ListenerInv, ListenerTypeOK
<1>6. Ordered'
  BY <1>1, <1>3, <1>4 DEF ListenerInv, ChainInv, Ordered
<1>7. CreatedFirst'
  <2> SUFFICES ASSUME NEW k \in 1..Len(events'), NEW m \in 1..Len(events'),
                      events'[k].kind = "JobCreated", events'[m].job = events'[k].job
               PROVE  /\ events'[m].kind = "JobCreated" => k = m
                      /\ events'[m].kind = "JobResponded" => events'[k].block < events'[m].block
    BY DEF CreatedFirst
  <2>1. CASE k \in 1..N /\ m \in 1..N
    BY <2>1, <1>1 DEF ListenerInv, ChainInv, CreatedFirst
  <2>2. CASE k = N + 1 /\ m \in 1..N
    <3>1. kind = "JobCreated" /\ events[m].job = j
      BY <2>2, <1>1
    <3>2. events[m].kind # "JobCreated" /\ events[m].kind # "JobResponded"
      BY <3>1, <2>2 DEF Of
    <3> QED BY <3>2, <2>2, <1>1
  <2>3. CASE k \in 1..N /\ m = N + 1
    <3>1. events[k].kind = "JobCreated" /\ events[k].job = j /\ events'[m].kind = kind
      BY <2>3, <1>1
    <3>2. kind # "JobCreated"
      BY <3>1, <2>3 DEF Of
    <3>3. ASSUME kind = "JobResponded" PROVE events[k].block < b
      <4>1. PICK i \in Of("JobCreated", j) : events[i].block < b
        BY <3>3
      <4>2. i = k
        BY <4>1, <3>1, <2>3 DEF Of, ListenerInv, ChainInv, CreatedFirst
      <4> QED BY <4>1, <4>2
    <3> QED BY <3>1, <3>2, <3>3, <2>3, <1>1
  <2>4. CASE k = N + 1 /\ m = N + 1
    BY <2>4
  <2> QED BY <2>1, <2>2, <2>3, <2>4, <1>4
<1>8. RespondedIsCreated'
  <2> SUFFICES ASSUME NEW m \in 1..Len(events'), events'[m].kind = "JobResponded"
               PROVE  \E k \in 1..Len(events') :
                        events'[k].kind = "JobCreated" /\ events'[k].job = events'[m].job
    BY DEF RespondedIsCreated
  <2>1. \E k \in 1..N : events[k].kind = "JobCreated" /\ events[k].job = events'[m].job
    <3>1. CASE m \in 1..N
      BY <3>1, <1>1 DEF ListenerInv, ChainInv, RespondedIsCreated
    <3>2. CASE m = N + 1
      <4>1. \E k \in Of("JobCreated", j) : events[k].block < b
        BY <3>2, <1>1
      <4> QED BY <4>1, <3>2, <1>1 DEF Of
    <3> QED BY <3>1, <3>2, <1>4
  <2> QED BY <2>1, <1>1
<1>9. CompletedPassed'
  <2> SUFFICES ASSUME ~rewound, NEW i \in completed
               PROVE  \E k \in 1..Len(events') : /\ events'[k].kind = "JobCreated"
                        /\ events'[k].job = i /\ events'[k].block < last_block
    BY <1>2 DEF CompletedPassed
  <2>1. \E k \in 1..N : /\ events[k].kind = "JobCreated"
           /\ events[k].job = i /\ events[k].block < last_block
    BY DEF ListenerInv, CompletedPassed
  <2> QED BY <2>1, <1>1
<1>10. FromSeen'
  <2>1. ASSUME NEW k \in 1..Len(events'), k > pos["ExecutorRegistered"],
               phase = "ExecutorRegistered", ~registered, ~rewound
        PROVE  last_block <= events'[k].block
    <3>1. CASE k \in 1..N
      BY <3>1, <2>1, <1>1 DEF ListenerInv, FromSeen
    <3>2. CASE k = N + 1
      BY <3>2, <1>1, <1>3
    <3> QED BY <3>1, <3>2, <1>4
  <2> QED BY <2>1, <1>2 DEF ListenerInv, FromSeen
<1>11. Waits'
  BY <1>2 DEF ListenerInv, Waits
<1>12. CreatedIsJob'
  BY <1>1, <1>4 DEF ListenerInv, ChainInv, CreatedIsJob
<1> QED BY <1>5, <1>6, <1>7, <1>8, <1>9, <1>10, <1>11, <1>12 DEF ListenerInv, ChainInv

-----------------------------------------------------------------------------
(* The steps                                                               *)

\* A step of the contracts.
LEMMA ContractsKeep ==
  ASSUME ListenerInv, Contracts
  PROVE  ListenerInv'
<1> USE ListenerAssumption
<1>1. PICK b \in {Block, Block + 1} :
        \/ Register(b) \/ Deregister(b)
        \/ \E j \in JobIds : Respond(j, b) \/ \E sel \in BOOLEAN : CreateJob(j, b, sel)
  BY DEF Contracts
<1>2. CASE Register(b)
  BY <1>2, EmitKeeps DEF Register, Streams
<1>3. CASE Deregister(b)
  BY <1>3, EmitKeeps DEF Deregister, Streams, JobStreams
<1>4. ASSUME NEW j \in JobIds, Respond(j, b)
      PROVE  ListenerInv'
  <2>1. Responses(j) + 1 \in Nat
    <3>1. Len(events) \in Nat
      BY LogTypes DEF ListenerInv
    <3>2. IsFiniteSet(1..Len(events)) /\ Of("JobResponded", j) \subseteq 1..Len(events)
      BY <3>1, FS_Interval DEF Of
    <3>3. Cardinality(Of("JobResponded", j)) \in Nat
      BY <3>2, FS_Subset, FS_CardinalityType
    <3> QED BY <3>3 DEF Responses
  <2> QED BY <1>4, <2>1, EmitKeeps DEF Respond, Streams, JobStreams
<1>5. ASSUME NEW j \in JobIds, NEW sel \in BOOLEAN, CreateJob(j, b, sel)
      PROVE  ListenerInv'
  <2>1. Of("JobCreated", j) = {}
    BY <1>5 DEF CreateJob
  <2>2. Of("JobResponded", j) = {}
    BY <2>1 DEF Of, ListenerInv, ChainInv, RespondedIsCreated
  <2> QED BY <1>5, <2>1, <2>2, EmitKeeps DEF CreateJob, Streams, JobStreams
<1> QED BY <1>1, <1>2, <1>3, <1>4, <1>5

\* Steps that leave the chain alone keep what is known of it.
LEMMA ChainKept ==
  ASSUME ListenerInv, UNCHANGED events
  PROVE  ChainInv' /\ Block' = Block
BY DEF ListenerInv, ChainInv, Ordered, CreatedFirst, RespondedIsCreated, CreatedIsJob, Block

\* The endpoints, the connection and the timers.
LEMMA LoopKeeps ==
  ASSUME ListenerInv,
         \/ Owner \/ Drop \/ Connect \/ TakeRegistered \/ Subscribe \/ Leave
         \/ \E j \in JobIds : Timer(j)
  PROVE  ListenerInv'
<1> USE ListenerAssumption
<1>1. UNCHANGED events
  BY DEF Owner, Configure, FetchHead, Export, Drop, Connect, TakeRegistered, Subscribe, Leave,
         Timer, TimeoutCheck, TimeoutSend, ListenOnly, ownerVars
<1>2. ChainInv' /\ Block' = Block
  BY <1>1, ChainKept
<1>3. Len(events) \in Nat /\ Block \in Nat /\ \A k \in 1..Len(events) : events[k].block \in Nat
  BY LogTypes DEF ListenerInv
<1>4. CASE Owner
  <2>1. ASSUME NEW c \in {"immutable", "mutable"}, Configure(c) PROVE ListenerInv'
    BY <2>1, <1>2 DEF Configure, loopVars, jobVars, ListenerInv, ListenerTypeOK, CompletedPassed, FromSeen, Waits
  <2>2. ASSUME FetchHead PROVE ListenerInv'
    <3>1. exports' \in 1..MaxExports /\ calls' \subseteq [id : 1..MaxExports, head : Nat]
      BY <2>2, <1>3 DEF FetchHead, ListenerInv, ListenerTypeOK
    <3> QED BY <2>2, <3>1, <1>2
               DEF FetchHead, loopVars, jobVars, ListenerInv, ListenerTypeOK, CompletedPassed, FromSeen, Waits
  <2>3. ASSUME Export PROVE ListenerInv'
    <3>1. PICK c \in calls :
            /\ calls' = calls \ {c}
            /\ \/ active /\ UNCHANGED <<loopVars, rewound>>
               \/ /\ ~active /\ active' = TRUE
                  /\ phase' = "connect" /\ from' = c.head
                  /\ rewound' = (rewound \/ c.head < last_block)
                  /\ UNCHANGED <<registered, last_block, pos>>
            /\ UNCHANGED <<events, configured, exports, jobVars, drops>>
      BY <2>3 DEF Export
    <3>2. c.head \in Nat /\ calls' \subseteq [id : 1..MaxExports, head : Nat]
      BY <3>1 DEF ListenerInv, ListenerTypeOK
    <3>3. CASE active
      BY <3>1, <3>2, <3>3, <1>2
         DEF loopVars, jobVars, ListenerInv, ListenerTypeOK, CompletedPassed, FromSeen, Waits
    <3>4. CASE ~active
      <4>1. ListenerTypeOK'
        BY <3>1, <3>2, <3>4, <1>2 DEF jobVars, ListenerInv, ListenerTypeOK
      <4>2. ~rewound' => ~rewound /\ ~(c.head < last_block)
        <5>1. rewound' = (rewound \/ c.head < last_block)
          BY <3>1, <3>4, Zenon
        <5> QED BY <5>1, Zenon
      <4>3. /\ phase' = "connect" /\ from' = c.head /\ last_block' = last_block /\ last_block \in Nat
            /\ UNCHANGED <<events, registered, completed>>
        BY <3>1, <3>4, <1>3 DEF jobVars, ListenerInv, ListenerTypeOK
      <4>4. FromSeen'
        BY <3>2, <4>2, <4>3 DEF FromSeen
      <4>5. CompletedPassed'
        BY <4>2, <4>3 DEF ListenerInv, CompletedPassed
      <4> QED BY <4>1, <4>3, <4>4, <4>5, <1>2 DEF ListenerInv, Waits, JobStreams
    <3> QED BY <3>3, <3>4
  <2> QED BY <1>4, <2>1, <2>2, <2>3 DEF Owner
<1>5. CASE Drop
  <2>1. ListenerTypeOK'
    BY <1>5, <1>2, <1>3 DEF Drop, ownerVars, jobVars, ListenerInv, ListenerTypeOK, Streams, JobStreams
  <2>2. FromSeen'
    BY <1>5 DEF Drop, ownerVars, ListenerInv, FromSeen, Waits, Streams
  <2> QED BY <1>5, <2>1, <2>2, <1>2 DEF Drop, ownerVars, jobVars, ListenerInv, CompletedPassed, Waits, JobStreams
<1>6. CASE Connect
  <2>1. StreamStart(from) \in 0..Len(events)
        /\ \A k \in 1..Len(events) : k > StreamStart(from) => from <= events[k].block
    BY StreamStartMisses DEF ListenerInv, ChainInv, ListenerTypeOK
  <2>2. ListenerTypeOK'
    <3>1. ListenerTypeOK
      BY DEF ListenerInv
    <3>2. pos' \in [Streams -> 0..Len(events)] /\ phase' \in {"JobCreated", "ExecutorRegistered"}
      <4>1. pos \in [Streams -> 0..Len(events)]
        BY <3>1 DEF ListenerTypeOK
      <4>2. \/ phase' = "JobCreated" /\ pos' = pos
            \/ phase' = "ExecutorRegistered" /\ pos' = [pos EXCEPT !["ExecutorRegistered"] = StreamStart(from)]
        BY <1>6, Zenon DEF Connect
      <4> QED BY <4>1, <4>2, <2>1 DEF Streams, JobStreams
    <3>3. UNCHANGED <<events, configured, calls, rewound, exports, from, drops, active, registered, last_block, jobVars>> /\ phase = "connect"
      BY <1>6 DEF Connect, ListenOnly, ownerVars
    <3> QED BY <3>1, <3>2, <3>3, <1>2 DEF ListenerTypeOK, jobVars, Streams, JobStreams
  <2>3. FromSeen'
    BY <1>6, <2>1, <1>3 DEF Connect, ListenOnly, ownerVars, ListenerInv, ListenerTypeOK, FromSeen, Streams, JobStreams
  <2> QED BY <1>6, <2>2, <2>3, <1>2
             DEF Connect, ListenOnly, ownerVars, jobVars, ListenerInv, CompletedPassed, Waits, JobStreams
<1>7. CASE TakeRegistered
  <2>1. PICK k \in 1..Len(events) : IsNext(k, phase) /\ last_block' = events[k].block
    BY <1>7 DEF TakeRegistered
  <2>2. (~rewound => last_block <= last_block') /\ last_block' <= Block /\ last_block' \in Nat
    <3>1. k > pos["ExecutorRegistered"]
      BY <1>7, <2>1, <1>3 DEF TakeRegistered, IsNext, ListenerInv, ListenerTypeOK, Streams
    <3>2. events # <<>> /\ Len(events) \in 1..Len(events)
      BY <1>3, EmptySeq
    <3>3. events[k].block <= Block
      BY <1>3, <3>2 DEF Block, ListenerInv, ChainInv, Ordered
    <3> QED BY <3>1, <3>3, <2>1, <1>3, <1>7 DEF TakeRegistered, ListenerInv, FromSeen, Waits
  <2>3. /\ UNCHANGED <<configured, calls, rewound, exports, from, active, drops, running, completed,
                       spawned, sleeping, sending, timeouts>>
        /\ registered' = TRUE /\ phase' = "JobCreated" /\ phase = "ExecutorRegistered"
        /\ pos' = [pos EXCEPT ![phase] = 0]
    BY <1>7 DEF TakeRegistered, ListenOnly, ownerVars, jobVars
  <2>4. ListenerTypeOK'
    <3>1. last_block' \in 0..Block'
      BY <2>2, <1>2, <1>3
    <3>2. pos' \in [Streams -> 0..Len(events')] /\ phase' \in Streams
      BY <2>3, <1>1, <1>3 DEF ListenerInv, ListenerTypeOK, Streams, JobStreams
    <3>3. active' <=> phase' # "off"
      BY <2>3 DEF ListenerInv, ListenerTypeOK
    <3> QED BY <2>3, <3>1, <3>2, <3>3, <1>1 DEF ListenerInv, ListenerTypeOK
  <2>5. CompletedPassed'
    <3> SUFFICES ASSUME ~rewound, NEW j \in completed
                 PROVE  \E m \in 1..Len(events) : /\ events[m].kind = "JobCreated"
                          /\ events[m].job = j /\ events[m].block < last_block'
      BY <2>3, <1>1 DEF CompletedPassed
    <3>1. PICK m \in 1..Len(events) : /\ events[m].kind = "JobCreated"
                 /\ events[m].job = j /\ events[m].block < last_block
      BY DEF ListenerInv, CompletedPassed
    <3>2. last_block \in Nat /\ events[m].block \in Nat
      BY <1>3 DEF ListenerInv, ListenerTypeOK
    <3> QED BY <3>1, <3>2, <2>2
  <2> QED BY <2>3, <2>4, <2>5, <1>2 DEF ListenerInv, FromSeen, Waits, JobStreams
<1>8. CASE Subscribe
  <2>1. StreamStart(last_block) \in 0..Len(events)
    <3>1. last_block \in Nat
      BY <1>3 DEF ListenerInv, ListenerTypeOK
    <3> QED BY <3>1, StreamStartMisses DEF ListenerInv, ChainInv
  <2>2. phase' \in {"JobResponded", "ExecutorDeregistered", "listen"} /\ registered /\ phase \in JobStreams
    BY <1>8 DEF Subscribe, JobStreams, ListenerInv, Waits
  <2>3. ListenerTypeOK'
    <3>1. /\ UNCHANGED <<configured, calls, rewound, exports, from, active, registered, last_block, drops, running,
                         completed, spawned, sleeping, sending, timeouts>>
          /\ pos' = [pos EXCEPT ![phase] = StreamStart(last_block)]
      BY <1>8 DEF Subscribe, ListenOnly, ownerVars, jobVars
    <3>2. pos' \in [Streams -> 0..Len(events')] /\ phase' \in Streams \cup {"listen"}
      BY <3>1, <2>1, <2>2, <1>1 DEF ListenerInv, ListenerTypeOK, Streams, JobStreams
    <3>3. active' <=> phase' # "off"
      BY <3>1, <2>2 DEF ListenerInv, ListenerTypeOK, JobStreams
    <3> QED BY <3>1, <3>2, <3>3, <1>1, <1>2 DEF ListenerInv, ListenerTypeOK
  <2> QED BY <1>8, <2>2, <2>3, <1>2
             DEF Subscribe, ListenOnly, ownerVars, jobVars, ListenerInv, CompletedPassed, FromSeen, Waits, JobStreams
<1>9. CASE Leave
  <2>1. ListenerTypeOK'
    <3>1. /\ UNCHANGED <<configured, calls, rewound, exports, from, registered, last_block, drops, running,
                         completed, spawned, sleeping, sending, timeouts>>
          /\ phase' = "off" /\ active' = FALSE /\ pos' = [s \in Streams |-> 0]
      BY <1>9 DEF Leave, ListenOnly, ownerVars, jobVars
    <3>2. pos' \in [Streams -> 0..Len(events')] /\ (active' <=> phase' # "off")
      BY <3>1, <1>1, <1>3
    <3> QED BY <3>1, <3>2, <1>1, <1>2 DEF ListenerInv, ListenerTypeOK
  <2> QED BY <1>9, <2>1, <1>2
             DEF Leave, ListenOnly, ownerVars, jobVars, ListenerInv, CompletedPassed, FromSeen, Waits, JobStreams
<1>10. ASSUME NEW j \in JobIds, Timer(j) PROVE ListenerInv'
  <2>1. /\ UNCHANGED <<configured, calls, rewound, exports, active, registered, phase, from, last_block, pos,
                       completed, spawned, drops>>
        /\ running' \subseteq JobIds /\ timeouts' \subseteq JobIds
    BY <1>10 DEF Timer, TimeoutCheck, TimeoutSend, ownerVars, loopVars, ListenerInv, ListenerTypeOK
  <2>2. sleeping' \in [JobIds -> Nat] /\ sending' \in [JobIds -> Nat]
    <3>1. sleeping \in [JobIds -> Nat] /\ sending \in [JobIds -> Nat]
      BY DEF ListenerInv, ListenerTypeOK
    <3>2. CASE TimeoutCheck(j)
      BY <3>1, <3>2 DEF TimeoutCheck
    <3>3. CASE TimeoutSend(j)
      BY <3>1, <3>3 DEF TimeoutSend
    <3> QED BY <1>10, <3>2, <3>3 DEF Timer
  <2> QED BY <2>1, <2>2, <1>1, <1>2 DEF ListenerInv, ListenerTypeOK, CompletedPassed, FromSeen, Waits
<1> QED BY <1>4, <1>5, <1>6, <1>7, <1>8, <1>9, <1>10

\* A taken log: which one, and where it leaves last_block_seen.
LEMMA TakeEffect ==
  ASSUME ListenerInv, NEW s \in Streams, NEW k \in 1..Len(events), Take(k, s),
         UNCHANGED last_block \/ Accept(k)
  PROVE  /\ events[k].kind = s /\ phase = "listen" /\ UNCHANGED <<events, configured, calls, rewound, exports, from, drops>>
         /\ pos' \in [Streams -> 0..Len(events)]
         /\ last_block \in Nat /\ last_block' \in 0..Block /\ last_block <= last_block'
         /\ CompletedPassed /\ ~rewound => \A j \in completed : \E m \in 1..Len(events) :
              /\ events[m].kind = "JobCreated" /\ events[m].job = j /\ events[m].block < last_block'
<1>1. Len(events) \in Nat /\ Block \in Nat /\ \A m \in 1..Len(events) : events[m].block \in Nat
  BY LogTypes DEF ListenerInv
<1>2. /\ events[k].kind = s /\ phase = "listen" /\ UNCHANGED <<events, configured, calls, rewound, exports, from, drops>>
      /\ pos' = [pos EXCEPT ![s] = k]
  BY DEF Take, IsNext, ListenOnly, ownerVars
<1>3. pos' \in [Streams -> 0..Len(events)]
  BY <1>2, <1>1 DEF ListenerInv, ListenerTypeOK
<1>4. last_block \in Nat /\ last_block <= Block
  BY <1>1 DEF ListenerInv, ListenerTypeOK
<1>5. events[k].block <= Block
  <2>1. events # <<>> /\ Len(events) \in 1..Len(events)
    BY <1>1, EmptySeq
  <2> QED BY <2>1, <1>1 DEF Block, ListenerInv, ChainInv, Ordered
<1>6. last_block' \in 0..Block /\ last_block <= last_block'
  BY <1>1, <1>4, <1>5 DEF Accept, Stale
<1>7. ASSUME CompletedPassed, ~rewound, NEW j \in completed
      PROVE  \E m \in 1..Len(events) :
               /\ events[m].kind = "JobCreated" /\ events[m].job = j /\ events[m].block < last_block'
  <2>1. PICK m \in 1..Len(events) :
          /\ events[m].kind = "JobCreated" /\ events[m].job = j /\ events[m].block < last_block
    BY <1>7 DEF CompletedPassed
  <2>2. events[m].block \in Nat
    BY <1>1
  <2>3. last_block' \in Nat
    BY <1>1, <1>6
  <2>4. events[m].block < last_block'
    BY <2>1, <2>2, <2>3, <1>4, <1>6
  <2> QED BY <2>1, <2>4
<1> QED BY <1>2, <1>3, <1>4, <1>6, <1>7

\* The select! of handle_event_logs.
LEMMA TakeKeeps ==
  ASSUME ListenerInv,
         \/ Serve \/ TakeResponded \/ Skip("JobResponded") \/ TakeDeregistered
  PROVE  ListenerInv'
<1>1. ASSUME NEW s \in JobStreams, Skip(s) PROVE ListenerInv'
  <2>1. PICK k \in 1..Len(events) : Take(k, s) /\ Stale(k)
    BY <1>1 DEF Skip
  <2>2. UNCHANGED <<active, registered, phase, last_block, running, completed, spawned, sleeping, sending, timeouts>>
    BY <1>1 DEF Skip, jobVars
  <2>3. /\ phase = "listen" /\ UNCHANGED <<events, configured, calls, rewound, exports, from, drops>>
        /\ pos' \in [Streams -> 0..Len(events)]
    BY <2>1, <2>2, TakeEffect DEF Streams
  <2>4. ChainInv' /\ Block' = Block
    BY <2>3, ChainKept
  <2> QED BY <2>2, <2>3, <2>4 DEF ListenerInv, ListenerTypeOK, CompletedPassed, FromSeen, Waits
<1>2. CASE TakeCreated
  <2>1. PICK k \in 1..Len(events) :
          LET j == events[k].job
          IN  /\ Take(k, "JobCreated") /\ Accept(k)
              /\ running' = running \cup {j}
              /\ sleeping' = [sleeping EXCEPT ![j] = @ + 1]
              /\ spawned' = IF events[k].selected
                            THEN [spawned EXCEPT ![j] = @ + 1] ELSE spawned
    BY <1>2 DEF TakeCreated
  <2> DEFINE j == events[k].job
  <2>2. UNCHANGED <<active, registered, phase, completed, sending, timeouts>>
    BY <1>2 DEF TakeCreated
  <2>3. /\ phase = "listen" /\ UNCHANGED <<events, configured, calls, rewound, exports, from, drops>>
        /\ pos' \in [Streams -> 0..Len(events)]
        /\ last_block' \in 0..Block
        /\ CompletedPassed /\ ~rewound => \A i \in completed : \E m \in 1..Len(events) :
              /\ events[m].kind = "JobCreated" /\ events[m].job = i /\ events[m].block < last_block'
    BY <2>1, TakeEffect DEF Streams, JobStreams
  <2>4. ChainInv' /\ Block' = Block
    BY <2>3, ChainKept
  <2>5. j \in JobIds
    BY <2>1 DEF Take, IsNext, ListenerInv, ChainInv, CreatedIsJob
  <2> HIDE DEF j
  <2>6. running' \subseteq JobIds /\ sleeping' \in [JobIds -> Nat] /\ spawned' \in [JobIds -> Nat]
    <3>1. /\ running \subseteq JobIds /\ sleeping \in [JobIds -> Nat] /\ spawned \in [JobIds -> Nat]
          /\ running' = running \cup {j}
          /\ sleeping' = [sleeping EXCEPT ![j] = @ + 1]
          /\ spawned' = [spawned EXCEPT ![j] = @ + 1] \/ spawned' = spawned
      BY <2>1 DEF ListenerInv, ListenerTypeOK, j
    <3> QED BY <3>1, <2>5, SMTT(30)
  <2>7. ListenerTypeOK'
    BY <2>2, <2>3, <2>4, <2>6 DEF ListenerInv, ListenerTypeOK
  <2> QED BY <2>2, <2>3, <2>4, <2>7 DEF ListenerInv, CompletedPassed, FromSeen, Waits
<1>3. CASE TakeResponded
  <2>1. PICK k \in 1..Len(events) :
          LET done == IF events[k].count = NumSelected THEN {events[k].job} ELSE {}
          IN  /\ Take(k, "JobResponded") /\ Accept(k)
              /\ running' = running \ done
              /\ completed' = completed \cup done
    BY <1>3 DEF TakeResponded
  <2>2. UNCHANGED <<active, registered, phase, spawned, sleeping, sending, timeouts>>
    BY <1>3 DEF TakeResponded
  <2>3. /\ phase = "listen" /\ UNCHANGED <<events, configured, calls, rewound, exports, from, drops>>
        /\ pos' \in [Streams -> 0..Len(events)] /\ events[k].kind = "JobResponded"
        /\ last_block' \in 0..Block
        /\ CompletedPassed /\ ~rewound => \A i \in completed : \E m \in 1..Len(events) :
              /\ events[m].kind = "JobCreated" /\ events[m].job = i /\ events[m].block < last_block'
    BY <2>1, TakeEffect DEF Streams, JobStreams
  <2>4. ChainInv' /\ Block' = Block
    BY <2>3, ChainKept
  <2>5. PICK m \in 1..Len(events) :
          events[m].kind = "JobCreated" /\ events[m].job = events[k].job /\ events[m].block < events[k].block
    BY <2>3 DEF ListenerInv, ChainInv, RespondedIsCreated, CreatedFirst
  <2>6. CompletedPassed'
    <3> SUFFICES ASSUME ~rewound, NEW i \in completed'
                 PROVE  \E n \in 1..Len(events) : /\ events[n].kind = "JobCreated"
                          /\ events[n].job = i /\ events[n].block < last_block'
      BY <2>3 DEF CompletedPassed
    <3>1. CASE i \in completed
      BY <3>1, <2>3 DEF ListenerInv
    <3>2. CASE i = events[k].job
      BY <3>2, <2>1, <2>5 DEF Accept
    <3> QED BY <2>1, <3>1, <3>2
  <2>7. events[k].job \in JobIds
    BY <2>5 DEF ListenerInv, ChainInv, CreatedIsJob
  <2>8. running' \subseteq JobIds /\ completed' \subseteq JobIds
    BY <2>1, <2>7 DEF ListenerInv, ListenerTypeOK
  <2>9. ListenerTypeOK'
    BY <2>2, <2>3, <2>4, <2>8 DEF ListenerInv, ListenerTypeOK
  <2> QED BY <2>2, <2>3, <2>4, <2>6, <2>9 DEF ListenerInv, FromSeen, Waits
<1>4. CASE TakeDeregistered
  <2>1. PICK k \in 1..Len(events) : Take(k, "ExecutorDeregistered")
    BY <1>4 DEF TakeDeregistered
  <2>2. /\ UNCHANGED <<active, last_block, running, completed, spawned, sleeping, sending, timeouts>>
        /\ registered' = FALSE /\ phase' = "leaving"
    BY <1>4 DEF TakeDeregistered, jobVars
  <2>3. /\ phase = "listen" /\ UNCHANGED <<events, configured, calls, rewound, exports, from, drops>>
        /\ pos' \in [Streams -> 0..Len(events)]
    BY <2>1, <2>2, TakeEffect DEF Streams, JobStreams
  <2>4. ChainInv' /\ Block' = Block
    BY <2>3, ChainKept
  <2>5. ListenerTypeOK'
    <3>1. active' <=> phase' # "off"
      BY <2>2, <2>3 DEF ListenerInv, ListenerTypeOK
    <3> QED BY <2>2, <2>3, <2>4, <3>1 DEF ListenerInv, ListenerTypeOK
  <2> QED BY <2>2, <2>3, <2>4, <2>5 DEF ListenerInv, CompletedPassed, FromSeen, Waits, JobStreams
<1> QED BY <1>1, <1>2, <1>3, <1>4 DEF Serve, JobStreams

-----------------------------------------------------------------------------
(* The specification of the listener                                       *)

\* The invariant of the listener and of the logs it reads.
THEOREM ListenerInvariance == ListenerSpec => []ListenerInv
<1>1. ListenerInit => ListenerInv
  <2> SUFFICES ASSUME ListenerInit PROVE ListenerInv
    OBVIOUS
  <2>1. events = <<>> /\ Len(events) = 0 /\ Block = 1
    BY DEF ListenerInit, Block
  <2>2. ListenerTypeOK
    <3>1. /\ events \in Seq(Event) /\ last_block \in 0..Block /\ pos \in [Streams -> 0..Len(events)]
          /\ exports \in 0..MaxExports /\ drops \in 0..MaxDrops
      BY <2>1, ListenerAssumption DEF ListenerInit
    <3>2. /\ spawned \in [JobIds -> Nat] /\ sleeping \in [JobIds -> Nat] /\ sending \in [JobIds -> Nat]
          /\ (active <=> phase # "off")
      BY DEF ListenerInit
    <3> QED BY <3>1, <3>2 DEF ListenerInit, ListenerTypeOK
  <2>3. ChainInv
    BY <2>1 DEF ChainInv, Ordered, CreatedFirst, RespondedIsCreated, CreatedIsJob
  <2> QED BY <2>2, <2>3 DEF ListenerInit, ListenerInv, CompletedPassed, FromSeen, Waits, JobStreams
<1>2. ListenerInv /\ [ListenerNext]_listenerVars => ListenerInv'
  <2> SUFFICES ASSUME ListenerInv, [ListenerNext]_listenerVars PROVE ListenerInv'
    OBVIOUS
  <2>1. CASE ListenerNext
    BY <2>1, ContractsKeep, LoopKeeps, TakeKeeps DEF ListenerNext
  <2>2. CASE UNCHANGED listenerVars
    BY <2>2 DEF listenerVars, ownerVars, loopVars, jobVars, ListenerInv, ListenerTypeOK, ChainInv, Ordered,
                CreatedFirst, RespondedIsCreated, CreatedIsJob, CompletedPassed, FromSeen, Waits, Block
  <2> QED BY <2>1, <2>2
<1> QED BY <1>1, <1>2, PTL DEF ListenerSpec

\* A job whose last output has been seen is not started again: only a
\* JobCreated log that is not stale starts one, and last_block_seen is beyond
\* the only such log of a completed job, through every drop, new subscription,
\* deregistration and new start of the listener, one from before
\* last_block_seen excepted.
THEOREM CompletedNotRestarted == ListenerSpec => NotRestarted
<1>1. ListenerInv /\ [ListenerNext]_listenerVars =>
        [~rewound => (running' \ running) \cap completed = {}]_listenerVars
  <2> SUFFICES ASSUME ListenerInv, ListenerNext, ~rewound, NEW j \in running', j \notin running, j \in completed
               PROVE  FALSE
    BY Zenon
  <2>1. PICK k \in 1..Len(events) :
          /\ Take(k, "JobCreated") /\ ~Stale(k) /\ events[k].job = j
    BY DEF ListenerNext, Contracts, Register, Deregister, Respond, CreateJob, Emit, Owner, FetchHead, Export,
           Configure, Drop, Connect, TakeRegistered, Subscribe, Leave, Serve, TakeCreated, Skip,
           TakeResponded, TakeDeregistered, Timer, TimeoutCheck, TimeoutSend, Accept, jobVars
  <2>2. PICK m \in 1..Len(events) :
          /\ events[m].kind = "JobCreated" /\ events[m].job = j /\ events[m].block < last_block
    BY DEF ListenerInv, CompletedPassed
  <2>3. events[k].kind = "JobCreated"
    BY <2>1 DEF Take, IsNext
  <2>4. k = m
    BY <2>1, <2>2, <2>3 DEF ListenerInv, ChainInv, CreatedFirst
  <2> QED BY <2>1, <2>2, <2>4 DEF Stale
<1> QED BY <1>1, ListenerInvariance, PTL DEF ListenerSpec, NotRestarted
=============================================================================
