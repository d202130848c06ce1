---------------------------- MODULE JobExecution ----------------------------
(***************************************************************************)
(* serverless/executor: the handle_job tasks of job_handler.rs, the pool   *)
(* of cgroups they share (cgroups.rs) and the workers they start           *)
(* (workerd.rs).                                                           *)
(*                                                                         *)
(* A task may be dropped by the user deadline at any await; the defer!     *)
(* blocks then kill its worker and release its cgroup, which is one step   *)
(* here because nothing is awaited between them.  The kill is not waited   *)
(* for: a killed worker may hold its port when the next job of the cgroup  *)
(* starts.  The files of a task carry a random slug and are shared with    *)
(* nobody: they are left out.                                              *)
(***************************************************************************)
EXTENDS Naturals, Sequences, FiniteSets

CONSTANTS
  Jobs,       \* job ids
  Cgroups,    \* cgroups of the enclave, one port each
  NoCgroup,   \* no cgroup reserved
  MaxTasks    \* bound: handle_job tasks spawned

ASSUME ExecutionAssumption ==
  /\ NoCgroup \notin Cgroups
  /\ IsFiniteSet(Cgroups) /\ Cgroups # {}
  /\ MaxTasks \in Nat

VARIABLES
  created,    \* jobs whose log names this executor
  assigned,   \* those the contract still counts against its capacity
  tasks,      \* handle_job tasks, in the order they were spawned
  free        \* Cgroups.free

vars == <<created, assigned, tasks, free>>

-----------------------------------------------------------------------------
TaskPc    == {"fetch", "config", "wait", "request", "blocked", "done"}
\* Where a task holds its cgroup, and where the deadline can drop it.
Holding   == {"config", "wait", "request", "blocked"}
Awaiting  == {"fetch", "config", "wait", "request"}
ProcState == {"none", "starting", "listening", "dying", "exited"}

\* "failed": a task sends one of the error codes 1 to 4 to the channel, or nothing.
Outcome == {"unset", "success", "failed"}

\* by: the task whose worker has answered.
Task == [job : Jobs, pc : TaskPc, cgroup : Cgroups \cup {NoCgroup},
         proc : ProcState, out : Outcome, by : Nat]

NewTask(j) == [job |-> j, pc |-> "fetch", cgroup |-> NoCgroup,
               proc |-> "none", out |-> "unset", by |-> 0]

TypeOK ==
  /\ created \subseteq Jobs /\ assigned \subseteq created
  /\ tasks \in Seq(Task)
  /\ free \in Seq(Cgroups)

Init ==
  /\ created = {} /\ assigned = {}
  /\ tasks = <<>>
  /\ free \in {f \in [1..Cardinality(Cgroups) -> Cgroups] :
                 /\ \A c \in Cgroups : \E k \in DOMAIN f : f[k] = c
                 /\ \A k, m \in DOMAIN f : f[k] = f[m] => k = m}

-----------------------------------------------------------------------------
(* The Jobs contract and the listener                                      *)

\* The contract selects an executor up to the capacity it registered with.
Assign(j) ==
  /\ j \notin created /\ Cardinality(assigned) < Cardinality(Cgroups)
  /\ created' = created \cup {j} /\ assigned' = assigned \cup {j}
  /\ UNCHANGED <<tasks, free>>

\* The contract accepts an output or, after the deadline and the buffer time,
\* gives up on it, whatever the enclave is doing.
Settle(j) ==
  /\ j \in assigned
  /\ assigned' = assigned \ {j}
  /\ UNCHANGED <<created, tasks, free>>

\* The listener takes the log: in time, late, or again after a reconnection.
Spawn(j) ==
  /\ j \in created /\ Len(tasks) < MaxTasks
  /\ tasks' = Append(tasks, NewTask(j))
  /\ UNCHANGED <<created, assigned, free>>

-----------------------------------------------------------------------------
(* handle_job                                                              *)

At(t, p) == t \in DOMAIN tasks /\ tasks[t].pc = p

ContractOnly == UNCHANGED <<created, assigned>>

\* The tasks whose worker holds the port of c.
PortHolders(c) ==
  {h \in DOMAIN tasks : /\ tasks[h].cgroup = c
                        /\ tasks[h].proc \in {"listening", "dying"}}

\* A worker that is killed before it listens never will.
Killed(p) == CASE p = "listening" -> "dying"
               [] p = "starting" -> "exited"
               [] OTHER -> p

\* Faulty variant: the worker is not killed.
Return_NoKill(t, o, h) ==
  /\ tasks' = [tasks EXCEPT ![t].pc = "done", ![t].out = o, ![t].by = h]
  /\ free' = IF tasks[t].cgroup = NoCgroup THEN free
             ELSE Append(free, tasks[t].cgroup)
  /\ ContractOnly

\* Faulty variant: only a task that has an output releases its cgroup.
Return_Leak(t, o, h) ==
  /\ tasks' = [tasks EXCEPT ![t].pc = "done", ![t].out = o, ![t].by = h,
                            ![t].proc = Killed(@)]
  /\ free' = IF tasks[t].cgroup = NoCgroup \/ o = "failed" THEN free
             ELSE Append(free, tasks[t].cgroup)
  /\ ContractOnly

\* execute_job returns or is dropped: its worker is killed, then its cgroup is
\* released.  handle_job removes the files, signs the output and sends it.
Return(t, o, h) ==
  /\ tasks' = [tasks EXCEPT ![t].pc = "done", ![t].out = o, ![t].by = h,
                            ![t].proc = Killed(@)]
  /\ free' = IF tasks[t].cgroup = NoCgroup THEN free
             ELSE Append(free, tasks[t].cgroup)
  /\ ContractOnly

\* The task goes on to p without touching the pool.
Advance(t, p, proc) ==
  /\ tasks' = [tasks EXCEPT ![t].pc = p, ![t].proc = proc]
  /\ UNCHANGED free
  /\ ContractOnly

\* free.swap_remove(0)
SwapRemoveFirst(f) ==
  [k \in 1..(Len(f) - 1) |-> IF k = 1 THEN f[Len(f)] ELSE f[k]]

\* Faulty variant: the cgroup stays in the list.
Reserve_Shared(t) ==
  /\ free # <<>>
  /\ tasks' = [tasks EXCEPT ![t].pc = "config", ![t].cgroup = free[1]]
  /\ UNCHANGED free
  /\ ContractOnly

Reserve(t) ==
  /\ free # <<>>
  /\ tasks' = [tasks EXCEPT ![t].pc = "config", ![t].cgroup = free[1]]
  /\ free' = SwapRemoveFirst(free)
  /\ ContractOnly

\* The code file is created and a cgroup reserved, if one is free.
Fetch(t) ==
  /\ At(t, "fetch")
  /\ Reserve(t) \/ (free = <<>> /\ Return(t, "failed", 0))

\* create_code_file fails: the transaction is not found, is not one of the code
\* contract, has malformed calldata, or the call or the file fails.
FetchErr(t) ==
  /\ At(t, "fetch")
  /\ Return(t, "failed", 0)

\* The config file is created and the worker started, or one of them fails.
Config(t) ==
  /\ At(t, "config")
  /\ Advance(t, "wait", "starting") \/ Return(t, "failed", 0)

\* wait_for_port: something accepts connections on the port within a second.
\* Otherwise the stderr of the worker is read to its end, which blocks the task,
\* and its thread, for as long as the worker lives.  What it says is lost if
\* the subtraction in retry_deadline then underflows.
WaitForPort(t) ==
  /\ At(t, "wait")
  /\ Advance(t, IF PortHolders(tasks[t].cgroup) # {} THEN "request" ELSE "blocked",
             tasks[t].proc)

ReadStderr(t) ==
  /\ At(t, "blocked") /\ tasks[t].proc = "exited"
  /\ Return(t, "failed", 0)

\* get_workerd_response: what listens on the port answers, or the call fails.
Request(t) ==
  /\ At(t, "request")
  /\ \/ \E h \in PortHolders(tasks[t].cgroup) :
          tasks[h].proc = "listening" /\ Return(t, "success", h)
     \/ Return(t, "failed", 0)

\* Faulty variant: the deadline does not cover the request to the worker.
Deadline_NotRequest(t) ==
  /\ t \in DOMAIN tasks /\ tasks[t].pc \in Awaiting \ {"request"}
  /\ Return(t, "failed", 0)

\* The user deadline drops execute_job at whatever it awaits.
Deadline(t) ==
  /\ t \in DOMAIN tasks /\ tasks[t].pc \in Awaiting
  /\ Return(t, "failed", 0)

-----------------------------------------------------------------------------
(* The worker processes                                                    *)

\* A worker binds its port, or exits if another process still holds it.
Bind(t) ==
  /\ t \in DOMAIN tasks /\ tasks[t].proc = "starting"
  /\ Advance(t, tasks[t].pc,
             IF PortHolders(tasks[t].cgroup) = {} THEN "listening" ELSE "exited")

\* A worker exits by itself, or what was killed is gone.
ProcExit(t) ==
  /\ t \in DOMAIN tasks /\ tasks[t].proc \in {"starting", "listening", "dying"}
  /\ Advance(t, tasks[t].pc, "exited")

-----------------------------------------------------------------------------
Step(t) ==
  \/ Fetch(t) \/ FetchErr(t) \/ Config(t) \/ WaitForPort(t) \/ ReadStderr(t)
  \/ Request(t) \/ Deadline(t) \/ Bind(t) \/ ProcExit(t)

Next ==
  \/ \E j \in Jobs : Assign(j) \/ Settle(j) \/ Spawn(j)
  \/ \E t \in DOMAIN tasks : Step(t)

\* The timer of a task fires, and reading the stderr of a dead process ends.
\* Nothing makes a worker answer, or exit.
Fairness ==
  \A t \in 1..MaxTasks : WF_vars(Deadline(t)) /\ WF_vars(ReadStderr(t))

Spec == Init /\ [][Next]_vars /\ Fairness

-----------------------------------------------------------------------------
(* Properties                                                              *)

Holders(c) == {t \in DOMAIN tasks : tasks[t].pc \in Holding /\ tasks[t].cgroup = c}
FreeAt(c)  == {k \in DOMAIN free : free[k] = c}

\* A cgroup is in the free list once and in no task's hands, or in the hands of
\* one task and not in the list: reserve and the defer! of execute_job lose none
\* and share none, on whatever path a task ends.
CgroupOwned ==
  \A c \in Cgroups :
    \/ Holders(c) = {} /\ \E k \in DOMAIN free : FreeAt(c) = {k}
    \/ FreeAt(c) = {} /\ \E t \in DOMAIN tasks : Holders(c) = {t}

\* A job finds a free cgroup as long as every job that is being executed still
\* counts against the capacity the contract respects, and is executed once.
ReserveSucceeds ==
  LET live == {t \in DOMAIN tasks : tasks[t].pc \in Holding \cup {"fetch"}}
  IN  /\ \A t \in live : tasks[t].job \in assigned
      /\ \A t, u \in live : tasks[t].job = tasks[u].job => t = u
      /\ \E t \in live : tasks[t].pc = "fetch"
      => free # <<>>

\* The output of a job is that of its own worker, although the port of a cgroup
\* passes from a killed worker to the next one without waiting for it.
OwnWorker == \A t \in DOMAIN tasks : tasks[t].out = "success" => tasks[t].by = t

\* A task that holds a cgroup gives it back, or is blocked by a live worker: the
\* deadline covers everything that execute_job awaits, and only that.
CgroupReturned ==
  \A t \in 1..MaxTasks :
    (t \in DOMAIN tasks /\ tasks[t].pc \in Holding)
    ~> At(t, "done") \/ (At(t, "blocked") /\ tasks[t].proc # "exited")
=============================================================================
