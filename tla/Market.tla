------------------------------ MODULE Market ------------------------------
(***************************************************************************)
(* How the control plane finds the jobs it has to manage: run, run_once    *)
(* and new_jobs of operator/control-plane/src/market.rs, against the RPC   *)
(* node as they use it.  Each connection subscribes, then reads a cutoff   *)
(* block number, then asks for the logs up to the cutoff, and chains them  *)
(* with the subscription's logs after it.  run skips as many items of the  *)
(* merged stream as earlier connections have spawned tasks for.            *)
(***************************************************************************)
EXTENDS Naturals, Sequences, FiniteSets, SequencesExt

CONSTANTS
  Jobs,         \* job ids
  MaxHeight,    \* bound: block number
  MaxReorgs,    \* bound: blocks taken back by the chain
  MaxDrops,     \* bound: lost connections
  MaxRestarts   \* bound: process restarts

ASSUME MarketAssumption ==
  /\ IsFiniteSet(Jobs)
  /\ MaxHeight \in Nat /\ MaxReorgs \in Nat
  /\ MaxDrops \in Nat /\ MaxRestarts \in Nat

VARIABLES
  height,     \* number of the newest block
  opened,     \* the JobOpened logs of the canonical chain, in order
  phase,      \* what the connection has done so far
  sub,        \* what the subscription has sent and nobody has read
  cutoff,     \* block number read after subscribing
  old,        \* logs up to the cutoff that have not been read
  skip,       \* items of the merged stream still to be skipped
  job_count,  \* run's job_count
  counted,    \* run_once's job_count
  spawned,    \* tasks spawned by this process, in order
  reorgs, drops, restarts

chainVars == <<height, opened, reorgs>>
connVars  == <<phase, cutoff, old, skip>>
taskVars  == <<job_count, counted, spawned>>
vars == <<chainVars, connVars, sub, taskVars, drops, restarts>>

Log == [job : Jobs, block : Nat, removed : BOOLEAN]
Phases == {"connect", "subscribed", "cut", "stream"}

TypeOK ==
  /\ height \in 0..MaxHeight
  /\ opened \in Seq(Log) /\ sub \in Seq(Log) /\ old \in Seq(Log)
  /\ phase \in Phases
  /\ cutoff \in 0..MaxHeight
  /\ skip \in 0..job_count
  /\ job_count \in Nat /\ counted \in Nat
  /\ Len(spawned) = job_count + counted
  /\ spawned \in Seq(Jobs)
  /\ reorgs \in 0..MaxReorgs /\ drops \in 0..MaxDrops
  /\ restarts \in 0..MaxRestarts

Init ==
  /\ height = 0 /\ opened = <<>> /\ reorgs = 0
  /\ phase = "connect" /\ cutoff = 0 /\ old = <<>> /\ skip = 0 /\ sub = <<>>
  /\ job_count = 0 /\ counted = 0 /\ spawned = <<>>
  /\ drops = 0 /\ restarts = 0

JobsOf(s)    == [k \in 1..Len(s) |-> s[k].job]
Subscribed   == phase # "connect"
Push(s)      == sub' = IF Subscribed THEN sub \o s ELSE sub

-----------------------------------------------------------------------------
(* The chain                                                               *)

\* A new block with up to two JobOpened logs of the provider.
Mine ==
  /\ height < MaxHeight
  /\ \E s \in SeqOf(Jobs \ Range(JobsOf(opened)), 2) :
       LET logs == [k \in 1..Len(s) |->
                      [job |-> s[k], block |-> height + 1, removed |-> FALSE]]
       IN  /\ IsInjective(s)
           /\ opened' = opened \o logs
           /\ Push(logs)
  /\ height' = height + 1
  /\ UNCHANGED <<reorgs, connVars, taskVars, drops, restarts>>

\* The newest block is taken back; the subscription reports its logs as
\* removed.
Reorg ==
  /\ reorgs < MaxReorgs
  /\ height > 0
  /\ LET gone == SelectSeq(opened, LAMBDA l : l.block = height)
     IN  Push([k \in 1..Len(gone) |-> [gone[k] EXCEPT !.removed = TRUE]])
  /\ opened' = SelectSeq(opened, LAMBDA l : l.block < height)
  /\ height' = height - 1
  /\ reorgs' = reorgs + 1
  /\ UNCHANGED <<connVars, taskVars, drops, restarts>>

-----------------------------------------------------------------------------
(* run and new_jobs                                                        *)

Subscribe ==
  /\ phase = "connect"
  /\ phase' = "subscribed"
  /\ sub' = <<>>
  /\ UNCHANGED <<chainVars, cutoff, old, skip, taskVars, drops, restarts>>

\* Faulty variant: only what was mined before the subscription is cut off.
GetBlockNumber_OneLess ==
  /\ phase = "subscribed"
  /\ phase' = "cut"
  /\ cutoff' = IF height > 0 THEN height - 1 ELSE 0
  /\ UNCHANGED <<chainVars, sub, old, skip, taskVars, drops, restarts>>

GetBlockNumber ==
  /\ phase = "subscribed"
  /\ phase' = "cut"
  /\ cutoff' = height
  /\ UNCHANGED <<chainVars, sub, old, skip, taskVars, drops, restarts>>

\* The first n logs are those of the blocks up to b: the chain has them in order.
AreUpTo(n, b) == \A k \in 1..Len(opened) : opened[k].block <= b <=> k <= n

\* Faulty variant: the stream is not skipped after a reconnect.
GetLogs_NoSkip ==
  /\ phase = "cut"
  /\ phase' = "stream"
  /\ \E n \in 0..Len(opened) : AreUpTo(n, cutoff) /\ old' = SubSeq(opened, 1, n)
  /\ skip' = 0
  /\ UNCHANGED <<chainVars, sub, cutoff, taskVars, drops, restarts>>

GetLogs ==
  /\ phase = "cut"
  /\ phase' = "stream"
  /\ \E n \in 0..Len(opened) : AreUpTo(n, cutoff) /\ old' = SubSeq(opened, 1, n)
  /\ skip' = job_count
  /\ UNCHANGED <<chainVars, sub, cutoff, taskVars, drops, restarts>>

\* run_once takes the next item: skipped, or a task is spawned for it whatever
\* its removed flag says.
Take(l) ==
  \/ /\ skip > 0
     /\ skip' = skip - 1
     /\ UNCHANGED taskVars
  \/ /\ skip = 0
     /\ spawned' = Append(spawned, l.job)
     /\ counted' = counted + 1
     /\ UNCHANGED <<skip, job_count>>

NextOld ==
  /\ phase = "stream" /\ old # <<>>
  /\ Take(Head(old))
  /\ old' = Tail(old)
  /\ UNCHANGED <<chainVars, phase, cutoff, sub, drops, restarts>>

NextNew ==
  /\ phase = "stream" /\ old = <<>> /\ sub # <<>>
  /\ \/ Head(sub).block > cutoff /\ Take(Head(sub))
     \/ Head(sub).block <= cutoff /\ UNCHANGED <<skip, taskVars>>
  /\ sub' = Tail(sub)
  /\ UNCHANGED <<chainVars, phase, cutoff, old, drops, restarts>>

\* A call of new_jobs fails, or the connection is lost and the stream ends:
\* after the logs up to the cutoff, which are in memory, and after any number of
\* the subscription's.  run_once's count is added to run's.
Drop ==
  /\ drops < MaxDrops
  /\ Subscribed /\ old = <<>>
  /\ drops' = drops + 1
  /\ job_count' = job_count + counted /\ counted' = 0
  /\ phase' = "connect" /\ cutoff' = 0 /\ skip' = 0
  /\ sub' = <<>>
  /\ UNCHANGED <<chainVars, old, spawned, restarts>>

\* The process restarts: its tasks and counts are gone.
Restart ==
  /\ restarts < MaxRestarts
  /\ restarts' = restarts + 1
  /\ phase' = "connect" /\ cutoff' = 0 /\ old' = <<>> /\ skip' = 0
  /\ sub' = <<>>
  /\ job_count' = 0 /\ counted' = 0 /\ spawned' = <<>>
  /\ UNCHANGED <<chainVars, drops>>

Client == Subscribe \/ GetBlockNumber \/ GetLogs \/ NextOld \/ NextNew

Next == Mine \/ Reorg \/ Client \/ Drop \/ Restart

\* The task runs and the node answers.
Spec == Init /\ [][Next]_vars /\ WF_vars(Client)

-----------------------------------------------------------------------------
(* Properties                                                              *)

\* The tasks are those of a prefix of the chain's jobs, one each and in order,
\* however the subscription, the cutoff, new blocks, lost connections and
\* restarts interleave, as long as the chain takes nothing back.
SpawnedIsPrefix == reorgs = 0 => IsPrefix(spawned, JobsOf(opened))

\* Every job of the chain gets its task, as long as the chain takes nothing
\* back.
AllSpawned ==
  \A j \in Jobs :
    j \in Range(JobsOf(opened)) ~> (j \in Range(spawned) \/ reorgs > 0)
=============================================================================
