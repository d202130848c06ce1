--------------------------- MODULE Market_proofs ---------------------------
(***************************************************************************)
(* Proofs about Market, for any number of jobs, blocks, lost connections   *)
(* and restarts: while the chain takes nothing back, the tasks are those   *)
(* of a prefix of its jobs.  And about Solvency: the timer of a job.       *)
(***************************************************************************)
EXTENDS Market, Solvency, SequenceTheorems, TLAPS

-----------------------------------------------------------------------------
(* The inductive invariant.  It speaks of a chain that has taken nothing   *)
(* back: a removed log ends what the positions below mean.                 *)

Types ==
  /\ opened \in Seq(Log) /\ sub \in Seq(Log) /\ old \in Seq(Log) /\ spawned \in Seq(Jobs)
  /\ height \in Nat /\ cutoff \in Nat /\ cutoff <= height
  /\ skip \in Nat /\ job_count \in Nat /\ counted \in Nat
  /\ phase \in Phases
  /\ \A k \in 1..Len(opened) : opened[k].block <= height

\* What is skipped has been spawned by an earlier connection.
Counts ==
  /\ Len(spawned) = job_count + counted
  /\ skip <= job_count
  /\ skip > 0 => counted = 0
  /\ phase # "stream" => skip = 0 /\ counted = 0 /\ old = <<>>

\* How many logs of the chain the subscription has let pass.
Passed == Len(opened) - Len(sub)

\* The subscription holds the last logs of the chain, and none up to the cutoff has been lost
\* before it.
Subscription ==
  Subscribed =>
    /\ Len(sub) <= Len(opened)
    /\ \A i \in 1..Len(sub) : sub[i] = opened[Passed + i]
    /\ phase = "cut" => \A k \in 1..Passed : opened[k].block <= cutoff

\* How many items of the merged stream have been taken, skipped or not.
Taken == job_count + counted - skip

\* The old logs are the rest of the first n; the merged stream goes on with the first log the
\* subscription has not let pass, or with log n + 1.
Position(n) ==
  /\ AreUpTo(n, cutoff)
  /\ Taken + Len(old) = IF Passed <= n THEN n ELSE Passed
  /\ \A i \in 1..Len(old) : old[i] = opened[Taken + i]
  /\ old # <<>> => Passed <= n

Merged == phase = "stream" => \E n \in 0..Len(opened) : Position(n)

\* The tasks are those of the first logs.
Prefix ==
  /\ Len(spawned) <= Len(opened)
  /\ \A i \in 1..Len(spawned) : spawned[i] = opened[i].job

Good == Types /\ Counts /\ Subscription /\ Merged /\ Prefix

IInv == reorgs \in Nat /\ (reorgs = 0 => Good)

-----------------------------------------------------------------------------
(* The steps of the chain                                                  *)

\* A sequence that grows at its end.
LEMMA Grown ==
  ASSUME NEW S, NEW s \in Seq(S), NEW t \in Seq(S)
  PROVE  /\ s \o t \in Seq(S) /\ Len(s \o t) = Len(s) + Len(t) /\ Len(s) \in Nat /\ Len(t) \in Nat
         /\ \A i \in 1..Len(s) : (s \o t)[i] = s[i]
         /\ \A i \in 1..Len(t) : (s \o t)[Len(s) + i] = t[i]
         /\ \A k \in 1..Len(s \o t) : k \in 1..Len(s) \/ \E i \in 1..Len(t) : k = Len(s) + i
<1>1. Len(s) \in Nat /\ Len(t) \in Nat
  OBVIOUS
<1>2. s \o t \in Seq(S) /\ Len(s \o t) = Len(s) + Len(t)
      /\ \A i \in 1..Len(s) + Len(t) : (s \o t)[i] = IF i <= Len(s) THEN s[i] ELSE t[i - Len(s)]
  BY ConcatProperties
<1> DEFINE c == s \o t  m == Len(s)  n == Len(t)
<1> HIDE DEF c, m, n
<1>3. m \in Nat /\ n \in Nat /\ Len(c) = m + n /\ \A i \in 1..m + n : c[i] = IF i <= m THEN s[i] ELSE t[i - m]
  BY <1>1, <1>2 DEF c, m, n
<1>4. \A i \in 1..m : c[i] = s[i]
  BY <1>3
<1>5. ASSUME NEW i \in 1..n PROVE c[m + i] = t[i]
  <2>1. m + i \in 1..m + n /\ ~(m + i <= m) /\ (m + i) - m = i
    BY <1>3
  <2> QED BY <2>1, <1>3
<1>6. ASSUME NEW k \in 1..Len(c) PROVE k \in 1..m \/ \E i \in 1..n : k = m + i
  <2>1. k \notin 1..m => k - m \in 1..n /\ k = m + (k - m)
    BY <1>3
  <2> QED BY <2>1
<1> QED BY <1>1, <1>2, <1>4, <1>5, <1>6 DEF c, m, n

\* A new block: its logs go to the end of the chain and, if there is one, of the subscription.
LEMMA MineKeeps ==
  ASSUME Good, Mine
  PROVE  Good'
<1> USE DEF Good
<1>1. PICK s \in SeqOf(Jobs \ Range(JobsOf(opened)), 2) :
        LET logs == [k \in 1..Len(s) |-> [job |-> s[k], block |-> height + 1, removed |-> FALSE]]
        IN  opened' = opened \o logs /\ Push(logs)
  BY DEF Mine
<1> DEFINE logs == [k \in 1..Len(s) |-> [job |-> s[k], block |-> height + 1, removed |-> FALSE]]
<1>2. height' = height + 1 /\ UNCHANGED <<reorgs, phase, cutoff, old, skip, job_count, counted, spawned>>
  BY DEF Mine, connVars, taskVars
<1>3. logs \in Seq(Log) /\ \A k \in 1..Len(logs) : logs[k].block = height + 1
  <2>1. PICK m \in 0..2 : s \in [1..m -> Jobs \ Range(JobsOf(opened))]
    BY DEF SeqOf
  <2>2. m \in Nat /\ Len(s) = m /\ \A k \in 1..m : s[k] \in Jobs
    BY <2>1
  <2> DEFINE e(k) == [job |-> s[k], block |-> height + 1, removed |-> FALSE]
  <2>3. \A k \in 1..m : e(k) \in Log /\ e(k).block = height + 1
    BY <2>2 DEF Log, Types
  <2> HIDE DEF e
  <2>4. logs = [k \in 1..m |-> e(k)]
    BY <2>2 DEF e
  <2> HIDE DEF logs
  <2> QED BY <2>2, <2>3, <2>4
<1>4. opened' = opened \o logs /\ sub' = IF Subscribed THEN sub \o logs ELSE sub
  BY <1>1 DEF Push
<1> HIDE DEF logs
<1> DEFINE N == Len(opened)  l == Len(logs)
<1>5. /\ opened' \in Seq(Log) /\ Len(opened') = N + l /\ N \in Nat /\ l \in Nat
      /\ \A i \in 1..N : opened'[i] = opened[i]
      /\ \A i \in 1..l : opened'[N + i] = logs[i]
      /\ \A k \in 1..Len(opened') : k \in 1..N \/ \E i \in 1..l : k = N + i
  BY <1>3, <1>4, Grown DEF Types
<1>6. height \in Nat /\ cutoff \in Nat /\ cutoff <= height /\ \A k \in 1..N : opened[k].block <= height
  BY DEF Types
<1>7. \A k \in 1..Len(opened') : IF k \in 1..N THEN opened'[k] = opened[k] /\ opened'[k].block <= height
                                              ELSE opened'[k].block = height + 1
  <2> TAKE k \in 1..Len(opened')
  <2>1. k \in 1..N => opened'[k] = opened[k] /\ opened'[k].block <= height
    BY <1>5, <1>6
  <2>2. ASSUME k \notin 1..N PROVE opened'[k].block = height + 1
    <3>1. PICK i \in 1..l : k = N + i
      BY <2>2, <1>5
    <3>2. opened'[k] = logs[i]
      BY <3>1, <1>5
    <3> QED BY <3>2, <1>3
  <2> QED BY <2>1, <2>2
<1>8. Types'
  <2>1. \A k \in 1..Len(opened') : opened'[k].block <= height + 1
    <3> TAKE k \in 1..Len(opened')
    <3>1. opened'[k].block \in Nat
      <4>1. opened'[k] \in Log
        BY <1>5, ElementOfSeq
      <4> QED BY <4>1 DEF Log
    <3>2. CASE k \in 1..N
      <4>1. opened'[k].block <= height
        BY <3>2, <1>7
      <4> QED BY <4>1, <3>1, <1>6
    <3>3. CASE k \notin 1..N
      <4>1. opened'[k].block = height + 1
        BY <3>3, <1>7
      <4> QED BY <4>1, <3>1
    <3> QED BY <3>2, <3>3
  <2>2. sub' \in Seq(Log)
    BY <1>3, <1>4, Grown DEF Types
  <2>3. height + 1 \in Nat /\ cutoff <= height + 1
    BY <1>6
  <2> QED BY <2>1, <2>2, <2>3, <1>2, <1>5 DEF Types
<1>9. Counts'
  BY <1>2 DEF Counts
<1>10. Prefix'
  <2>1. Len(spawned) \in Nat
    BY DEF Types
  <2>2. Len(spawned) <= N /\ \A i \in 1..Len(spawned) : spawned[i] = opened[i].job
    BY DEF Prefix
  <2> HIDE DEF Good
  <2>3. Len(spawned) <= Len(opened') /\ \A i \in 1..Len(spawned) : spawned[i] = opened'[i].job
    BY <2>1, <2>2, <1>5
  <2> QED BY <2>3, <1>2 DEF Prefix
<1>11. ASSUME Subscribed
       PROVE  /\ Len(sub') = Len(sub) + l /\ Len(sub) \in Nat /\ Passed' = Passed /\ Passed \in Nat /\ Passed <= N
              /\ Len(sub') <= Len(opened')
              /\ \A i \in 1..Len(sub') : sub'[i] = opened'[Passed + i]
  <2>1. /\ Len(sub') = Len(sub) + l /\ Len(sub) \in Nat
        /\ \A i \in 1..Len(sub) : sub'[i] = sub[i]
        /\ \A i \in 1..l : sub'[Len(sub) + i] = logs[i]
        /\ \A k \in 1..Len(sub') : k \in 1..Len(sub) \/ \E i \in 1..l : k = Len(sub) + i
    BY <1>3, <1>4, <1>11, Grown DEF Types
  <2>2. Len(sub) <= N /\ \A i \in 1..Len(sub) : sub[i] = opened[Passed + i]
    BY <1>11 DEF Subscription
  <2>3. Passed' = Passed /\ Passed \in Nat /\ Passed <= N /\ Passed + Len(sub) = N /\ Len(sub') <= Len(opened')
    BY <2>1, <2>2, <1>5 DEF Passed
  <2>4. ASSUME NEW i \in 1..Len(sub) PROVE sub'[i] = opened'[Passed + i]
    <3>1. Passed + i \in 1..N
      BY <2>1, <2>3, <1>5
    <3> QED BY <3>1, <2>1, <2>2, <1>5
  <2>5. ASSUME NEW i \in 1..l PROVE sub'[Len(sub) + i] = opened'[Passed + (Len(sub) + i)]
    <3>1. \A a, b, c \in Nat : a + b = c => a + (b + i) = c + i
      BY <1>5
    <3>2. Passed + (Len(sub) + i) = N + i
      BY <3>1, <2>1, <2>3, <1>5
    <3> QED BY <3>2, <2>1, <1>5
  <2> QED BY <2>1, <2>3, <2>4, <2>5, ZenonT(60)
<1>12. Subscription'
  <2>1. Subscribed' = Subscribed
    BY <1>2 DEF Subscribed
  <2>2. ASSUME Subscribed, phase = "cut" PROVE \A k \in 1..Passed : opened'[k].block <= cutoff
    <3>1. \A k \in 1..Passed : k \in 1..N
      BY <1>5, <1>11, <2>2
    <3> QED BY <3>1, <2>2, <1>5 DEF Subscription
  <2> QED BY <2>1, <2>2, <1>2, <1>11 DEF Subscription
<1>13. Merged'
  <2> SUFFICES ASSUME phase = "stream" PROVE \E n \in 0..Len(opened') : Position(n)'
    BY <1>2 DEF Merged
  <2>1. PICK n \in 0..N : Position(n)
    BY DEF Merged
  <2>2. Subscribed
    BY DEF Subscribed
  <2>3. Taken' = Taken /\ Taken \in Int /\ Len(old) \in Nat /\ old' = old /\ Passed' = Passed /\ Passed <= N
    BY <2>2, <1>2, <1>11 DEF Taken, Types
  <2>4. AreUpTo(n, cutoff)'
    <3>1. ASSUME NEW k \in 1..Len(opened') PROVE opened'[k].block <= cutoff <=> k <= n
      <4>1. CASE k \in 1..N
        BY <4>1, <2>1, <1>5 DEF Position, AreUpTo
      <4>2. CASE k \notin 1..N
        <5>1. opened'[k].block = height + 1
          BY <4>2, <1>7
        <5>2. ~(height + 1 <= cutoff)
          BY <1>6
        <5>3. ~(k <= n)
          BY <4>2, <1>5
        <5> QED BY <5>1, <5>2, <5>3
      <4> QED BY <4>1, <4>2
    <3> QED BY <3>1, <1>2 DEF AreUpTo
  <2>5. \A i \in 1..Len(old) : old[i] = opened'[Taken + i]
    <3> TAKE i \in 1..Len(old)
    <3>1. Taken + i <= N
      BY <2>1, <2>3, <1>5, <1>11, <2>2 DEF Position
    <3>2. Taken + i \in 1..N
      <4>1. Taken >= 0
        BY DEF Counts, Types, Taken
      <4> QED BY <4>1, <3>1, <2>3, <1>5
    <3> QED BY <3>2, <2>1, <1>5 DEF Position
  <2>6. Position(n)'
    BY <2>1, <2>3, <2>4, <2>5 DEF Position
  <2>7. n \in 0..Len(opened')
    BY <1>5
  <2> QED BY <2>6, <2>7
<1> QED BY <1>8, <1>9, <1>10, <1>12, <1>13
-----------------------------------------------------------------------------
(* The connection                                                          *)

\* Subscribing, reading the cutoff, and the end of a connection or of the process.
LEMMA ConnectionKeeps ==
  ASSUME Good, Subscribe \/ GetBlockNumber \/ Drop \/ Restart
  PROVE  Good'
<1> USE DEF Good
<1>0. Len(opened) \in Nat /\ Len(<<>>) = 0 /\ <<>> \in Seq(Log) /\ <<>> \in Seq(Jobs)
  BY DEF Types
<1>1. CASE Subscribe
  <2>1. phase = "connect" /\ phase' = "subscribed" /\ sub' = <<>>
        /\ UNCHANGED <<height, opened, reorgs, cutoff, old, skip, job_count, counted, spawned>>
    BY <1>1 DEF Subscribe, chainVars, taskVars
  <2>2. Types' /\ Counts' /\ Merged' /\ Prefix'
    BY <2>1, <1>0 DEF Types, Counts, Merged, Prefix, Phases
  <2>3. Subscription'
    BY <2>1, <1>0 DEF Subscription
  <2> QED BY <2>2, <2>3
<1>2. CASE GetBlockNumber
  <2>1. phase = "subscribed" /\ phase' = "cut" /\ cutoff' = height
        /\ UNCHANGED <<height, opened, reorgs, sub, old, skip, job_count, counted, spawned>>
    BY <1>2 DEF GetBlockNumber, chainVars, taskVars
  <2>2. Types' /\ Counts' /\ Merged' /\ Prefix'
    BY <2>1 DEF Types, Counts, Merged, Prefix, Phases
  <2>3. Subscription'
    <3>1. Len(sub) \in Nat /\ Subscribed /\ Passed' = Passed
      BY <2>1 DEF Types, Subscribed, Passed
    <3>2. \A k \in 1..Passed : k \in 1..Len(opened)
      BY <3>1, <1>0 DEF Subscription, Passed
    <3>3. \A k \in 1..Passed : opened[k].block <= height
      BY <3>2 DEF Types
    <3> QED BY <2>1, <3>1, <3>3 DEF Subscription
  <2> QED BY <2>2, <2>3
<1>3. CASE Drop
  <2>1. phase' = "connect" /\ cutoff' = 0 /\ skip' = 0 /\ sub' = <<>> /\ old = <<>>
        /\ job_count' = job_count + counted /\ counted' = 0
        /\ UNCHANGED <<height, opened, reorgs, old, spawned>>
    BY <1>3 DEF Drop, chainVars
  <2>2. Types'
    BY <2>1, <1>0 DEF Types, Phases
  <2>3. Counts'
    BY <2>1 DEF Counts, Types
  <2>4. Merged' /\ Prefix' /\ Subscription'
    BY <2>1 DEF Merged, Prefix, Subscription, Subscribed
  <2> QED BY <2>2, <2>3, <2>4
<1>4. CASE Restart
  <2>1. phase' = "connect" /\ cutoff' = 0 /\ skip' = 0 /\ sub' = <<>> /\ old' = <<>>
        /\ job_count' = 0 /\ counted' = 0 /\ spawned' = <<>>
        /\ UNCHANGED <<height, opened, reorgs>>
    BY <1>4 DEF Restart, chainVars
  <2>2. Types'
    BY <2>1, <1>0 DEF Types, Phases
  <2>3. Counts'
    BY <2>1, <1>0 DEF Counts
  <2>4. Merged' /\ Prefix' /\ Subscription'
    BY <2>1, <1>0 DEF Merged, Prefix, Subscription, Subscribed
  <2> QED BY <2>2, <2>3, <2>4
<1> QED BY <1>1, <1>2, <1>3, <1>4

\* The logs up to the cutoff, chained with what the subscription has after it.
LEMMA GetLogsKeeps ==
  ASSUME Good, GetLogs
  PROVE  Good'
<1> USE DEF Good
<1>1. phase = "cut" /\ phase' = "stream" /\ skip' = job_count
      /\ UNCHANGED <<height, opened, reorgs, sub, cutoff, job_count, counted, spawned>>
  BY DEF GetLogs, chainVars, taskVars
<1>2. PICK n \in 0..Len(opened) : AreUpTo(n, cutoff) /\ old' = SubSeq(opened, 1, n)
  BY DEF GetLogs
<1>3. Len(opened) \in Nat /\ opened \in Seq(Log) /\ Len(sub) \in Nat /\ n \in Nat /\ n <= Len(opened)
  BY DEF Types
<1>4. old' \in Seq(Log) /\ Len(old') = n /\ \A i \in 1..n : old'[i] = opened[i]
  <2>1. \A i \in 1..n : opened[i] \in Log
    BY <1>3
  <2> QED BY <2>1, <1>2, <1>3, SubSeqProperties
<1>5. counted = 0 /\ skip = 0 /\ job_count \in Nat
  BY <1>1 DEF Counts, Types
<1>6. Types' /\ Prefix'
  BY <1>1, <1>4, <1>5 DEF Types, Prefix, Phases
<1>7. Counts'
  BY <1>1, <1>5 DEF Counts
<1>8. Subscription'
  <2>1. Passed' = Passed /\ Subscribed
    BY <1>1 DEF Passed, Subscribed
  <2> QED BY <1>1, <2>1 DEF Subscription
<1>9. Passed \in Int /\ Passed <= n
  <2>1. Passed \in Int /\ Passed <= Len(opened) /\ \A k \in 1..Passed : opened[k].block <= cutoff
    BY <1>1, <1>3 DEF Subscription, Subscribed, Passed
  <2>2. Passed >= 1 => Passed \in 1..Len(opened) /\ Passed \in 1..Passed
    BY <2>1, <1>3
  <2>3. Passed >= 1 => Passed <= n
    BY <2>1, <2>2, <1>2 DEF AreUpTo
  <2> QED BY <2>1, <2>3, <1>3
<1>10. Merged'
  <2>1. Taken' = 0 /\ Passed' = Passed /\ AreUpTo(n, cutoff)'
    BY <1>1, <1>2, <1>5 DEF Taken, Passed, AreUpTo
  <2>2. \A i \in 1..Len(old') : old'[i] = opened'[Taken' + i]
    <3>1. \A i \in 1..n : 0 + i = i
      BY <1>3
    <3> QED BY <3>1, <2>1, <1>1, <1>4
  <2>3. Position(n)'
    <3>1. Taken' + Len(old') = n /\ Passed' <= n
      BY <2>1, <1>3, <1>4, <1>9
    <3> QED BY <3>1, <2>1, <2>2 DEF Position
  <2> QED BY <2>3, <1>1, <1>2 DEF Merged
<1> QED BY <1>6, <1>7, <1>8, <1>10

\* What is left of a sequence when its head is taken.
LEMMA Popped ==
  ASSUME NEW S, NEW s \in Seq(S), s # <<>>
  PROVE  /\ Head(s) = s[1] /\ Head(s) \in S /\ Tail(s) \in Seq(S) /\ Len(s) \in Nat /\ Len(s) >= 1
         /\ Len(Tail(s)) = Len(s) - 1 /\ \A i \in 1..Len(Tail(s)) : Tail(s)[i] = s[i + 1]
<1>1. Len(s) \in Nat \ {0}
  BY EmptySeq
<1> QED BY <1>1, HeadTailProperties

\* run_once takes the log the merged stream has next: if it is spawned for, it is the one
\* behind those that have their task already.
LEMMA TakeKeeps ==
  ASSUME Types, Counts, Prefix, phase = "stream", NEW x, Take(x),
         Taken + 1 \in 1..Len(opened), x = opened[Taken + 1],
         UNCHANGED <<opened, phase>>, old' \in Seq(Log)
  PROVE  /\ Taken' = Taken + 1 /\ Taken \in Nat
         /\ spawned' \in Seq(Jobs) /\ skip' \in Nat /\ job_count' \in Nat /\ counted' \in Nat
         /\ Counts' /\ Prefix'
<1>1. skip \in Nat /\ job_count \in Nat /\ counted \in Nat /\ skip <= job_count /\ opened \in Seq(Log) /\ Len(opened) \in Nat
      /\ spawned \in Seq(Jobs) /\ Len(spawned) \in Nat /\ Len(spawned) = job_count + counted
  BY DEF Types, Counts
<1>2. Taken \in Nat
  BY <1>1 DEF Taken
<1>3. CASE skip > 0 /\ skip' = skip - 1 /\ UNCHANGED taskVars
  <2>1. UNCHANGED <<job_count, counted, spawned>>
    BY <1>3 DEF taskVars
  <2>2. Taken' = Taken + 1 /\ skip' \in Nat
    BY <1>1, <1>3, <2>1 DEF Taken
  <2>3. Counts'
    BY <1>1, <1>3, <2>1 DEF Counts
  <2>4. Prefix'
    BY <2>1 DEF Prefix
  <2> QED BY <1>1, <1>2, <2>1, <2>2, <2>3, <2>4
<1>4. CASE skip = 0 /\ spawned' = Append(spawned, x.job) /\ counted' = counted + 1 /\ UNCHANGED <<skip, job_count>>
  <2>1. Taken' = Taken + 1 /\ Taken = Len(spawned) /\ counted' \in Nat
    BY <1>1, <1>4 DEF Taken
  <2>2. x.job \in Jobs
    <3>1. x \in Log
      BY <1>1, ElementOfSeq
    <3> QED BY <3>1 DEF Log
  <2>3. /\ spawned' \in Seq(Jobs) /\ Len(spawned') = Len(spawned) + 1
        /\ \A i \in 1..Len(spawned) : spawned'[i] = spawned[i]
        /\ spawned'[Len(spawned) + 1] = x.job
    <3>1. ASSUME NEW t \in Seq(Jobs), NEW e \in Jobs
          PROVE  /\ Append(t, e) \in Seq(Jobs) /\ Len(Append(t, e)) = Len(t) + 1
                 /\ \A i \in 1..Len(t) : Append(t, e)[i] = t[i]
                 /\ Append(t, e)[Len(t) + 1] = e
      BY AppendProperties
    <3>2. spawned' = Append(spawned, x.job)
      BY <1>4
    <3> QED BY <1>1, <3>1, <3>2, <2>2, Zenon
  <2>4. Counts'
    BY <1>1, <1>4, <2>3 DEF Counts
  <2>5. Prefix'
    <3>1. Len(spawned') <= Len(opened)
      BY <1>1, <2>1, <2>3
    <3>2. ASSUME NEW i \in 1..Len(spawned') PROVE spawned'[i] = opened[i].job
      <4>1. i \in 1..Len(spawned) \/ i = Len(spawned) + 1
        BY <1>1, <2>3
      <4>2. CASE i \in 1..Len(spawned)
        BY <4>2, <2>3 DEF Prefix
      <4>3. CASE i = Len(spawned) + 1
        <5>1. Taken + 1 = i
          BY <4>3, <2>1
        <5>2. x = opened[i]
          BY <5>1
        <5>3. spawned'[i] = x.job
          BY <4>3, <2>3
        <5> QED BY <5>2, <5>3
      <4> QED BY <4>1, <4>2, <4>3
    <3> QED BY <3>1, <3>2 DEF Prefix
  <2> QED BY <1>1, <1>2, <1>4, <2>1, <2>3, <2>4, <2>5
<1> QED BY <1>3, <1>4 DEF Take

\* An item of the old logs.
LEMMA NextOldKeeps ==
  ASSUME Good, NextOld
  PROVE  Good'
<1> USE DEF Good
<1>1. phase = "stream" /\ old # <<>> /\ Take(Head(old)) /\ old' = Tail(old)
      /\ UNCHANGED <<height, opened, reorgs, phase, cutoff, sub>>
  BY DEF NextOld, chainVars
<1>2. /\ Head(old) = old[1] /\ old' \in Seq(Log) /\ Len(old) \in Nat /\ Len(old) >= 1
      /\ Len(old') = Len(old) - 1 /\ \A i \in 1..Len(old') : old'[i] = old[i + 1]
  BY <1>1, Popped DEF Types
<1>3. PICK n \in 0..Len(opened) : Position(n)
  BY <1>1 DEF Merged
<1>4. Len(opened) \in Nat /\ Taken \in Nat /\ Len(sub) \in Nat /\ Passed \in Int /\ Passed' = Passed
  BY <1>1 DEF Types, Counts, Taken, Passed
<1>5. Taken + Len(old) = n /\ Passed <= n /\ \A i \in 1..Len(old) : old[i] = opened[Taken + i]
  BY <1>1, <1>3 DEF Position
<1>6. Taken + 1 \in 1..Len(opened) /\ Head(old) = opened[Taken + 1]
  BY <1>2, <1>4, <1>5
<1>7. /\ Taken' = Taken + 1
      /\ spawned' \in Seq(Jobs) /\ skip' \in Nat /\ job_count' \in Nat /\ counted' \in Nat
      /\ Counts' /\ Prefix'
  BY <1>1, <1>2, <1>6, TakeKeeps
<1>8. Types'
  BY <1>1, <1>2, <1>7 DEF Types
<1>9. Subscription'
  BY <1>1, <1>4 DEF Subscription, Subscribed
<1>10. Merged'
  <2>1. Taken' + Len(old') = n
    <3>1. (Taken + 1) + (Len(old) - 1) = n
      <4>1. \A a, b \in Nat : (a + 1) + (b - 1) = a + b
        OBVIOUS
      <4> QED BY <4>1, <1>2, <1>4, <1>5
    <3> QED BY <3>1, <1>2, <1>7, Zenon
  <2>2. ASSUME NEW i \in 1..Len(old') PROVE old'[i] = opened[Taken' + i]
    <3>1. i + 1 \in 1..Len(old) /\ Taken + (i + 1) = Taken' + i
      BY <1>2, <1>4, <1>7, SMTT(30)
    <3> QED BY <3>1, <1>2, <1>5
  <2>3. AreUpTo(n, cutoff)'
    BY <1>1, <1>3 DEF Position, AreUpTo
  <2>4. Position(n)'
    BY <2>1, <2>2, <2>3, <1>1, <1>4, <1>5 DEF Position
  <2> QED BY <2>4, <1>1 DEF Merged
<1> QED BY <1>7, <1>8, <1>9, <1>10

\* An item of the subscription, which is dropped if it is not after the cutoff.
LEMMA NextNewKeeps ==
  ASSUME Good, NextNew
  PROVE  Good'
<1> USE DEF Good
<1>1. phase = "stream" /\ old = <<>> /\ sub # <<>> /\ sub' = Tail(sub)
      /\ UNCHANGED <<height, opened, reorgs, phase, cutoff, old>>
  BY DEF NextNew, chainVars
<1>2. /\ Head(sub) = sub[1] /\ sub' \in Seq(Log) /\ Len(sub) \in Nat /\ Len(sub) >= 1
      /\ Len(sub') = Len(sub) - 1 /\ \A i \in 1..Len(sub') : sub'[i] = sub[i + 1]
  BY <1>1, Popped DEF Types
<1>3. PICK n \in 0..Len(opened) : Position(n)
  BY <1>1 DEF Merged
<1>4. Len(opened) \in Nat /\ Taken \in Nat /\ Len(old) = 0 /\ old \in Seq(Log) /\ n \in Nat
  BY <1>1 DEF Types, Counts, Taken
<1>5. Len(sub) <= Len(opened) /\ \A i \in 1..Len(sub) : sub[i] = opened[Passed + i]
  BY <1>1 DEF Subscription, Subscribed
<1>6. Passed \in Nat /\ Passed + Len(sub) = Len(opened) /\ Passed' = Passed + 1 /\ Passed + 1 \in 1..Len(opened)
  BY <1>1, <1>2, <1>4, <1>5 DEF Passed
<1>7. Head(sub) = opened[Passed + 1]
  BY <1>2, <1>5
<1>8. Taken = IF Passed <= n THEN n ELSE Passed
  BY <1>3, <1>4 DEF Position
<1>9. Subscription'
  <2>1. ASSUME NEW i \in 1..Len(sub') PROVE sub'[i] = opened[Passed' + i]
    <3>1. i + 1 \in 1..Len(sub)
      BY <1>2
    <3>2. Passed + (i + 1) = (Passed + 1) + i
      BY <1>2, <1>6
    <3>3. Passed + (i + 1) = Passed' + i
      BY <3>2, <1>6, Zenon
    <3> QED BY <3>1, <3>3, <1>2, <1>5
  <2>2. Len(sub') <= Len(opened)
    BY <1>2, <1>4, <1>5
  <2> QED BY <2>1, <2>2, <1>1 DEF Subscription
<1>10. AreUpTo(n, cutoff) /\ AreUpTo(n, cutoff)'
  BY <1>1, <1>3 DEF Position, AreUpTo
<1>11. ASSUME Taken' = IF Passed' <= n THEN n ELSE Passed' PROVE Merged'
  <2>1. Taken' + Len(old') = (IF Passed' <= n THEN n ELSE Passed') /\ old' = <<>> /\ Len(old') = 0
    BY <1>1, <1>4, <1>6, <1>11
  <2>2. Position(n)'
    BY <2>1, <1>10 DEF Position
  <2> QED BY <2>2, <1>1 DEF Merged
<1>12. CASE Head(sub).block > cutoff /\ Take(Head(sub))
  <2>1. Passed >= n
    <3>1. opened[Passed + 1].block \in Nat
      <4>1. opened[Passed + 1] \in Log
        BY <1>6, ElementOfSeq DEF Types
      <4> QED BY <4>1 DEF Log
    <3>2. ~(opened[Passed + 1].block <= cutoff)
      BY <3>1, <1>7, <1>12 DEF Types
    <3>3. ~(Passed + 1 <= n)
      BY <3>2, <1>6, <1>10 DEF AreUpTo
    <3> QED BY <3>3, <1>4, <1>6
  <2>2. Taken = Passed
    BY <2>1, <1>4, <1>6, <1>8
  <2>3. Taken + 1 \in 1..Len(opened) /\ Head(sub) = opened[Taken + 1]
    BY <2>2, <1>6, <1>7
  <2>4. /\ Taken' = Taken + 1
        /\ spawned' \in Seq(Jobs) /\ skip' \in Nat /\ job_count' \in Nat /\ counted' \in Nat
        /\ Counts' /\ Prefix'
    BY <1>1, <1>4, <1>12, <2>3, TakeKeeps
  <2>5. Types'
    BY <2>4, <1>1, <1>2 DEF Types
  <2>6. Merged'
    BY <2>1, <2>2, <2>4, <1>4, <1>6, <1>11
  <2> QED BY <2>4, <2>5, <2>6, <1>9
<1>13. CASE Head(sub).block <= cutoff /\ UNCHANGED <<skip, taskVars>>
  <2>1. UNCHANGED <<skip, job_count, counted, spawned>>
    BY <1>13 DEF taskVars
  <2>2. Passed + 1 <= n
    BY <1>6, <1>7, <1>10, <1>13 DEF AreUpTo
  <2>3. Taken' = Taken
    BY <2>1 DEF Taken
  <2>4. Merged'
    BY <2>2, <2>3, <1>4, <1>6, <1>8, <1>11
  <2>5. Types' /\ Counts' /\ Prefix'
    BY <2>1, <1>1, <1>2 DEF Types, Counts, Prefix
  <2> QED BY <2>4, <2>5, <1>9
<1> QED BY <1>12, <1>13 DEF NextNew

-----------------------------------------------------------------------------
(* The theorems                                                            *)

\* The invariant holds of every behaviour: a chain that takes something back falls outside it.
THEOREM Invariance == Spec => []IInv
<1>1. Init => IInv
  <2> SUFFICES ASSUME Init PROVE IInv
    OBVIOUS
  <2>1. opened = <<>> /\ sub = <<>> /\ old = <<>> /\ spawned = <<>> /\ height = 0 /\ cutoff = 0 /\ skip = 0
        /\ job_count = 0 /\ counted = 0 /\ phase = "connect" /\ reorgs = 0
    BY DEF Init
  <2>2. Len(opened) = 0 /\ Len(spawned) = 0 /\ opened \in Seq(Log) /\ sub \in Seq(Log) /\ old \in Seq(Log) /\ spawned \in Seq(Jobs)
    BY <2>1
  <2>3. Types /\ Counts /\ Prefix
    BY <2>1, <2>2 DEF Types, Counts, Prefix, Phases
  <2>4. Subscription /\ Merged
    BY <2>1 DEF Subscription, Subscribed, Merged
  <2> QED BY <2>1, <2>3, <2>4 DEF IInv, Good
<1>2. IInv /\ [Next]_vars => IInv'
  <2> SUFFICES ASSUME IInv, [Next]_vars PROVE IInv'
    OBVIOUS
  <2>1. CASE Reorg
    <3>1. reorgs' = reorgs + 1 /\ reorgs \in Nat
      BY <2>1 DEF Reorg, IInv
    <3>2. reorgs' \in Nat /\ reorgs' # 0
      BY <3>1
    <3> QED BY <3>2 DEF IInv
  <2>2. CASE Mine \/ Client \/ Drop \/ Restart
    <3>1. reorgs' = reorgs
      BY <2>2 DEF Mine, Client, Subscribe, GetBlockNumber, GetLogs, NextOld, NextNew, Drop, Restart, chainVars
    <3>2. Good => Good'
      BY <2>2, MineKeeps, ConnectionKeeps, GetLogsKeeps, NextOldKeeps, NextNewKeeps DEF Client
    <3> QED BY <3>1, <3>2 DEF IInv
  <2>3. CASE UNCHANGED vars
    BY <2>3 DEF vars, chainVars, connVars, taskVars, IInv, Good, Types, Counts, Subscription, Merged, Prefix, Position,
                AreUpTo, Passed, Taken, Subscribed
  <2> QED BY <2>1, <2>2, <2>3 DEF Next
<1> QED BY <1>1, <1>2, PTL DEF Spec

\* However the subscription, the cutoff, new blocks, lost connections and restarts interleave,
\* the process has one task for each job of a prefix of the chain's, in order, as long as the
\* chain takes nothing back (run, run_once and new_jobs together).
THEOREM TasksFollowTheChain == Spec => []SpawnedIsPrefix
<1>1. ASSUME IInv PROVE SpawnedIsPrefix
  <2> SUFFICES ASSUME reorgs = 0 PROVE IsPrefix(spawned, JobsOf(opened))
    BY DEF SpawnedIsPrefix
  <2>1. Types /\ Prefix
    BY <1>1 DEF IInv, Good
  <2> DEFINE t == JobsOf(opened)  m == Len(spawned)
  <2>2. spawned \in Seq(Jobs) /\ opened \in Seq(Log) /\ Len(opened) \in Nat /\ m \in Nat
    BY <2>1 DEF Types
  <2>3. Len(t) = Len(opened) /\ \A i \in 1..Len(opened) : t[i] = opened[i].job
    BY <2>2 DEF JobsOf
  <2> HIDE DEF t
  <2>4. m <= Len(t) /\ \A i \in 1..m : t[i] = spawned[i] /\ spawned[i] \in Jobs
    BY <2>1, <2>2, <2>3 DEF Prefix
  <2>5. SubSeq(spawned, 1, m) = SubSeq(t, 1, m)
    <3>1. \A i \in 1..m : t[i] \in Jobs
      BY <2>4
    <3>2. SubSeq(t, 1, m) \in Seq(Jobs) /\ Len(SubSeq(t, 1, m)) = m /\ \A i \in 1..m : SubSeq(t, 1, m)[i] = t[i]
      BY <3>1, <2>2, SubSeqProperties
    <3>3. SubSeq(spawned, 1, m) = spawned
      BY <2>2, SubSeqFull
    <3> QED BY <3>2, <3>3, <2>2, <2>4, SeqEqual
  <2> QED BY <2>4, <2>5 DEF IsPrefix, t
<1> QED BY <1>1, Invariance, PTL

-----------------------------------------------------------------------------
(* The insolvency timer, for every scale, margin, width, set of rates and  *)
(* amounts, and bound that SolvencyAssumption allows.                      *)

\* What integer division leaves out is less than the divisor.
LEMMA DivBounds ==
  ASSUME NEW a \in Nat, NEW r \in Nat, r > 0
  PROVE  /\ a \div r \in Nat
         /\ r * (a \div r) <= a
         /\ a < r * ((a \div r) + 1)
BY SMT

\* Scaling a balance may wrap: what is left is never more than the true
\* product, and is the product when that has room.
LEMMA Wrapping ==
  ASSUME NEW b \in Nat
  PROVE  /\ b * Scale \in Nat
         /\ (b * Scale) % U256 \in 0..(b * Scale)
         /\ b * Scale < U256 => (b * Scale) % U256 = b * Scale
<1>1. b * Scale \in Nat
  BY SolvencyAssumption, SMT
<1> DEFINE a == b * Scale
<1> HIDE DEF a
<1>2. a \in Nat => a % U256 \in 0..a /\ (a < U256 => a % U256 = a)
  BY SolvencyAssumption, SMT
<1> QED
  BY <1>1, <1>2 DEF a

\* Products are monotone.
LEMMA MulMono ==
  ASSUME NEW r \in Nat, NEW x \in Nat, NEW y \in Nat, x <= y
  PROVE  r * x <= r * y
BY SMT

-----------------------------------------------------------------------------
(* The two sides of insolvency_duration                                    *)

\* While the timer has not expired, the next second and the margin are paid.
LEMMA NotDueIsPaid ==
  ASSUME TimerTypeOK, rate # 0, insolvency_duration # 0
  PROVE  rate * (now + 1 - last_settled + Margin) <= balance * Scale
<1> DEFINE w == (balance * Scale) % U256
           q == w \div rate
           e == now - last_settled
<1>1. /\ rate \in Nat /\ rate > 0 /\ Margin \in Nat /\ U64 \in Nat
      /\ now \in Nat /\ last_settled \in Nat /\ e \in Nat
      /\ SatSub(now, last_settled) = e
  BY SolvencyAssumption, SMT DEF TimerTypeOK, SatSub
<1>2. balance * Scale \in Nat /\ w \in Nat /\ w <= balance * Scale
  BY Wrapping DEF TimerTypeOK
<1>3. q \in Nat /\ rate * q <= w
  <2> HIDE DEF w
  <2> QED BY <1>1, <1>2, DivBounds
<1>4. SatU64(q) \in 0..q
  <2> HIDE DEF q
  <2> QED BY <1>1, <1>3, SolvencyAssumption, SMT DEF SatU64
<1>5. insolvency_duration = SatSub(SatSub(SatU64(q), Margin), e)
  BY <1>1, <1>2 DEF insolvency_duration
<1>6. e + 1 + Margin <= q
  <2> HIDE DEF q, e
  <2> QED BY <1>1, <1>3, <1>4, <1>5, SMT DEF SatSub
<1>7. rate * (e + 1 + Margin) <= rate * q
  <2> HIDE DEF q, e
  <2>1. e + 1 + Margin \in Nat
    BY <1>1, SMT
  <2> QED BY <1>1, <1>3, <1>6, <2>1, MulMono
<1>8. now + 1 - last_settled + Margin = e + 1 + Margin
  BY <1>1, SMT
<1>9. rate * (e + 1 + Margin) \in Nat /\ rate * q \in Nat
  <2> HIDE DEF q, e
  <2> QED BY <1>1, <1>3, SMT
<1> HIDE DEF w, q, e
<1> QED
  BY <1>2, <1>3, <1>7, <1>8, <1>9, SMT

\* Once it has expired, less than the margin and one second is paid, unless
\* the product wraps.
LEMMA DueIsShort ==
  ASSUME TimerTypeOK, rate # 0, insolvency_duration = 0,
         balance * Scale < U256
  PROVE  balance * Scale < rate * (now - last_settled + Margin + 1)
<1> DEFINE q == (balance * Scale) \div rate
           e == now - last_settled
<1>1. /\ rate \in Nat /\ rate > 0 /\ Margin \in Nat /\ U64 \in Nat
      /\ now \in Nat /\ last_settled \in Nat /\ e \in Nat /\ e <= MaxTime
      /\ MaxTime \in Nat /\ MaxTime + Margin + 1 < U64
      /\ SatSub(now, last_settled) = e
  BY SolvencyAssumption, SMT DEF TimerTypeOK, SatSub
<1>2. balance * Scale \in Nat /\ (balance * Scale) % U256 = balance * Scale
  BY Wrapping DEF TimerTypeOK
<1>3. q \in Nat /\ balance * Scale < rate * (q + 1)
  BY <1>1, <1>2, DivBounds
<1>5. insolvency_duration = SatSub(SatSub(SatU64(q), Margin), e)
  BY <1>1, <1>2 DEF insolvency_duration
<1>6. q + 1 <= e + Margin + 1
  <2> HIDE DEF q, e
  <2> QED BY <1>1, <1>3, <1>5, SMT DEF SatSub, SatU64
<1>7. rate * (q + 1) <= rate * (e + Margin + 1)
  <2> HIDE DEF q, e
  <2>1. q + 1 \in Nat /\ e + Margin + 1 \in Nat
    BY <1>1, <1>3, SMT
  <2> QED BY <1>1, <1>6, <2>1, MulMono
<1>8. rate * (q + 1) \in Nat /\ rate * (e + Margin + 1) \in Nat
  <2> HIDE DEF q, e
  <2> QED BY <1>1, <1>3, SMT
<1> HIDE DEF q
<1> QED
  BY <1>2, <1>3, <1>7, <1>8, SMT

-----------------------------------------------------------------------------
(* The specification                                                       *)

\* Every step of TimerNext keeps balance, rates and times in their types.
LEMMA TimerTypeStep ==
  ASSUME TimerTypeOK, [TimerNext]_timerVars
  PROVE  TimerTypeOK'
<1> USE SolvencyAssumption
<1>0. ASSUME Turn,
             balance' \in 0..MaxBalance, rate' \in Nat, original_rate' \in Nat,
             last_settled' \in 0..now, up' \in BOOLEAN
      PROVE  TimerTypeOK'
  BY <1>0 DEF TimerTypeOK, Turn
<1>1. CASE Tick
  BY <1>1, SMT DEF TimerTypeOK, Tick, money
<1>2. CASE Hold \/ Return
  <2>1. /\ up' \in BOOLEAN /\ task' \in {"turn", "held"} /\ since' \in {since, now}
        /\ task' # "held" => since' = now
        /\ UNCHANGED <<now, balance, rate, original_rate, last_settled>>
    BY <1>2, Zenon DEF TimerTypeOK, Hold, Return, money
  <2>2. now \in Nat /\ since \in 0..now /\ since' \in 0..now
    BY <2>1 DEF TimerTypeOK
  <2> QED BY <2>1, <2>2 DEF TimerTypeOK
<1>3. ASSUME NEW a \in Amounts, Deposited(a)
      PROVE  TimerTypeOK'
  <2>1. a \in Nat
    OBVIOUS
  <2> QED BY <1>3, <1>0, <2>1, SMT DEF TimerTypeOK, Deposited
<1>4. ASSUME NEW a \in Amounts, Withdrew(a)
      PROVE  TimerTypeOK'
  <2>1. a \in Nat
    OBVIOUS
  <2> QED BY <1>4, <1>0, <2>1, SMT DEF TimerTypeOK, Withdrew
<1>5. ASSUME NEW a \in Amounts, NEW t \in 0..MaxTime, Settled(a, t)
      PROVE  TimerTypeOK'
  <2>1. a \in Nat
    OBVIOUS
  <2> QED BY <1>5, <1>0, <2>1, SMT DEF TimerTypeOK, Settled
<1>6. ASSUME NEW r \in Rates, RateInitiated(r)
      PROVE  TimerTypeOK'
  <2>1. r \in Nat /\ Turn /\ original_rate' = rate /\ rate' = r
        /\ up' \in BOOLEAN /\ UNCHANGED <<balance, last_settled>>
    BY <1>6, Zenon DEF RateInitiated
  <2> QED BY <1>0, <2>1 DEF TimerTypeOK
<1>7. CASE RateCancelled
  BY <1>7, <1>0, SMT DEF TimerTypeOK, RateCancelled
<1>8. CASE RateFinalized
  BY <1>8, <1>0, SMT DEF TimerTypeOK, RateFinalized
<1>9. CASE handle_insolvency \/ JobClosed \/ MetadataUpdated
  <2>1. /\ Turn /\ up' \in BOOLEAN
        /\ UNCHANGED <<balance, rate, original_rate, last_settled>>
    BY <1>9, Zenon DEF handle_insolvency, JobClosed, MetadataUpdated, money
  <2> QED BY <1>0, <2>1 DEF TimerTypeOK
<1>10. CASE UNCHANGED timerVars
  BY <1>10, SMT DEF TimerTypeOK, timerVars, money
<1> QED
  BY <1>1, <1>2, <1>3, <1>4, <1>5, <1>6, <1>7, <1>8, <1>9, <1>10 DEF TimerNext

\* Type correctness of the timer and the balances: process_log never leaves a
\* balance outside what the job may hold nor a settlement in the future.
THEOREM TimerTypeCorrect == TimerSpec => []TimerTypeOK
<1>1. TimerInit => TimerTypeOK
  BY SolvencyAssumption, SMT DEF TimerInit, TimerTypeOK
<1>2. TimerTypeOK /\ [TimerNext]_timerVars => TimerTypeOK'
  BY TimerTypeStep
<1> QED
  BY <1>1, <1>2, PTL DEF TimerSpec

\* Since when the job may be unpaid: once a second of the turn has passed, a
\* job that is up had paid, with the margin, when the task was last at its
\* select!.
PaidWhenSeen ==
  up /\ task # "turn" =>
    rate * (since - last_settled + Margin) <= balance * Scale

\* While the timer is not due, this second and the next one are paid.
LEMMA NotDue ==
  ASSUME TimerTypeOK, up, ~TimerDue
  PROVE  /\ rate * (now + 1 - last_settled + Margin) <= balance * Scale
         /\ rate * (now - last_settled + Margin) <= balance * Scale
<1>1. insolvency_duration # 0 /\ rate # 0
  BY DEF TimerDue, insolvency_duration
<1>2. rate * (now + 1 - last_settled + Margin) <= balance * Scale
  BY <1>1, NotDueIsPaid
<1> DEFINE x == now - last_settled + Margin
           y == now + 1 - last_settled + Margin
<1>3. x \in Nat /\ y \in Nat /\ x <= y /\ rate \in Nat /\ balance * Scale \in Nat
  BY SolvencyAssumption, Wrapping, SMT DEF TimerTypeOK
<1> HIDE DEF x, y
<1>4. rate * x <= rate * y
  BY <1>3, MulMono
<1>5. rate * x \in Nat /\ rate * y \in Nat
  BY <1>3, SMT
<1>6. rate * y <= balance * Scale
  BY <1>2 DEF y
<1>7. rate * x <= balance * Scale
  BY <1>3, <1>4, <1>5, <1>6, SMT
<1> QED
  BY <1>2, <1>7 DEF x

\* Every step keeps what the task has seen.
LEMMA PaidWhenSeenStep ==
  ASSUME TimerTypeOK, PaidWhenSeen, [TimerNext]_timerVars
  PROVE  PaidWhenSeen'
<1>1. CASE task' = "turn"
  BY <1>1 DEF PaidWhenSeen
<1>2. CASE Tick
  <2>1. CASE task = "held"
    BY <1>2, <2>1 DEF Tick, PaidWhenSeen, money
  <2>2. CASE task # "held"
    <3>1. /\ ~TimerDue /\ since' = now + 1 /\ up' = up
          /\ UNCHANGED <<rate, balance, last_settled>>
      BY <1>2, <2>2 DEF Tick, money
    <3>2. up => rate * (now + 1 - last_settled + Margin) <= balance * Scale
      BY <3>1, NotDue
    <3>3. since' - last_settled' + Margin = now + 1 - last_settled + Margin
      BY <3>1, SolvencyAssumption DEF TimerTypeOK
    <3>4. up' => rate' * (since' - last_settled' + Margin) <= balance' * Scale
      BY <3>1, <3>2, <3>3, Zenon
    <3> QED BY <3>4 DEF PaidWhenSeen
  <2> QED BY <2>1, <2>2
<1>3. CASE Hold
  <2>1. /\ since = now /\ UNCHANGED <<since, up, rate, balance, last_settled>>
    BY <1>3 DEF Hold, TimerTypeOK, money
  <2>2. CASE TimerDue
    BY <1>3, <2>1, <2>2 DEF Hold, PaidWhenSeen
  <2>3. CASE ~TimerDue
    <3>0. up => rate * (now - last_settled + Margin) <= balance * Scale
      BY <2>3, NotDue
    <3>1. up => rate * (since - last_settled + Margin) <= balance * Scale
      BY <2>1, <3>0, Zenon
    <3> QED BY <2>1, <3>1, Zenon DEF PaidWhenSeen
  <2> QED BY <2>2, <2>3
<1>4. CASE UNCHANGED timerVars
  BY <1>4 DEF timerVars, money, PaidWhenSeen
<1>5. ASSUME TimerNext, ~Tick, ~Hold
      PROVE  task' = "turn"
  BY <1>5 DEF TimerNext, Return, Turn, handle_insolvency, Deposited, Withdrew,
              Settled, RateInitiated, RateCancelled, RateFinalized, JobClosed,
              MetadataUpdated
<1> QED
  BY <1>1, <1>2, <1>3, <1>4, <1>5

\* The insolvency timer is late only while its task is held elsewhere: else a
\* job that stays up has paid for every second with the margin to spare, and
\* in any case for every second of the first Margin of a stay elsewhere, for
\* every width of the product and of the quotient.
THEOREM TimerNeverLate == TimerSpec => PaidFor
<1> DEFINE A == /\ task # "held" =>
                     rate * (now' - last_settled + Margin) <= balance * Scale
                /\ now' - since <= Margin =>
                     rate * (now' - last_settled) <= balance * Scale
<1>1. ASSUME TimerTypeOK, PaidWhenSeen, TimerNext, now' # now, up
      PROVE  A
  <2>1. Tick /\ now' = now + 1
    BY <1>1 DEF TimerNext, Hold, Return, Turn, handle_insolvency, Deposited,
                Withdrew, Settled, RateInitiated, RateCancelled, RateFinalized,
                JobClosed, MetadataUpdated, Tick
  <2>2. /\ rate \in Nat /\ now \in Nat /\ since \in 0..now /\ Margin \in Nat
        /\ last_settled \in 0..now /\ balance * Scale \in Nat
    BY <1>1, SolvencyAssumption, Wrapping DEF TimerTypeOK
  <2>3. task # "held" => rate * (now' - last_settled + Margin) <= balance * Scale
    <3>1. task # "held" => ~TimerDue
      BY <2>1 DEF Tick
    <3>2. task # "held" =>
            rate * (now + 1 - last_settled + Margin) <= balance * Scale
      BY <1>1, <3>1, NotDue
    <3>3. now' - last_settled + Margin = now + 1 - last_settled + Margin
      BY <2>1, <2>2
    <3> QED BY <3>2, <3>3, Zenon
  <2>4. ASSUME now' - since <= Margin
        PROVE  rate * (now' - last_settled) <= balance * Scale
    <3> DEFINE x == now' - last_settled
               y == IF task = "held" THEN since - last_settled + Margin
                                     ELSE now' - last_settled + Margin
    <3>1. x \in Nat /\ x <= y /\ y \in Nat
      BY <2>1, <2>2, <2>4, SMT
    <3>2. rate * y <= balance * Scale
      <4>1. CASE task = "held"
        <5>1. rate * (since - last_settled + Margin) <= balance * Scale
          BY <1>1, <4>1 DEF PaidWhenSeen
        <5>2. y = since - last_settled + Margin
          BY <4>1
        <5> HIDE DEF y
        <5> QED BY <5>1, <5>2, Zenon
      <4>2. CASE task # "held"
        <5>1. rate * (now' - last_settled + Margin) <= balance * Scale
          BY <2>3, <4>2
        <5>2. y = now' - last_settled + Margin
          BY <4>2
        <5> HIDE DEF y
        <5> QED BY <5>1, <5>2, Zenon
      <4> QED BY <4>1, <4>2
    <3> HIDE DEF x, y
    <3>3. rate * x <= rate * y
      BY <2>2, <3>1, MulMono
    <3>4. rate * x \in Nat /\ rate * y \in Nat
      BY <2>2, <3>1, SMT
    <3>5. rate * x <= balance * Scale
      BY <2>2, <3>2, <3>3, <3>4, SMT
    <3> QED BY <3>5 DEF x
  <2> QED
    BY <2>3, <2>4
<1>2. TimerInit => PaidWhenSeen
  BY DEF TimerInit, PaidWhenSeen
<1>3. TimerTypeOK /\ PaidWhenSeen /\ [TimerNext]_timerVars
        => [now' # now /\ up => A]_timerVars
  BY <1>1
<1> QED
  BY <1>2, <1>3, PaidWhenSeenStep, TimerTypeCorrect, PTL DEF TimerSpec, PaidFor

\* Nor is it early: it expires only when less than the margin and one second
\* is left, when nothing is charged, or when the product wraps.
THEOREM TimerNeverEarly == TimerSpec => []NotEarly
<1>1. TimerTypeOK => NotEarly
  BY DueIsShort DEF NotEarly, TimerDue
<1> QED
  BY <1>1, TimerTypeCorrect, PTL
=============================================================================
