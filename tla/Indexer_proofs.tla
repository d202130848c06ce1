--------------------------- MODULE Indexer_proofs ---------------------------
(***************************************************************************)
(* Proofs about Indexer, for any jobs, providers, values, range sizes,     *)
(* start blocks, chain lengths and crashes: the sync row never moves back, *)
(* the tables are what the logs behind it say, and no handler fails when   *)
(* indexing starts where the contract does.                                *)
(***************************************************************************)
EXTENDS Indexer, WellFoundedInduction, TLAPS
-----------------------------------------------------------------------------
(* Counting up.  The library's induction theorems take a predicate, which  *)
(* cannot be given to them here: a set of numbers can.                     *)

\* A set of numbers that has 0, and the next number of each of its own, has every number.
LEMMA CountsUp ==
  ASSUME NEW S, 0 \in S, \A n \in Nat : n \in S => n + 1 \in S
  PROVE  \A n \in Nat : n \in S
<1> DEFINE T == Nat \ S
           Less == OpToRel(<, Nat)
<1>1. SUFFICES ASSUME T # {} PROVE FALSE
  OBVIOUS
<1>2. PICK x \in T : \A y \in T : <<y, x>> \notin Less
  <2>1. IsWellFoundedOn(Less, Nat)
    BY NatLessThanWellFounded
  <2>2. T \subseteq Nat
    OBVIOUS
  <2> HIDE DEF T, Less
  <2> QED
    BY <1>1, <2>1, <2>2, WFMin
<1>3. x \in Nat /\ x \notin S /\ x # 0
  BY <1>2
<1>4. x - 1 \in Nat /\ x - 1 < x /\ (x - 1) + 1 = x
  BY <1>3
<1>5. x - 1 \in S
  BY <1>2, <1>3, <1>4 DEF OpToRel
<1> QED
  BY <1>3, <1>4, <1>5

-----------------------------------------------------------------------------
(* What Total computes.                                                    *)

Term(q, ps, n) == IF n \in ps THEN q[n].value ELSE 0

\* f holds the sums over the first positions of q, up to n.
IsSum(f, q, ps, n) ==
  /\ f \in [0..n -> Int]
  /\ f[0] = 0
  /\ \A m \in 1..n : f[m] = f[m - 1] + Term(q, ps, m)

\* The value of a log is a number.
LEMMA ValueIsInt ==
  ASSUME NEW l \in Log
  PROVE  l.value \in Values /\ l.value \in Int
<1>1. \A v \in Values : v \in Int
  BY IndexerAssumption
<1> DEFINE v == l.value
<1>2. v \in Values
  BY DEF Log
<1> HIDE DEF v
<1>3. v \in Int
  BY <1>1, <1>2
<1> QED
  BY <1>2, <1>3 DEF v

\* Every term of a log sequence is a number.
LEMMA TermIsInt ==
  ASSUME NEW q \in Seq(Log), NEW ps, NEW n \in 1..Len(q)
  PROVE  Term(q, ps, n) \in Int
<1>1. q[n] \in Log
  OBVIOUS
<1>2. q[n].value \in Int
  BY <1>1, ValueIsInt
<1> QED
  BY <1>2 DEF Term

\* There are such sums up to every position: the next one adds a term to the last.
LEMMA SumsExist ==
  ASSUME NEW q \in Seq(Log), NEW ps
  PROVE  \A n \in 0..Len(q) : \E f : IsSum(f, q, ps, n)
<1> DEFINE S == {n \in Nat : n <= Len(q) => \E f : IsSum(f, q, ps, n)}
<1>1. 0 \in S
  <2> DEFINE f == [m \in 0..0 |-> 0]
  <2>1. IsSum(f, q, ps, 0)
    BY DEF IsSum
  <2> QED
    BY <2>1
<1>2. ASSUME NEW n \in Nat, n \in S PROVE n + 1 \in S
  <2>1. SUFFICES ASSUME n + 1 <= Len(q) PROVE \E f : IsSum(f, q, ps, n + 1)
    OBVIOUS
  <2>2. n <= Len(q)
    BY <2>1
  <2>3. PICK f : IsSum(f, q, ps, n)
    BY <1>2, <2>2
  <2> DEFINE t == Term(q, ps, n + 1)
             g == [m \in 0..(n + 1) |-> IF m = n + 1 THEN f[n] + t ELSE f[m]]
  <2>4. t \in Int
    BY <2>1, TermIsInt
  <2> HIDE DEF t
  <2>5. f \in [0..n -> Int]
    BY <2>3 DEF IsSum
  <2>6. g \in [0..(n + 1) -> Int]
    BY <2>4, <2>5
  <2>7. g[0] = 0
    BY <2>3 DEF IsSum
  <2>8. ASSUME NEW m \in 1..(n + 1) PROVE g[m] = g[m - 1] + Term(q, ps, m)
    <3>1. CASE m = n + 1
      BY <3>1 DEF t
    <3>2. CASE m # n + 1
      <4>1. m \in 1..n
        BY <3>2
      <4>2. f[m] = f[m - 1] + Term(q, ps, m)
        BY <2>3, <4>1 DEF IsSum
      <4>3. g[m] = f[m] /\ g[m - 1] = f[m - 1]
        BY <3>2, <4>1
      <4> QED
        BY <4>2, <4>3
    <3> QED
      BY <3>1, <3>2
  <2> HIDE DEF g
  <2>9. IsSum(g, q, ps, n + 1)
    BY <2>6, <2>7, <2>8 DEF IsSum
  <2> QED
    BY <2>9
<1> HIDE DEF S
<1>3. \A n \in Nat : n \in S
  BY <1>1, <1>2, CountsUp
<1> QED
  BY <1>3 DEF S

\* Two sums of the same positions agree.
LEMMA SumsAgree ==
  ASSUME NEW q, NEW ps, NEW N \in Nat, NEW f, NEW g, IsSum(f, q, ps, N), IsSum(g, q, ps, N)
  PROVE  f[N] = g[N]
<1> DEFINE S == {n \in Nat : n <= N => f[n] = g[n]}
<1>1. 0 \in S
  BY DEF IsSum
<1>2. ASSUME NEW n \in Nat, n \in S PROVE n + 1 \in S
  <2>1. CASE n + 1 <= N
    <3>1. n + 1 \in 1..N /\ (n + 1) - 1 = n
      BY <2>1
    <3>2. f[n + 1] = f[n] + Term(q, ps, n + 1) /\ g[n + 1] = g[n] + Term(q, ps, n + 1)
      BY <3>1 DEF IsSum
    <3>3. f[n] = g[n]
      BY <1>2, <2>1
    <3> QED
      BY <3>2, <3>3
  <2> QED
    BY <2>1
<1> HIDE DEF S
<1>3. \A n \in Nat : n \in S
  BY <1>1, <1>2, CountsUp
<1> QED
  BY <1>3 DEF S

\* Total is the last of the sums.
LEMMA TotalIs ==
  ASSUME NEW q \in Seq(Log), NEW ps, NEW f, IsSum(f, q, ps, Len(q))
  PROVE  Total(q, ps) = f[Len(q)] /\ Total(q, ps) \in Int
<1> DEFINE L == Len(q)
           Eq(h) == h = [n \in 0..L |->
                          IF n = 0 THEN 0 ELSE h[n - 1] + IF n \in ps THEN q[n].value ELSE 0]
           sum == CHOOSE h : Eq(h)
<1>0. L \in Nat
  OBVIOUS
<1>1. Total(q, ps) = sum[L]
  BY DEF Total
<1>2. f \in [0..L -> Int] /\ f[0] = 0 /\ \A m \in 1..L : f[m] = f[m - 1] + Term(q, ps, m)
  BY DEF IsSum
<1>3. Eq(f)
  <2> DEFINE r == [n \in 0..L |-> IF n = 0 THEN 0 ELSE f[n - 1] + IF n \in ps THEN q[n].value ELSE 0]
  <2>1. ASSUME NEW n \in 0..L PROVE f[n] = r[n]
    <3>1. CASE n = 0
      BY <1>2, <3>1
    <3>2. CASE n # 0
      <4>1. n \in 1..L
        BY <3>2
      <4> QED
        BY <1>2, <4>1, <3>2 DEF Term
    <3> QED
      BY <3>1, <3>2
  <2>2. f = [n \in 0..L |-> f[n]]
    BY <1>2
  <2>3. r = [n \in 0..L |-> r[n]]
    OBVIOUS
  <2> QED
    BY <2>1, <2>2, <2>3
<1>4. Eq(sum)
  <2> HIDE DEF Eq
  <2> QED
    BY <1>3
<1>5. IsSum(sum, q, ps, L)
  <2> HIDE DEF sum
  <2>1. DOMAIN sum = 0..L
    BY <1>4
  <2>2. sum[0] = 0
    BY <1>4, <1>0
  <2>3. ASSUME NEW m \in 1..L PROVE sum[m] = sum[m - 1] + Term(q, ps, m)
    BY <1>4, m \in 0..L, m # 0 DEF Term
  <2>4. \A n \in Nat : n \in {i \in Nat : i <= L => sum[i] \in Int}
    <3> DEFINE S == {i \in Nat : i <= L => sum[i] \in Int}
    <3>1. 0 \in S
      BY <2>2
    <3>2. ASSUME NEW n \in Nat, n \in S PROVE n + 1 \in S
      <4>1. CASE n + 1 <= L
        <5>1. n + 1 \in 1..L /\ (n + 1) - 1 = n
          BY <4>1
        <5>2. sum[n + 1] = sum[n] + Term(q, ps, n + 1)
          BY <2>3, <5>1
        <5>3. sum[n] \in Int
          BY <3>2, <4>1
        <5>4. Term(q, ps, n + 1) \in Int
          BY <5>1, TermIsInt
        <5> QED
          BY <5>2, <5>3, <5>4
      <4> QED
        BY <4>1
    <3> HIDE DEF S
    <3>3. \A n \in Nat : n \in S
      BY <3>1, <3>2, CountsUp
    <3> QED
      BY <3>3 DEF S
  <2>5. sum = [n \in 0..L |-> sum[n]]
    BY <1>4
  <2>6. sum \in [0..L -> Int]
    BY <2>4, <2>5, <1>0
  <2> QED
    BY <2>2, <2>3, <2>6 DEF IsSum
<1>6. f[L] \in Int
  BY <1>2, <1>0
<1> HIDE DEF sum
<1> QED
  BY <1>0, <1>1, <1>5, <1>6, SumsAgree

\* The sum over no position is zero.
LEMMA TotalOfNone ==
  ASSUME NEW q \in Seq(Log)
  PROVE  Total(q, {}) = 0
<1> DEFINE f == [n \in 0..Len(q) |-> 0]
<1>1. IsSum(f, q, {}, Len(q))
  BY DEF IsSum, Term
<1>2. f[Len(q)] = 0
  OBVIOUS
<1> QED
  BY <1>1, <1>2, TotalIs

\* A position more adds its value.
LEMMA TotalAdds ==
  ASSUME NEW q \in Seq(Log), NEW ps, NEW k \in 1..Len(q), k \notin ps
  PROVE  Total(q, ps \cup {k}) = Total(q, ps) + q[k].value /\ Total(q, ps) \in Int
<1> DEFINE L == Len(q)
           v == q[k].value
<1>0. L \in Nat /\ k \in 1..L
  OBVIOUS
<1>1. PICK f : IsSum(f, q, ps, L)
  BY <1>0, L \in 0..L, SumsExist
<1>2. v \in Int
  <2>1. q[k] \in Log
    OBVIOUS
  <2> QED
    BY <2>1, ValueIsInt
<1> DEFINE g == [n \in 0..L |-> IF n < k THEN f[n] ELSE f[n] + v]
<1>3. f \in [0..L -> Int] /\ f[0] = 0
  BY <1>1 DEF IsSum
<1>4. g \in [0..L -> Int] /\ g[0] = 0
  BY <1>0, <1>2, <1>3
<1>5. ASSUME NEW m \in 1..L PROVE g[m] = g[m - 1] + Term(q, ps \cup {k}, m)
  <2>1. f[m] = f[m - 1] + Term(q, ps, m)
    BY <1>1 DEF IsSum
  <2>2. Term(q, ps, m) \in Int /\ f[m - 1] \in Int /\ f[m] \in Int
    BY <1>3, TermIsInt
  <2>3. CASE m < k
    <3>1. Term(q, ps \cup {k}, m) = Term(q, ps, m)
      BY <2>3 DEF Term
    <3>2. g[m] = f[m] /\ g[m - 1] = f[m - 1]
      BY <2>3, <1>0
    <3> QED
      BY <2>1, <3>1, <3>2
  <2>4. CASE m = k
    <3>1. Term(q, ps \cup {k}, m) = v /\ Term(q, ps, m) = 0
      BY <2>4 DEF Term
    <3>2. g[m] = f[m] + v /\ g[m - 1] = f[m - 1]
      BY <2>4, <1>0
    <3> QED
      BY <2>1, <2>2, <3>1, <3>2, <1>2
  <2>5. CASE m > k
    <3>1. Term(q, ps \cup {k}, m) = Term(q, ps, m)
      BY <2>5 DEF Term
    <3>2. g[m] = f[m] + v /\ g[m - 1] = f[m - 1] + v
      BY <2>5, <1>0
    <3> HIDE DEF v
    <3> QED
      BY <2>1, <2>2, <3>1, <3>2, <1>2
  <2> QED
    BY <2>3, <2>4, <2>5, <1>0
<1>6. g[L] = f[L] + v
  BY <1>0
<1> HIDE DEF g
<1>7. IsSum(g, q, ps \cup {k}, L)
  BY <1>4, <1>5 DEF IsSum
<1> HIDE DEF v
<1>8. Total(q, ps \cup {k}) = g[L]
  BY <1>7, TotalIs
<1>9. Total(q, ps) = f[L] /\ Total(q, ps) \in Int
  BY <1>1, TotalIs
<1> QED
  BY <1>6, <1>8, <1>9 DEF v

\* A log that is appended changes no sum over the positions before it.
LEMMA TotalOfAppend ==
  ASSUME NEW q \in Seq(Log), NEW l \in Log, NEW ps \in SUBSET (1..Len(q))
  PROVE  Total(Append(q, l), ps) = Total(q, ps)
<1> DEFINE L == Len(q)
           r == Append(q, l)
<1>0. L \in Nat /\ r \in Seq(Log) /\ Len(r) = L + 1 /\ \A m \in 1..L : r[m] = q[m]
  OBVIOUS
<1>1. PICK f : IsSum(f, q, ps, L)
  BY <1>0, L \in 0..L, SumsExist
<1> HIDE DEF r
<1> DEFINE g == [n \in 0..(L + 1) |-> IF n = L + 1 THEN f[L] ELSE f[n]]
<1>3. f \in [0..L -> Int] /\ f[0] = 0
  BY <1>1 DEF IsSum
<1>4. g \in [0..(L + 1) -> Int] /\ g[0] = 0
  BY <1>0, <1>3
<1>5. ASSUME NEW m \in 1..(L + 1) PROVE g[m] = g[m - 1] + Term(r, ps, m)
  <2>1. CASE m = L + 1
    <3>1. Term(r, ps, m) = 0
      BY <2>1, <1>0 DEF Term
    <3>2. g[m] = f[L] /\ g[m - 1] = f[L] /\ f[L] \in Int
      BY <2>1, <1>0, <1>3
    <3> QED
      BY <3>1, <3>2
  <2>2. CASE m # L + 1
    <3>1. m \in 1..L
      BY <2>2, <1>0
    <3>2. Term(r, ps, m) = Term(q, ps, m)
      BY <3>1, <1>0 DEF Term
    <3>3. f[m] = f[m - 1] + Term(q, ps, m)
      BY <1>1, <3>1 DEF IsSum
    <3>4. g[m] = f[m] /\ g[m - 1] = f[m - 1]
      BY <3>1, <2>2, <1>0
    <3> QED
      BY <3>2, <3>3, <3>4
  <2> QED
    BY <2>1, <2>2
<1>6. g[L + 1] = f[L]
  BY <1>0
<1> HIDE DEF g
<1>7. IsSum(g, r, ps, Len(r))
  BY <1>0, <1>4, <1>5 DEF IsSum
<1>8. Total(r, ps) = g[Len(r)]
  BY <1>0, <1>7, TotalIs
<1>9. Total(q, ps) = f[L]
  BY <1>1, TotalIs
<1> QED
  BY <1>0, <1>6, <1>8, <1>9 DEF r

-----------------------------------------------------------------------------
(* The handlers, one by one: which tables a log changes, and how.          *)

JobRows == JobRow \cup {NoRow}
ProviderRows == ProviderRow \cup {NoRow}

Database ==
  [sync : Int, jobs : [Jobs -> JobRows], transactions : SUBSET TxRow,
   requests : [Jobs -> Values \cup {NoRow}], providers : [Providers -> ProviderRows]]

\* The database with the sync row of d and these tables.
Tables(d, js, txs, rqs, pvs) ==
  [sync |-> d.sync, jobs |-> js, transactions |-> txs, requests |-> rqs, providers |-> pvs]

\* The row log k adds to the transactions.
Entry(k, dep) ==
  [block |-> logs[k].block, idx |-> k, job |-> logs[k].job, amount |-> logs[k].value,
   is_deposit |-> dep]

\* A database is made of its tables.
LEMMA DatabaseParts ==
  ASSUME NEW d \in Database
  PROVE  /\ d = Tables(d, d.jobs, d.transactions, d.requests, d.providers)
         /\ d.sync \in Int /\ d.jobs \in [Jobs -> JobRows] /\ d.transactions \in SUBSET TxRow
         /\ d.requests \in [Jobs -> Values \cup {NoRow}] /\ d.providers \in [Providers -> ProviderRows]
  BY DEF Database, Tables

\* Tables of the right types make a database.
LEMMA TablesMake ==
  ASSUME NEW d \in Database, NEW js \in [Jobs -> JobRows], NEW txs \in SUBSET TxRow,
         NEW rqs \in [Jobs -> Values \cup {NoRow}], NEW pvs \in [Providers -> ProviderRows]
  PROVE  LET e == Tables(d, js, txs, rqs, pvs)
         IN  /\ e \in Database /\ e.sync = d.sync /\ e.jobs = js /\ e.transactions = txs
             /\ e.requests = rqs /\ e.providers = pvs
  BY DEF Database, Tables

\* What the log at k is made of.
LEMMA LogParts ==
  ASSUME logs \in Seq(Log), NEW k \in All
  PROVE  /\ logs[k].job \in Jobs /\ logs[k].provider \in Providers /\ logs[k].value \in Values
         /\ logs[k].block \in Nat /\ logs[k].kind \in ProviderKinds \cup JobKinds
         /\ logs[k].value \in Int
<1>1. logs[k] \in Log
  BY DEF All
<1> QED
  BY <1>1, ValueIsInt DEF Log

\* The entry of a log is a row of the transactions.
LEMMA EntryIsRow ==
  ASSUME logs \in Seq(Log), NEW k \in All, NEW dep \in BOOLEAN
  PROVE  Entry(k, dep) \in TxRow /\ Entry(k, dep).idx = k /\ Entry(k, dep).job = logs[k].job
<1>1. k \in Nat
  BY DEF All
<1> QED
  BY <1>1, LogParts DEF Entry, TxRow

\* An update of an open job's row changes that row.
LEMMA UpdateWrites ==
  ASSUME NEW d \in Database, NEW j \in Jobs, NEW row, NEW e \in UpdateOpenJob(d, j, row)
  PROVE  /\ d.jobs[j] # NoRow /\ d.jobs[j] \in JobRow /\ ~d.jobs[j].is_closed
         /\ e = Tables(d, [d.jobs EXCEPT ![j] = row], d.transactions, d.requests, d.providers)
<1>1. IsOpen(d, j) /\ e = [d EXCEPT !.jobs[j] = row]
  BY DEF UpdateOpenJob
<1>2. d.jobs[j] \in JobRows
  BY DatabaseParts
<1>3. e = Tables(d, [d.jobs EXCEPT ![j] = row], d.transactions, d.requests, d.providers)
  BY <1>1 DEF Database, Tables
<1> QED
  BY <1>1, <1>2, <1>3 DEF IsOpen, JobRows

RowUpdates == {"JobSettled", "JobClosed", "JobDeposited", "JobWithdrew",
               "JobReviseRateFinalized", "JobMetadataUpdated"}
RowKinds == {"JobOpened"} \cup RowUpdates
EntryKinds == {"JobOpened", "JobDeposited", "JobWithdrew"}
LockKinds == {"LockCreated", "LockDeleted"}

\* The row of a job after a log about it.
RowAfter(row, l) ==
  CASE l.kind = "JobOpened" ->
         [provider |-> l.provider, metadata |-> l.value, rate |-> l.value,
          balance |-> l.value, last_settled |-> l.block, is_closed |-> FALSE]
    [] l.kind = "JobSettled" -> [row EXCEPT !.balance = @ - l.value, !.last_settled = l.block]
    [] l.kind = "JobClosed" -> [row EXCEPT !.is_closed = TRUE]
    [] l.kind = "JobDeposited" -> [row EXCEPT !.balance = @ + l.value]
    [] l.kind = "JobWithdrew" -> [row EXCEPT !.balance = @ - l.value]
    [] l.kind = "JobReviseRateFinalized" -> [row EXCEPT !.rate = l.value]
    [] OTHER -> [row EXCEPT !.metadata = l.value]

\* The row of a provider after a log about it.
ProviderAfter(row, l) ==
  CASE l.kind = "ProviderAdded" -> [cp |-> l.value, is_active |-> TRUE]
    [] l.kind = "ProviderRemoved" -> [row EXCEPT !.is_active = FALSE]
    [] OTHER -> [row EXCEPT !.cp = l.value]

\* What the log at k does to the tables when its handler succeeds, and what it has found.
WritesRow(d, e, k) ==
  LET l == logs[k] IN
  IF l.kind \in RowKinds
  THEN /\ l.kind = "JobOpened" => d.jobs[l.job] = NoRow
       /\ l.kind # "JobOpened" => d.jobs[l.job] \in JobRow
       /\ e.jobs = [d.jobs EXCEPT ![l.job] = RowAfter(d.jobs[l.job], l)]
       /\ RowAfter(d.jobs[l.job], l) \in JobRow
  ELSE e.jobs = d.jobs

WritesEntry(d, e, k) ==
  IF logs[k].kind \in EntryKinds
  THEN e.transactions = d.transactions \cup {Entry(k, logs[k].kind # "JobWithdrew")}
  ELSE e.transactions = d.transactions

WritesRequest(d, e, k) ==
  LET l == logs[k] IN
  IF l.kind \in LockKinds
  THEN e.requests = [d.requests EXCEPT ![l.job] = IF l.kind = "LockCreated" THEN l.value ELSE NoRow]
  ELSE e.requests = d.requests

WritesProvider(d, e, k) ==
  LET l == logs[k] IN
  IF l.kind \in ProviderKinds
  THEN /\ l.kind # "ProviderAdded" => IsActive(d, l.provider)
       /\ e.providers = [d.providers EXCEPT ![l.provider] = ProviderAfter(d.providers[l.provider], l)]
       /\ ProviderAfter(d.providers[l.provider], l) \in ProviderRow
  ELSE e.providers = d.providers

Writes(d, e, k) ==
  /\ e \in Database /\ e.sync = d.sync
  /\ WritesRow(d, e, k) /\ WritesEntry(d, e, k) /\ WritesRequest(d, e, k) /\ WritesProvider(d, e, k)

\* The row of a job stays a row.
LEMMA RowAfterIsRow ==
  ASSUME NEW row, NEW l \in Log, l.kind \in RowKinds, l.kind # "JobOpened" => row \in JobRow
  PROVE  RowAfter(row, l) \in JobRow
<1>1. l.value \in Values /\ l.value \in Int
  BY ValueIsInt
<1>2. l.block \in Nat /\ l.provider \in Providers
  BY DEF Log
<1> DEFINE v == l.value
           b == l.block
<1>3. CASE l.kind = "JobOpened"
  BY <1>1, <1>2, <1>3 DEF RowAfter, JobRow
<1>4. CASE l.kind # "JobOpened"
  <2>1. row \in JobRow /\ v \in Values /\ v \in Int /\ b \in Nat
    BY <1>1, <1>2, <1>4
  <2>2. RowAfter(row, l) \in {[row EXCEPT !.balance = @ - v, !.last_settled = b],
                              [row EXCEPT !.is_closed = TRUE], [row EXCEPT !.balance = @ + v],
                              [row EXCEPT !.balance = @ - v], [row EXCEPT !.rate = v],
                              [row EXCEPT !.metadata = v]}
    BY <1>4 DEF RowAfter, RowKinds, RowUpdates
  <2> HIDE DEF v, b
  <2>3. [row EXCEPT !.balance = @ - v, !.last_settled = b] \in JobRow
    <3> DEFINE x == row.balance - v
    <3>1. x \in Int
      BY <2>1 DEF JobRow
    <3> HIDE DEF x
    <3>2. [row EXCEPT !.balance = x, !.last_settled = b] \in JobRow
      BY <2>1, <3>1 DEF JobRow
    <3> QED
      BY <3>2 DEF x
  <2>4. [row EXCEPT !.is_closed = TRUE] \in JobRow
    BY <2>1 DEF JobRow
  <2>5. [row EXCEPT !.balance = @ + v] \in JobRow /\ [row EXCEPT !.balance = @ - v] \in JobRow
    BY <2>1 DEF JobRow
  <2>6. [row EXCEPT !.rate = v] \in JobRow /\ [row EXCEPT !.metadata = v] \in JobRow
    BY <2>1 DEF JobRow
  <2> QED
    BY <2>2, <2>3, <2>4, <2>5, <2>6
<1> QED
  BY <1>3, <1>4

\* So does the row of a provider.
LEMMA ProviderAfterIsRow ==
  ASSUME NEW row, NEW l \in Log, l.kind \in ProviderKinds, l.kind # "ProviderAdded" => row \in ProviderRow
  PROVE  ProviderAfter(row, l) \in ProviderRow
<1>1. l.value \in Values
  BY ValueIsInt
<1> QED
  BY <1>1 DEF ProviderAfter, ProviderRow, ProviderKinds

\* Writing a row of the jobs keeps the other tables.
LEMMA RowWritten ==
  ASSUME NEW d \in Database, NEW j \in Jobs, NEW row \in JobRow, NEW e,
         e = Tables(d, [d.jobs EXCEPT ![j] = row], d.transactions, d.requests, d.providers)
  PROVE  /\ e \in Database /\ e.sync = d.sync /\ e.jobs = [d.jobs EXCEPT ![j] = row]
         /\ e.transactions = d.transactions /\ e.requests = d.requests /\ e.providers = d.providers
<1>1. [d.jobs EXCEPT ![j] = row] \in [Jobs -> JobRows]
  BY DatabaseParts DEF JobRows
<1> QED
  BY <1>1, DatabaseParts, TablesMake

\* An update of an open job's row writes that row and nothing else.
LEMMA RowHandler ==
  ASSUME logs \in Seq(Log), NEW d \in Database, NEW k \in All, NEW e,
         logs[k].kind \in RowUpdates,
         e \in UpdateOpenJob(d, logs[k].job, RowAfter(d.jobs[logs[k].job], logs[k]))
  PROVE  /\ e \in Database /\ e.sync = d.sync /\ WritesRow(d, e, k)
         /\ e.transactions = d.transactions /\ e.requests = d.requests /\ e.providers = d.providers
<1> DEFINE l == logs[k]
           j == l.job
           row == RowAfter(d.jobs[j], l)
<1>1. l \in Log /\ j \in Jobs
  BY LogParts DEF All
<1> HIDE DEF l, j
<1>2. /\ d.jobs[j] \in JobRow
      /\ e = Tables(d, [d.jobs EXCEPT ![j] = row], d.transactions, d.requests, d.providers)
  BY <1>1, UpdateWrites DEF l, j
<1>3. l.kind \in RowKinds /\ l.kind # "JobOpened"
  BY DEF RowKinds, RowUpdates, l
<1>4. row \in JobRow
  BY <1>1, <1>2, <1>3, RowAfterIsRow
<1> HIDE DEF row
<1>5. /\ e \in Database /\ e.sync = d.sync /\ e.jobs = [d.jobs EXCEPT ![j] = row]
      /\ e.transactions = d.transactions /\ e.requests = d.requests /\ e.providers = d.providers
  BY <1>1, <1>2, <1>4, RowWritten
<1>6. WritesRow(d, e, k)
  BY <1>2, <1>3, <1>4, <1>5 DEF WritesRow, l, j, row
<1> QED
  BY <1>5, <1>6

\* The handlers that only change the row of an open job.
LEMMA RowHandlers ==
  ASSUME logs \in Seq(Log), NEW d \in Database, NEW k \in All, NEW e \in handle_log(d, k),
         logs[k].kind \in RowUpdates \ EntryKinds
  PROVE  Writes(d, e, k)
<1> DEFINE l == logs[k]
           row == d.jobs[l.job]
<1>1. e \in UpdateOpenJob(d, l.job, RowAfter(row, l))
  <2>1. CASE l.kind = "JobSettled"
    BY <2>1 DEF handle_log, handle_job_settled, RowAfter
  <2>2. CASE l.kind = "JobClosed"
    BY <2>2 DEF handle_log, handle_job_closed, RowAfter
  <2>3. CASE l.kind = "JobReviseRateFinalized"
    BY <2>3 DEF handle_log, handle_job_revise_rate_finalized, RowAfter
  <2>4. CASE l.kind = "JobMetadataUpdated"
    BY <2>4 DEF handle_log, handle_job_metadata_updated, RowAfter
  <2> QED
    BY <2>1, <2>2, <2>3, <2>4 DEF RowUpdates, EntryKinds
<1>2. /\ e \in Database /\ e.sync = d.sync /\ WritesRow(d, e, k)
      /\ e.transactions = d.transactions /\ e.requests = d.requests /\ e.providers = d.providers
  BY <1>1, RowHandler
<1>3. l.kind \notin EntryKinds /\ l.kind \notin LockKinds /\ l.kind \notin ProviderKinds
  BY DEF RowUpdates, EntryKinds, LockKinds, ProviderKinds
<1> QED
  BY <1>2, <1>3 DEF Writes, WritesEntry, WritesRequest, WritesProvider

\* Adding an entry to a database whose row has been written.
LEMMA EntryAdded ==
  ASSUME logs \in Seq(Log), NEW d \in Database, NEW d1 \in Database, NEW k \in All,
         NEW dep \in BOOLEAN, NEW ds, NEW e \in AddTransaction(ds, k, dep),
         \A x \in ds : x = d1,
         d1.sync = d.sync, WritesRow(d, d1, k), d1.transactions = d.transactions,
         d1.requests = d.requests, d1.providers = d.providers,
         logs[k].kind \in EntryKinds, dep = (logs[k].kind # "JobWithdrew")
  PROVE  Writes(d, e, k)
<1>1. e = Tables(d1, d1.jobs, d1.transactions \cup {Entry(k, dep)}, d1.requests, d1.providers)
  <2>1. PICK x \in ds : e = [x EXCEPT !.transactions = @ \cup {Entry(k, dep)}]
    BY DEF AddTransaction, Entry
  <2>2. e = [d1 EXCEPT !.transactions = @ \cup {Entry(k, dep)}]
    BY <2>1
  <2> DEFINE t == Entry(k, dep)
  <2> HIDE DEF t
  <2>3. e = Tables(d1, d1.jobs, d1.transactions \cup {t}, d1.requests, d1.providers)
    BY <2>2 DEF Database, Tables, t
  <2> QED
    BY <2>3 DEF t
<1>2. d1.transactions \cup {Entry(k, dep)} \in SUBSET TxRow
  <2>1. d1.transactions \in SUBSET TxRow
    BY DatabaseParts
  <2>2. Entry(k, dep) \in TxRow
    BY EntryIsRow
  <2> QED
    BY <2>1, <2>2
<1>3. /\ e \in Database /\ e.sync = d1.sync /\ e.jobs = d1.jobs
      /\ e.transactions = d1.transactions \cup {Entry(k, dep)}
      /\ e.requests = d1.requests /\ e.providers = d1.providers
  BY <1>1, <1>2, DatabaseParts, TablesMake
<1>4. WritesRow(d, e, k)
  BY <1>3 DEF WritesRow
<1>5. logs[k].kind \notin LockKinds /\ logs[k].kind \notin ProviderKinds
  BY DEF EntryKinds, LockKinds, ProviderKinds
<1> QED
  BY <1>3, <1>4, <1>5 DEF Writes, WritesEntry, WritesRequest, WritesProvider

\* The handlers that add an entry to the transactions.
LEMMA EntryHandlers ==
  ASSUME logs \in Seq(Log), NEW d \in Database, NEW k \in All, NEW e \in handle_log(d, k),
         logs[k].kind \in EntryKinds
  PROVE  Writes(d, e, k)
<1> DEFINE l == logs[k]
           j == l.job
           row == RowAfter(d.jobs[j], l)
           d1 == Tables(d, [d.jobs EXCEPT ![j] = row], d.transactions, d.requests, d.providers)
<1>1. l \in Log /\ j \in Jobs
  BY LogParts DEF All
<1>2. CASE l.kind = "JobOpened"
  <2> DEFINE ds == {[d EXCEPT !.jobs[j] = row]}
  <2>1. d.jobs[j] = NoRow /\ e \in AddTransaction(ds, k, TRUE)
    BY <1>2 DEF handle_log, handle_job_opened, RowAfter
  <2>2. row \in JobRow
    BY <1>1, <1>2, RowAfterIsRow DEF RowKinds
  <2> HIDE DEF row, j
  <2>3. \A x \in ds : x = d1
    BY DEF Database, Tables
  <2> HIDE DEF ds, d1
  <2>4. /\ d1 \in Database /\ d1.sync = d.sync /\ d1.jobs = [d.jobs EXCEPT ![j] = row]
        /\ d1.transactions = d.transactions /\ d1.requests = d.requests /\ d1.providers = d.providers
    BY <1>1, <2>2, RowWritten DEF d1
  <2>5. WritesRow(d, d1, k)
    BY <1>2, <2>1, <2>2, <2>4 DEF WritesRow, RowKinds, row, j
  <2>6. l.kind \in EntryKinds /\ TRUE = (l.kind # "JobWithdrew")
    BY <1>2 DEF EntryKinds
  <2> HIDE DEF l
  <2> QED
    BY <2>1, <2>3, <2>4, <2>5, <2>6, EntryAdded DEF l
<1>3. CASE l.kind \in {"JobDeposited", "JobWithdrew"}
  <2> DEFINE dep == l.kind = "JobDeposited"
             ds == UpdateOpenJob(d, j, row)
  <2>1. e \in AddTransaction(ds, k, dep)
    <3>1. CASE l.kind = "JobDeposited"
      BY <3>1 DEF handle_log, handle_job_deposited, RowAfter
    <3>2. CASE l.kind = "JobWithdrew"
      BY <3>2 DEF handle_log, handle_job_withdrew, RowAfter
    <3> QED
      BY <1>3, <3>1, <3>2
  <2>2. l.kind \in RowUpdates /\ l.kind \in EntryKinds /\ dep = (l.kind # "JobWithdrew") /\ dep \in BOOLEAN
    BY <1>3 DEF EntryKinds, RowUpdates
  <2>3. PICK x \in ds : TRUE
    BY <2>1 DEF AddTransaction
  <2> HIDE DEF ds, row, l, j, dep
  <2>4. \A y \in ds : y = d1
    BY <1>1, UpdateWrites DEF ds
  <2> HIDE DEF d1
  <2>5. x = d1
    BY <2>3, <2>4
  <2>6. /\ d1 \in Database /\ d1.sync = d.sync /\ WritesRow(d, d1, k)
        /\ d1.transactions = d.transactions /\ d1.requests = d.requests /\ d1.providers = d.providers
    BY <2>2, <2>3, <2>5, RowHandler DEF ds, row, l, j
  <2> QED
    BY <2>1, <2>2, <2>4, <2>6, EntryAdded DEF l
<1> QED
  BY <1>2, <1>3 DEF EntryKinds

\* The handlers of the locks.
LEMMA LockHandlers ==
  ASSUME logs \in Seq(Log), NEW d \in Database, NEW k \in All, NEW e \in handle_log(d, k),
         logs[k].kind \in LockKinds
  PROVE  Writes(d, e, k)
<1> DEFINE l == logs[k]
           j == l.job
           v == IF l.kind = "LockCreated" THEN l.value ELSE NoRow
           rqs == [d.requests EXCEPT ![j] = v]
<1>1. j \in Jobs /\ v \in Values \cup {NoRow}
  BY LogParts
<1>2. e = [d EXCEPT !.requests[j] = v]
  BY DEF handle_log, handle_lock_created, handle_lock_deleted, LockKinds
<1> HIDE DEF j, v
<1>3. e = Tables(d, d.jobs, d.transactions, rqs, d.providers)
  BY <1>2 DEF Database, Tables
<1>4. rqs \in [Jobs -> Values \cup {NoRow}]
  BY <1>1, DatabaseParts
<1> HIDE DEF rqs
<1>5. /\ e \in Database /\ e.sync = d.sync /\ e.jobs = d.jobs /\ e.transactions = d.transactions
      /\ e.requests = rqs /\ e.providers = d.providers
  BY <1>3, <1>4, DatabaseParts, TablesMake
<1>6. l.kind \notin RowKinds /\ l.kind \notin EntryKinds /\ l.kind \notin ProviderKinds
  BY DEF RowKinds, RowUpdates, EntryKinds, LockKinds, ProviderKinds
<1> QED
  BY <1>5, <1>6 DEF Writes, WritesRow, WritesEntry, WritesRequest, WritesProvider, rqs, v, j

\* The handlers of the providers.
LEMMA ProviderHandlers ==
  ASSUME logs \in Seq(Log), NEW d \in Database, NEW k \in All, NEW e \in handle_log(d, k),
         logs[k].kind \in ProviderKinds
  PROVE  Writes(d, e, k)
<1> DEFINE l == logs[k]
           p == l.provider
           row == ProviderAfter(d.providers[p], l)
           pvs == [d.providers EXCEPT ![p] = row]
<1>1. l \in Log /\ p \in Providers
  BY LogParts DEF All
<1>2. (l.kind # "ProviderAdded" => IsActive(d, p)) /\ e = [d EXCEPT !.providers[p] = row]
  BY DEF handle_log, handle_provider_added, handle_provider_removed, handle_provider_updated_with_cp,
         ProviderKinds, ProviderAfter, SetProvider
<1>3. l.kind # "ProviderAdded" => d.providers[p] \in ProviderRow
  BY <1>1, <1>2, DatabaseParts DEF IsActive, ProviderRows
<1>4. row \in ProviderRow
  BY <1>1, <1>3, ProviderAfterIsRow
<1> HIDE DEF row, p
<1>5. e = Tables(d, d.jobs, d.transactions, d.requests, pvs)
  BY <1>2 DEF Database, Tables
<1>6. pvs \in [Providers -> ProviderRows]
  BY <1>1, <1>4, DatabaseParts DEF ProviderRows
<1> HIDE DEF pvs
<1>7. /\ e \in Database /\ e.sync = d.sync /\ e.jobs = d.jobs /\ e.transactions = d.transactions
      /\ e.requests = d.requests /\ e.providers = pvs
  BY <1>5, <1>6, DatabaseParts, TablesMake
<1>8. l.kind \notin RowKinds /\ l.kind \notin EntryKinds /\ l.kind \notin LockKinds
  BY DEF RowKinds, RowUpdates, EntryKinds, LockKinds, ProviderKinds
<1> QED
  BY <1>2, <1>4, <1>7, <1>8 DEF Writes, WritesRow, WritesEntry, WritesRequest, WritesProvider, pvs, row, p

\* A handler that succeeds leaves one of these.
LEMMA HandlersWrite ==
  ASSUME logs \in Seq(Log), NEW d \in Database, NEW k \in All, NEW e \in handle_log(d, k)
  PROVE  Writes(d, e, k)
<1>1. CASE logs[k].kind \in RowUpdates \ EntryKinds
  BY <1>1, RowHandlers
<1>2. CASE logs[k].kind \in EntryKinds
  BY <1>2, EntryHandlers
<1>3. CASE logs[k].kind \in LockKinds
  BY <1>3, LockHandlers
<1>4. CASE logs[k].kind \in ProviderKinds
  BY <1>4, ProviderHandlers
<1>5. CASE logs[k].kind \notin RowKinds \cup EntryKinds \cup LockKinds \cup ProviderKinds
  <2>1. e = d
    BY <1>5 DEF handle_log, RowKinds, RowUpdates, EntryKinds, LockKinds, ProviderKinds
  <2> QED
    BY <1>5, <2>1 DEF Writes, WritesRow, WritesEntry, WritesRequest, WritesProvider
<1>6. RowKinds \subseteq (RowUpdates \ EntryKinds) \cup EntryKinds
  BY DEF RowKinds, EntryKinds
<1> QED
  BY <1>1, <1>2, <1>3, <1>4, <1>5, <1>6

-----------------------------------------------------------------------------
(* The inductive invariant, first part: the chain and the loop.            *)

Types ==
  /\ logs \in Seq(Log)
  /\ height \in 0..MaxHeight /\ start \in StartBlocks
  /\ phase \in {"exited", "poll", "fetch", "tx"}
  /\ last \in 0..(U64 - 1) /\ latest \in 0..MaxHeight /\ end \in 0..MaxHeight
  /\ db \in Database /\ work \in Database
  /\ todo \subseteq All
  /\ crashes \in 0..MaxCrashes

\* Blocks are numbered upwards and the next one may already have logs.
Blocks ==
  /\ \A k \in All : 1 <= logs[k].block /\ logs[k].block <= height + 1
  /\ \A k, m \in All : k <= m => logs[k].block <= logs[m].block

\* The sync row is at a block of the chain, or before the first one to be indexed.
SyncRow ==
  /\ -1 <= db.sync
  /\ db.sync <= height \/ db.sync <= start - 1
  /\ phase # "exited" => start - 1 <= db.sync

\* last_updated is the sync row, unless that is -1, the largest number.
LastUpdated ==
  phase # "exited" => last = db.sync \/ (db.sync = -1 /\ last = U64 - 1)

\* The range begins behind the sync row and ends at or before the head.
Fetched ==
  phase \in {"fetch", "tx"} => db.sync = last /\ last < end /\ end <= height

\* What is handled of the range comes before what is left.
Handled ==
  phase = "tx" =>
    /\ work.sync = db.sync
    /\ todo \subseteq InRange(last + 1, end)
    /\ \A t \in todo : \A m \in InRange(last + 1, end) \ todo : m < t

\* Between two ranges there is no transaction.
Idle == phase # "tx" => work = EmptyDb

LoopInv == Types /\ Blocks /\ SyncRow /\ LastUpdated /\ Fetched /\ Handled /\ Idle

\* The least of two numbers.
LEMMA MinOfTwo ==
  ASSUME NEW a \in Int, NEW b \in Int
  PROVE  Min({a, b}) \in {a, b} /\ Min({a, b}) <= a /\ Min({a, b}) <= b
<1> DEFINE Least(x) == x \in {a, b} /\ \A y \in {a, b} : x <= y
<1>1. \E x : Least(x)
  <2>1. CASE a <= b
    BY <2>1, Least(a)
  <2>2. CASE b <= a
    BY <2>2, Least(b)
  <2> QED
    BY <2>1, <2>2
<1>2. Min({a, b}) = CHOOSE x : Least(x)
  BY DEF Min
<1>3. Least(CHOOSE x : Least(x))
  BY <1>1
<1> QED
  BY <1>2, <1>3

\* A sync row that fits in 64 bits is read back as itself, and -1 as the largest number.
LEMMA ReadBack ==
  ASSUME NEW s \in Int, -1 <= s, s < U64, 0 < U64
  PROVE  /\ s % U64 \in 0..(U64 - 1)
         /\ s >= 0 => s % U64 = s
         /\ s = -1 => s % U64 = U64 - 1
<1>1. U64 \in Nat
  BY IndexerAssumption
<1> QED
  BY <1>1

\* The empty database.
LEMMA EmptyIsDatabase == EmptyDb \in Database /\ EmptyDb.sync = -1
  BY DEF EmptyDb, Database, JobRows, ProviderRows

\* Moving the sync row changes no table.
LEMMA Resynced ==
  ASSUME NEW d \in Database, NEW s \in Int
  PROVE  LET e == [d EXCEPT !.sync = s]
         IN  /\ e \in Database /\ e.sync = s /\ e.jobs = d.jobs /\ e.transactions = d.transactions
             /\ e.requests = d.requests /\ e.providers = d.providers
  BY DEF Database

\* What the assumptions say of the numbers.
LEMMA Numbers ==
  ASSUME height \in 0..MaxHeight, start \in StartBlocks
  PROVE  /\ MaxHeight \in Nat /\ RangeSize \in Nat /\ RangeSize > 0 /\ U64 \in Nat
         /\ start \in Nat /\ height \in Nat /\ height <= MaxHeight
         /\ start + RangeSize + MaxHeight < U64
  BY IndexerAssumption

\* The initial states.
LEMMA LoopInit == Init => LoopInv
<1> SUFFICES ASSUME Init PROVE LoopInv
  OBVIOUS
<1>1. logs = <<>> /\ All = {}
  BY DEF Init, All
<1>2. Types
  <2>1. height \in 0..MaxHeight /\ start \in StartBlocks
    BY IndexerAssumption DEF Init
  <2>2. 0 \in 0..(U64 - 1) /\ 0 \in 0..MaxHeight /\ 0 \in 0..MaxCrashes
    BY <2>1, Numbers, IndexerAssumption
  <2>3. logs \in Seq(Log)
    BY <1>1
  <2> QED
    BY <2>1, <2>2, <2>3, EmptyIsDatabase DEF Init, Types
<1>3. Blocks
  BY <1>1 DEF Blocks
<1>4. SyncRow /\ LastUpdated /\ Fetched /\ Handled /\ Idle
  <2>1. db.sync = -1 /\ phase = "exited" /\ height = 0
    BY EmptyIsDatabase DEF Init
  <2> QED
    BY <2>1 DEF SyncRow, LastUpdated, Fetched, Handled, Idle, Init
<1> QED
  BY <1>2, <1>3, <1>4 DEF LoopInv

\* A log that is emitted: the earlier ones stay, and it is the only one of its block so far or
\* comes behind the others of that block.
LEMMA EmitGrows ==
  ASSUME Types, Blocks, Emit
  PROVE  \E l \in Log : /\ l.block = height + 1 /\ MayEmit(l) /\ logs' = Append(logs, l)
                        /\ logs' \in Seq(Log) /\ Len(logs') = Len(logs) + 1
                        /\ All' = All \cup {Len(logs) + 1}
                        /\ \A k \in All : logs'[k] = logs[k]
                        /\ logs'[Len(logs) + 1] = l
<1>1. PICK l \in [kind : Kinds, job : Jobs, provider : Providers, value : Values, block : {height + 1}] :
        MayEmit(l) /\ logs' = Append(logs, l)
  BY DEF Emit
<1>2. l \in Log /\ l.block = height + 1
  <2>1. height + 1 \in Nat
    BY Numbers DEF Types
  <2>2. Kinds \subseteq ProviderKinds \cup JobKinds
    BY KindsAssumption
  <2> QED
    BY <2>1, <2>2 DEF Log
<1>3. logs \in Seq(Log)
  BY DEF Types
<1>4. /\ logs' \in Seq(Log) /\ Len(logs') = Len(logs) + 1 /\ Len(logs) \in Nat
      /\ \A k \in 1..Len(logs) : logs'[k] = logs[k]
      /\ logs'[Len(logs) + 1] = l
  BY <1>1, <1>2, <1>3
<1>5. All' = All \cup {Len(logs) + 1}
  BY <1>4 DEF All
<1> QED
  BY <1>1, <1>2, <1>4, <1>5 DEF All

\* A log of the next block is in no range that ends at the head.
LEMMA RangesKeep ==
  ASSUME Types, Blocks, Emit, NEW a \in Int, NEW b \in Int, b <= height \/ b < a
  PROVE  InRange(a, b)' = InRange(a, b)
<1>1. PICK l \in Log : /\ l.block = height + 1 /\ All' = All \cup {Len(logs) + 1}
                       /\ \A k \in All : logs'[k] = logs[k]
                       /\ logs'[Len(logs) + 1] = l
  BY EmitGrows
<1>2. ASSUME NEW k PROVE k \in InRange(a, b)' <=> k \in InRange(a, b)
  <2>1. CASE k \in All
    BY <1>1, <2>1 DEF InRange
  <2>2. CASE k \notin All
    <3>1. k \notin InRange(a, b)
      BY <2>2 DEF InRange
    <3>2. SUFFICES ASSUME k \in InRange(a, b)' PROVE FALSE
      BY <3>1
    <3>3. k = Len(logs) + 1 /\ a <= logs'[k].block /\ logs'[k].block <= b
      BY <1>1, <2>2, <3>2 DEF InRange
    <3>4. a <= height + 1 /\ height + 1 <= b
      BY <1>1, <3>3
    <3>5. height \in Int
      BY Numbers DEF Types
    <3> QED
      BY <3>4, <3>5
  <2> QED
    BY <2>1, <2>2
<1> QED
  BY <1>2

\* The loop is idle again, or has not begun: the rest of the invariant is about the sync row.
LEMMA ExitKeeps ==
  ASSUME LoopInv, Exit, UNCHANGED <<chainVars, db>>, crashes' \in 0..MaxCrashes
  PROVE  LoopInv'
<1>1. /\ phase' = "exited" /\ last' = 0 /\ latest' = 0 /\ end' = 0 /\ work' = EmptyDb /\ todo' = {}
      /\ UNCHANGED <<logs, height, start, db>>
  BY DEF Exit, NoRange, chainVars
<1>2. Types'
  <2>1. 0 \in 0..(U64 - 1) /\ 0 \in 0..MaxHeight
    BY Numbers DEF LoopInv, Types
  <2> QED
    BY <1>1, <2>1, EmptyIsDatabase DEF LoopInv, Types
<1>3. Blocks'
  BY <1>1 DEF LoopInv, Blocks, All
<1>4. SyncRow' /\ LastUpdated' /\ Fetched' /\ Handled' /\ Idle'
  BY <1>1 DEF LoopInv, SyncRow, LastUpdated, Fetched, Handled, Idle, EmptyDb
<1> QED
  BY <1>2, <1>3, <1>4 DEF LoopInv

\* A log is emitted.
LEMMA LoopEmit == LoopInv /\ Emit => LoopInv'
<1> SUFFICES ASSUME LoopInv, Emit PROVE LoopInv'
  OBVIOUS
<1> USE DEF LoopInv
<1>1. UNCHANGED <<height, start, db, phase, last, latest, end, work, todo, crashes>>
  BY DEF Emit, loopVars
<1>2. PICK l \in Log : /\ l.block = height + 1 /\ logs' \in Seq(Log) /\ Len(logs') = Len(logs) + 1
                       /\ All' = All \cup {Len(logs) + 1}
                       /\ \A k \in All : logs'[k] = logs[k]
                       /\ logs'[Len(logs) + 1] = l
  BY EmitGrows
<1>3. height \in Nat /\ start \in Nat /\ last \in Nat /\ end \in Nat /\ Len(logs) \in Nat
  BY Numbers DEF Types
<1>4. Types'
  BY <1>1, <1>2 DEF Types
<1>5. Blocks'
  <2>1. ASSUME NEW k \in All' PROVE 1 <= logs'[k].block /\ logs'[k].block <= height + 1
    BY <1>2, <1>3 DEF Blocks
  <2>2. ASSUME NEW k \in All', NEW m \in All', k <= m PROVE logs'[k].block <= logs'[m].block
    <3>1. CASE m = Len(logs) + 1
      BY <1>2, <2>1, <3>1
    <3>2. CASE m # Len(logs) + 1
      <4>1. m \in All /\ k \in All
        BY <1>2, <1>3, <2>2, <3>2 DEF All
      <4> QED
        BY <1>2, <2>2, <4>1 DEF Blocks
    <3> QED
      BY <3>1, <3>2
  <2> QED
    BY <1>1, <2>1, <2>2 DEF Blocks
<1>6. SyncRow' /\ LastUpdated' /\ Fetched'
  BY <1>1 DEF SyncRow, LastUpdated, Fetched
<1>7. Handled'
  <2>1. SUFFICES ASSUME phase = "tx" PROVE Handled'
    BY <1>1 DEF Handled
  <2>2. end <= height
    BY <2>1 DEF Fetched
  <2>3. ASSUME NEW a \in Int, NEW b \in Int, a = last + 1, b = end
        PROVE  InRange(last + 1, end)' = InRange(last + 1, end)
    <3>1. InRange(a, b)' = InRange(a, b)
      BY <1>3, <2>2, <2>3, RangesKeep
    <3>2. InRange(last + 1, end)' = InRange(a, b)'
      BY <1>1, <2>3 DEF InRange
    <3> QED
      BY <2>3, <3>1, <3>2
  <2>4. InRange(last + 1, end)' = InRange(last + 1, end)
    BY <1>3, <2>3
  <2> QED
    BY <1>1, <2>1, <2>4 DEF Handled
<1>8. Idle'
  BY <1>1 DEF Idle, EmptyDb
<1> QED
  BY <1>4, <1>5, <1>6, <1>7, <1>8

\* A block is mined.
LEMMA LoopMine == LoopInv /\ Mine => LoopInv'
<1> SUFFICES ASSUME LoopInv, Mine PROVE LoopInv'
  OBVIOUS
<1> USE DEF LoopInv
<1>1. /\ UNCHANGED <<logs, start, db, phase, last, latest, end, work, todo, crashes>>
      /\ height' = height + 1 /\ height < MaxHeight
  BY DEF Mine, loopVars
<1>2. height \in Nat /\ MaxHeight \in Nat
  BY Numbers DEF Types
<1>3. Types'
  BY <1>1, <1>2 DEF Types, All
<1>4. Blocks'
  <2>1. All' = All /\ \A k \in All : logs'[k] = logs[k]
    BY <1>1 DEF All
  <2>2. ASSUME NEW k \in All PROVE 1 <= logs'[k].block /\ logs'[k].block <= height' + 1
    <3>1. logs[k].block \in Nat /\ 1 <= logs[k].block /\ logs[k].block <= height + 1
      BY LogParts DEF Blocks, Types
    <3> QED
      BY <1>1, <1>2, <3>1
  <2> QED
    BY <1>1, <2>1, <2>2 DEF Blocks
<1>5. SyncRow'
  <2>1. db.sync \in Int
    BY DatabaseParts DEF Types
  <2> QED
    BY <1>1, <1>2, <2>1 DEF SyncRow
<1>6. LastUpdated'
  BY <1>1 DEF LastUpdated
<1>7. Fetched'
  BY <1>1, <1>2 DEF Fetched, Types
<1>8. Handled'
  BY <1>1 DEF Handled, InRange, All
<1>9. Idle'
  BY <1>1 DEF Idle, EmptyDb
<1> QED
  BY <1>3, <1>4, <1>5, <1>6, <1>7, <1>8, <1>9

\* The indexer is started.
LEMMA LoopStart ==
  ASSUME LoopInv, Start
  PROVE  /\ LoopInv'
         /\ \/ db' = db
            \/ db.sync < start - 1 /\ db' = [db EXCEPT !.sync = start - 1]
<1> USE DEF LoopInv
<1>1. /\ phase = "exited" /\ db' = start_from(db) /\ last' = db'.sync % U64 /\ phase' = "poll"
      /\ UNCHANGED <<logs, height, start, latest, end, work, todo, crashes>>
  BY DEF Start, chainVars
<1>2. /\ height \in Nat /\ start \in Nat /\ U64 \in Nat /\ MaxHeight \in Nat
      /\ height < U64 /\ start < U64 /\ 0 < U64 /\ height <= MaxHeight
  BY Numbers DEF Types
<1>3. db \in Database /\ db.sync \in Int /\ start - 1 \in Int
  BY <1>2, DatabaseParts DEF Types
<1>4. /\ db' \in Database /\ db'.sync \in Int
      /\ \/ db' = db /\ db.sync >= start - 1
         \/ db.sync < start - 1 /\ db' = [db EXCEPT !.sync = start - 1] /\ db'.sync = start - 1
  BY <1>1, <1>3, Resynced DEF start_from
<1>5. /\ -1 <= db'.sync /\ db'.sync < U64 /\ start - 1 <= db'.sync
      /\ db'.sync <= height \/ db'.sync <= start - 1
  <2>1. CASE db' = db /\ db.sync >= start - 1
    BY <1>2, <1>3, <2>1 DEF SyncRow
  <2>2. CASE db'.sync = start - 1
    BY <1>2, <2>2
  <2> QED
    BY <1>4, <2>1, <2>2
<1> DEFINE s == db'.sync
<1> HIDE DEF s
<1>6. s % U64 \in 0..(U64 - 1) /\ (s >= 0 => s % U64 = s) /\ (s = -1 => s % U64 = U64 - 1)
  BY <1>2, <1>4, <1>5, ReadBack DEF s
<1>7. Types'
  BY <1>1, <1>4, <1>6 DEF Types, All, s
<1>8. Blocks'
  BY <1>1 DEF Blocks, All
<1>9. SyncRow'
  BY <1>1, <1>5 DEF SyncRow
<1>10. LastUpdated'
  BY <1>1, <1>4, <1>5, <1>6 DEF LastUpdated, s
<1>11. Fetched' /\ Handled'
  BY <1>1 DEF Fetched, Handled
<1>12. Idle'
  BY <1>1 DEF Idle, EmptyDb
<1> QED
  BY <1>4, <1>7, <1>8, <1>9, <1>10, <1>11, <1>12

\* A range is picked.
LEMMA LoopLatestBlock == LoopInv /\ LatestBlock => LoopInv'
<1> SUFFICES ASSUME LoopInv, LatestBlock PROVE LoopInv'
  OBVIOUS
<1> USE DEF LoopInv
<1>1. /\ phase = "poll" /\ height > last /\ latest' = height
      /\ end' = Min({last + 1 + RangeSize - 1, height}) /\ phase' = "fetch"
      /\ UNCHANGED <<logs, height, start, db, last, work, todo, crashes>>
  BY DEF LatestBlock, chainVars
<1>2. /\ height \in Nat /\ last \in Nat /\ RangeSize \in Nat /\ RangeSize > 0 /\ MaxHeight \in Nat
      /\ U64 \in Nat /\ height <= MaxHeight /\ height < U64 - 1
  BY Numbers DEF Types
<1> DEFINE b == last + 1 + RangeSize - 1
<1>3. b \in Int /\ b > last
  BY <1>2
<1> HIDE DEF b
<1>4. end' \in {b, height} /\ end' <= height
  <2>1. end' = Min({b, height}) /\ height \in Int
    BY <1>1, <1>2 DEF b
  <2>2. Min({b, height}) \in {b, height} /\ Min({b, height}) <= height
    BY <1>3, <2>1, MinOfTwo
  <2> QED
    BY <2>1, <2>2
<1>5. end' \in 0..MaxHeight /\ last < end' /\ height \in 0..MaxHeight
  BY <1>1, <1>2, <1>3, <1>4
<1>6. Types'
  BY <1>1, <1>5 DEF Types, All
<1>7. Blocks'
  BY <1>1 DEF Blocks, All
<1>8. SyncRow' /\ LastUpdated'
  BY <1>1 DEF SyncRow, LastUpdated
<1>9. Fetched'
  BY <1>1, <1>2, <1>4, <1>5 DEF LastUpdated, Fetched
<1>10. Handled'
  BY <1>1 DEF Handled
<1>11. Idle'
  BY <1>1 DEF Idle, EmptyDb
<1> QED
  BY <1>6, <1>7, <1>8, <1>9, <1>10, <1>11

\* The logs of the range are fetched.
LEMMA LoopFetchLogs == LoopInv /\ FetchLogs => LoopInv'
<1> SUFFICES ASSUME LoopInv, FetchLogs PROVE LoopInv'
  OBVIOUS
<1> USE DEF LoopInv
<1>1. /\ phase = "fetch" /\ todo' = InRange(last + 1, end) /\ work' = db /\ phase' = "tx"
      /\ UNCHANGED <<logs, height, start, db, last, latest, end, crashes>>
  BY DEF FetchLogs, chainVars
<1>2. Types'
  BY <1>1 DEF Types, All, InRange
<1>3. Blocks'
  BY <1>1 DEF Blocks, All
<1>4. SyncRow' /\ LastUpdated' /\ Fetched'
  BY <1>1 DEF SyncRow, LastUpdated, Fetched
<1>5. Handled'
  BY <1>1 DEF Handled, InRange, All
<1>6. Idle'
  BY <1>1 DEF Idle, EmptyDb
<1> QED
  BY <1>2, <1>3, <1>4, <1>5, <1>6

\* A log is handled.
LEMMA LoopHandleLog == LoopInv /\ HandleLog => LoopInv'
<1> SUFFICES ASSUME LoopInv, HandleLog PROVE LoopInv'
  OBVIOUS
<1> USE DEF LoopInv
<1>1. /\ phase = "tx"
      /\ UNCHANGED <<logs, height, start, db, phase, last, latest, end, crashes>>
  BY DEF HandleLog, chainVars
<1>2. PICK k \in todo : NextLog(k) /\ work' \in handle_log(work, k) /\ todo' = todo \ {k}
  BY DEF HandleLog
<1>3. k \in All /\ todo \subseteq All /\ All \subseteq Nat
  BY <1>2 DEF Types, All
<1>4. work' \in Database /\ work'.sync = work.sync
  BY <1>2, <1>3, HandlersWrite DEF Types, Writes
<1>5. Types'
  BY <1>1, <1>2, <1>3, <1>4 DEF Types, All
<1>6. Blocks'
  BY <1>1 DEF Blocks, All
<1>7. SyncRow' /\ LastUpdated' /\ Fetched'
  BY <1>1 DEF SyncRow, LastUpdated, Fetched
<1>8. Handled'
  <2> DEFINE R == InRange(last + 1, end)
  <2>1. R' = R
    BY <1>1 DEF InRange, All
  <2>2. todo \subseteq R /\ R \subseteq Nat /\ \A t \in todo : \A m \in R \ todo : m < t
    BY <1>1, <1>3 DEF Handled, InRange
  <2>3. \A t \in todo : k <= t
    BY <1>2 DEF NextLog
  <2> HIDE DEF R
  <2>4. ASSUME NEW t \in todo', NEW m \in R \ todo' PROVE m < t
    <3>1. t \in todo /\ t # k /\ t \in Nat /\ k \in Nat
      BY <1>2, <2>4, <1>3
    <3>2. CASE m = k
      BY <2>3, <3>1, <3>2
    <3>3. CASE m # k
      BY <1>2, <2>2, <2>4, <3>1, <3>3
    <3> QED
      BY <3>2, <3>3
  <2>5. todo' \subseteq R'
    BY <1>2, <2>1, <2>2
  <2>6. work'.sync = db'.sync
    BY <1>1, <1>4 DEF Handled
  <2> QED
    BY <2>1, <2>4, <2>5, <2>6 DEF Handled, R
<1>9. Idle'
  BY <1>1 DEF Idle, EmptyDb
<1> QED
  BY <1>5, <1>6, <1>7, <1>8, <1>9

\* A range is committed.
LEMMA LoopCommit ==
  ASSUME LoopInv, Commit
  PROVE  LoopInv' /\ db' = [work EXCEPT !.sync = end] /\ db'.sync = end /\ db.sync < end /\ end <= height
<1> USE DEF LoopInv
<1>1. /\ phase = "tx" /\ todo = {} /\ db' = [work EXCEPT !.sync = end] /\ last' = end /\ phase' = "poll"
      /\ latest' = 0 /\ end' = 0 /\ work' = EmptyDb /\ todo' = {}
      /\ UNCHANGED <<logs, height, start, crashes>>
  BY DEF Commit, NoRange, chainVars
<1>2. /\ end \in Nat /\ end <= height /\ last < end /\ db.sync = last /\ last \in Nat /\ start - 1 <= db.sync
      /\ height \in Nat /\ height < U64 /\ U64 \in Nat /\ MaxHeight \in Nat /\ start \in Nat
  BY <1>1, Numbers DEF Types, Fetched, SyncRow
<1>3. db' \in Database /\ db'.sync = end
  BY <1>1, <1>2, Resynced DEF Types
<1>4. Types'
  <2>1. 0 \in 0..MaxHeight /\ end \in 0..(U64 - 1)
    BY <1>2
  <2> QED
    BY <1>1, <1>3, <2>1, EmptyIsDatabase DEF Types, All
<1>5. Blocks'
  BY <1>1 DEF Blocks, All
<1>6. SyncRow'
  BY <1>1, <1>2, <1>3 DEF SyncRow
<1>7. LastUpdated' /\ Fetched' /\ Handled'
  BY <1>1, <1>3 DEF LastUpdated, Fetched, Handled
<1>8. Idle'
  BY <1>1 DEF Idle, EmptyDb
<1> QED
  BY <1>1, <1>2, <1>3, <1>4, <1>5, <1>6, <1>7, <1>8

\* Every step keeps it.
LEMMA LoopStep == LoopInv /\ [Next]_vars => LoopInv'
<1> SUFFICES ASSUME LoopInv, [Next]_vars PROVE LoopInv'
  OBVIOUS
<1>0. crashes \in 0..MaxCrashes /\ MaxCrashes \in Nat
  BY IndexerAssumption DEF LoopInv, Types
<1>1. CASE Emit
  BY <1>1, LoopEmit
<1>2. CASE Mine
  BY <1>2, LoopMine
<1>3. CASE Start
  BY <1>3, LoopStart
<1>4. CASE LatestBlock
  BY <1>4, LoopLatestBlock
<1>5. CASE RpcBehind
  BY <1>5, <1>0, ExitKeeps DEF RpcBehind
<1>6. CASE FetchLogs
  BY <1>6, LoopFetchLogs
<1>7. CASE HandleLog
  BY <1>7, LoopHandleLog
<1>8. CASE HandlerError
  BY <1>8, <1>0, ExitKeeps DEF HandlerError
<1>9. CASE Commit
  BY <1>9, LoopCommit
<1>10. CASE Crash
  <2>1. crashes' \in 0..MaxCrashes
    BY <1>0, <1>10 DEF Crash
  <2> QED
    BY <1>10, <2>1, ExitKeeps DEF Crash
<1>11. CASE UNCHANGED vars
  BY <1>11 DEF vars, chainVars, loopVars, LoopInv, Types, Blocks, SyncRow, LastUpdated, Fetched, Handled,
               Idle, EmptyDb, InRange, All
<1> QED
  BY <1>1, <1>2, <1>3, <1>4, <1>5, <1>6, <1>7, <1>8, <1>9, <1>10, <1>11 DEF Next, Loop

\* The loop's invariant holds.
THEOREM LoopInvariance == Spec => []LoopInv
<1> QED
  BY LoopInit, LoopStep, PTL DEF Spec

\* The type invariant holds.
THEOREM IndexerTypeCorrect == Spec => []TypeOK
<1>1. LoopInv => TypeOK
  <2> SUFFICES ASSUME LoopInv PROVE TypeOK
    OBVIOUS
  <2>1. Types /\ height \in Nat /\ height <= MaxHeight /\ MaxHeight \in Nat /\ start \in Nat
    BY Numbers DEF LoopInv, Types
  <2>2. db \in Database /\ db.sync \in Int /\ work \in Database
    BY DatabaseParts DEF LoopInv, Types
  <2>3. db.sync \in -1..(start + MaxHeight)
    BY <2>1, <2>2 DEF LoopInv, SyncRow
  <2>4. work.sync \in -1..(start + MaxHeight)
    <3>1. CASE phase = "tx"
      BY <2>3, <3>1 DEF LoopInv, Handled
    <3>2. CASE phase # "tx"
      BY <2>1, <3>2, EmptyIsDatabase DEF LoopInv, Idle
    <3> QED
      BY <3>1, <3>2
  <2>5. ASSUME NEW d \in Database
        PROVE  /\ \A j \in Jobs : /\ d.jobs[j] = NoRow \/ d.jobs[j] \in JobRow
                                  /\ d.requests[j] \in Values \cup {NoRow}
               /\ \A t \in d.transactions : t \in TxRow
               /\ \A p \in Providers : d.providers[p] = NoRow \/ d.providers[p] \in ProviderRow
    BY DatabaseParts DEF JobRows, ProviderRows
  <2> QED
    BY <2>1, <2>2, <2>3, <2>4, <2>5 DEF Types, TypeOK
<1> QED
  BY <1>1, LoopInvariance, PTL

\* The sync row never moves back and never passes the head of the chain (event_loop, start_from).
THEOREM SyncMovesOn == Spec => SyncMovesForward
<1> DEFINE Moves == db'.sync # db.sync =>
                      db'.sync > db.sync /\ (db'.sync <= height \/ db'.sync = start - 1)
<1>1. LoopInv /\ [Next]_vars => [Moves]_vars
  <2> SUFFICES ASSUME LoopInv, [Next]_vars, db' # db PROVE Moves
    BY DEF vars
  <2>1. db \in Database /\ db.sync \in Int /\ start \in Nat /\ end \in Nat
    BY DatabaseParts, Numbers DEF LoopInv, Types
  <2>2. CASE Start
    <3>1. db.sync < start - 1 /\ db' = [db EXCEPT !.sync = start - 1]
      BY <2>2, LoopStart
    <3>2. db'.sync = start - 1
      BY <2>1, <3>1, Resynced
    <3> QED
      BY <2>1, <3>1, <3>2
  <2>3. CASE Commit
    <3>1. db'.sync = end /\ db.sync < end /\ end <= height
      BY <2>3, LoopCommit
    <3> QED
      BY <2>1, <3>1
  <2>4. Start \/ Commit
    BY DEF Next, Loop, vars, chainVars, loopVars, Emit, Mine, LatestBlock, RpcBehind, FetchLogs, HandleLog,
           HandlerError, Crash
  <2> QED
    BY <2>2, <2>3, <2>4
<1> QED
  BY <1>1, LoopInvariance, PTL DEF Spec, SyncMovesForward

-----------------------------------------------------------------------------
(* The inductive invariant, second part: the tables.                       *)

\* The logs that are handled when a range is half done.
Seen == InRange(start, end) \ todo

\* The tables of d are what the logs at ps say, and no log of ps is about a job that has no row.
Matches(d, ps) ==
  /\ \A j \in Jobs : JobMatches(d, ps, j) /\ (d.jobs[j] = NoRow => Of(ps, j, RowKinds) = {})
  /\ \A p \in Providers : ProviderMatches(d, ps, p)

TablesMatch ==
  /\ Matches(db, Indexed)
  /\ phase = "tx" => Matches(work, Seen)

\* k comes behind the positions ps.
Behind(k, ps) == ps \subseteq All /\ k \in All /\ \A m \in ps : m < k

\* The positions ps of the logs of the kinds ks, after the log at k.
Grow(ps, k, ks) == IF logs[k].kind \in ks THEN ps \cup {k} ELSE ps

\* A log more about a job is one more of its logs if it is of one of the kinds.
LEMMA OfGrows ==
  ASSUME NEW ps, NEW k, NEW j, NEW ks, logs[k].job = j
  PROVE  Of(ps \cup {k}, j, ks) = Grow(Of(ps, j, ks), k, ks)
  BY DEF Grow, Of

\* Positions behind which k comes, and some of them.
LEMMA BehindSome ==
  ASSUME NEW ps, NEW k, Behind(k, ps), NEW qs \in SUBSET ps
  PROVE  Behind(k, qs) /\ k \notin qs
  BY DEF Behind, All

\* The last of the positions and the one behind them is the latter.
LEMMA MaxOfNext ==
  ASSUME NEW ps, NEW k, Behind(k, ps)
  PROVE  Max(ps \cup {k}) = k
<1> DEFINE S == ps \cup {k}
           Most(x) == x \in S /\ \A y \in S : x >= y
<1>1. k \in Nat /\ S \subseteq Nat
  BY DEF Behind, All
<1>2. Most(k)
  BY <1>1 DEF Behind
<1>3. Max(S) = CHOOSE x : Most(x)
  BY DEF Max
<1>4. Most(CHOOSE x : Most(x))
  BY <1>2
<1>5. ASSUME NEW x, Most(x) PROVE x = k
  BY <1>1, <1>2, <1>5
<1> HIDE DEF Most
<1> QED
  BY <1>3, <1>4, <1>5

\* Its value is the newest.
LEMMA NewestOfNext ==
  ASSUME NEW ps, NEW k, Behind(k, ps)
  PROVE  Newest(ps \cup {k}) = logs[k].value
  BY MaxOfNext DEF Newest

\* Its value is added.
LEMMA AmountsOfNext ==
  ASSUME logs \in Seq(Log), NEW ps, NEW k, Behind(k, ps)
  PROVE  /\ Amounts(ps \cup {k}) = Amounts(ps) + logs[k].value
         /\ Amounts(ps) \in Int
<1>1. k \in 1..Len(logs) /\ k \notin ps
  BY BehindSome DEF Behind, All
<1> QED
  BY <1>1, TotalAdds DEF Amounts

\* Every sum is a number.
LEMMA AmountsIsInt ==
  ASSUME logs \in Seq(Log), NEW ps
  PROVE  Amounts(ps) \in Int
<1>1. PICK f : IsSum(f, logs, ps, Len(logs))
  BY Len(logs) \in 0..Len(logs), SumsExist
<1> QED
  BY <1>1, TotalIs DEF Amounts

\* What RowMatches says, for the seven sets of positions it looks at.
RowSays(row, o, i, s, c, r, m, t) ==
  /\ row = NoRow <=> o = {}
  /\ row # NoRow =>
       /\ row.balance = Amounts(i) - Amounts(s)
       /\ row.is_closed = (c # {})
       /\ row.rate = Newest(r)
       /\ row.metadata = Newest(m)
       /\ row.last_settled = logs[Max(t)].block

\* The two are the same.
LEMMA RowMatchesSays ==
  ASSUME NEW row, NEW ps, NEW j
  PROVE  RowMatches(row, ps, j) <=>
           RowSays(row, Of(ps, j, {"JobOpened"}), Of(ps, j, {"JobOpened", "JobDeposited"}),
                   Of(ps, j, {"JobSettled", "JobWithdrew"}), Of(ps, j, {"JobClosed"}),
                   Of(ps, j, {"JobOpened", "JobReviseRateFinalized"}),
                   Of(ps, j, {"JobOpened", "JobMetadataUpdated"}),
                   Of(ps, j, {"JobOpened", "JobSettled"}))
  BY DEF RowMatches, RowSays

\* The row of a job still says what its logs do after one more of them.
LEMMA RowSaysGrows ==
  ASSUME logs \in Seq(Log), NEW ps, NEW k, Behind(k, ps), logs[k].kind \in RowKinds, NEW row,
         NEW o \in SUBSET ps, NEW i \in SUBSET ps, NEW s \in SUBSET ps, NEW c \in SUBSET ps,
         NEW r \in SUBSET ps, NEW m \in SUBSET ps, NEW t \in SUBSET ps,
         RowSays(row, o, i, s, c, r, m, t),
         row = NoRow => o = {} /\ i = {} /\ s = {} /\ c = {} /\ r = {} /\ m = {} /\ t = {},
         logs[k].kind = "JobOpened" => row = NoRow,
         logs[k].kind # "JobOpened" => row \in JobRow,
         RowAfter(row, logs[k]) \in JobRow
  PROVE  RowSays(RowAfter(row, logs[k]), Grow(o, k, {"JobOpened"}), Grow(i, k, {"JobOpened", "JobDeposited"}),
                 Grow(s, k, {"JobSettled", "JobWithdrew"}), Grow(c, k, {"JobClosed"}),
                 Grow(r, k, {"JobOpened", "JobReviseRateFinalized"}),
                 Grow(m, k, {"JobOpened", "JobMetadataUpdated"}),
                 Grow(t, k, {"JobOpened", "JobSettled"}))
<1> DEFINE l == logs[k]
           v == l.value
           b == l.block
           new == RowAfter(row, l)
<1>1. l \in Log /\ v \in Int /\ v \in Values
  <2>1. k \in All
    BY DEF Behind
  <2> QED
    BY <2>1, LogParts DEF All
<1>2. new # NoRow
  BY RowAssumption
<1>3. l.kind # "JobOpened" => row \in JobRow /\ row # NoRow /\ o # {}
  BY RowAssumption DEF RowSays
<1>4. \A qs \in SUBSET ps : /\ Amounts(qs \cup {k}) = Amounts(qs) + v /\ Amounts(qs) \in Int
                            /\ Newest(qs \cup {k}) = v /\ logs[Max(qs \cup {k})].block = b
  <2> TAKE qs \in SUBSET ps
  <2>1. Behind(k, qs)
    BY BehindSome
  <2> QED
    BY <2>1, AmountsOfNext, NewestOfNext, MaxOfNext
<1>5. row # NoRow => /\ row.balance = Amounts(i) - Amounts(s) /\ row.is_closed = (c # {})
                     /\ row.rate = Newest(r) /\ row.metadata = Newest(m)
                     /\ row.last_settled = logs[Max(t)].block
  BY DEF RowSays
<1>6. Amounts({}) = 0
  BY TotalOfNone DEF Amounts
<1>7. CASE l.kind = "JobOpened"
  <2>1. new = [provider |-> l.provider, metadata |-> v, rate |-> v, balance |-> v,
               last_settled |-> b, is_closed |-> FALSE]
    BY <1>7 DEF RowAfter
  <2>2. o = {} /\ i = {} /\ s = {} /\ c = {} /\ r = {} /\ m = {} /\ t = {}
    BY <1>7
  <2>3. /\ new.balance = v /\ new.is_closed = FALSE /\ new.rate = v /\ new.metadata = v
        /\ new.last_settled = b
    BY <2>1
  <2>4. /\ Amounts(i \cup {k}) - Amounts(s) = v /\ Newest(r \cup {k}) = v /\ Newest(m \cup {k}) = v
        /\ logs[Max(t \cup {k})].block = b
    <3>1. Amounts(i \cup {k}) = Amounts(i) + v /\ Amounts(i) = 0 /\ Amounts(s) = 0
      BY <1>4, <1>6, <2>2
    <3> HIDE DEF v
    <3>2. Amounts(i \cup {k}) - Amounts(s) = v
      BY <1>1, <3>1
    <3> QED
      BY <1>4, <3>2
  <2>5. /\ Grow(o, k, {"JobOpened"}) = o \cup {k} /\ Grow(i, k, {"JobOpened", "JobDeposited"}) = i \cup {k}
        /\ Grow(s, k, {"JobSettled", "JobWithdrew"}) = s /\ Grow(c, k, {"JobClosed"}) = c
        /\ Grow(r, k, {"JobOpened", "JobReviseRateFinalized"}) = r \cup {k}
        /\ Grow(m, k, {"JobOpened", "JobMetadataUpdated"}) = m \cup {k}
        /\ Grow(t, k, {"JobOpened", "JobSettled"}) = t \cup {k}
    BY <1>7 DEF Grow
  <2> HIDE DEF new, v, b
  <2>6. RowSays(new, o \cup {k}, i \cup {k}, s, c, r \cup {k}, m \cup {k}, t \cup {k})
    BY <1>2, <2>2, <2>3, <2>4 DEF RowSays
  <2> QED
    BY <2>5, <2>6 DEF new
<1>8. CASE l.kind = "JobSettled"
  <2>1. new = [row EXCEPT !.balance = @ - v, !.last_settled = b]
    BY <1>8 DEF RowAfter
  <2>2. /\ Grow(o, k, {"JobOpened"}) = o /\ Grow(i, k, {"JobOpened", "JobDeposited"}) = i
        /\ Grow(s, k, {"JobSettled", "JobWithdrew"}) = s \cup {k} /\ Grow(c, k, {"JobClosed"}) = c
        /\ Grow(r, k, {"JobOpened", "JobReviseRateFinalized"}) = r
        /\ Grow(m, k, {"JobOpened", "JobMetadataUpdated"}) = m
        /\ Grow(t, k, {"JobOpened", "JobSettled"}) = t \cup {k}
    BY <1>8 DEF Grow
  <2> HIDE DEF v, b
  <2>3. /\ new.balance = row.balance - v /\ new.is_closed = row.is_closed /\ new.rate = row.rate
        /\ new.metadata = row.metadata /\ new.last_settled = b
    BY <1>3, <1>8, <2>1 DEF JobRow
  <2>4. row.balance - v = Amounts(i) - Amounts(s \cup {k})
    <3>1. Amounts(i) \in Int /\ Amounts(s) \in Int /\ Amounts(s \cup {k}) = Amounts(s) + v
      BY <1>4
    <3> QED
      BY <1>1, <1>3, <1>5, <1>8, <3>1
  <2> HIDE DEF new
  <2>5. RowSays(new, o, i, s \cup {k}, c, r, m, t \cup {k})
    BY <1>2, <1>3, <1>4, <1>5, <1>8, <2>3, <2>4 DEF RowSays
  <2> QED
    BY <2>2, <2>5 DEF new
<1>9. CASE l.kind = "JobClosed"
  <2>1. new = [row EXCEPT !.is_closed = TRUE]
    BY <1>9 DEF RowAfter
  <2>2. /\ Grow(o, k, {"JobOpened"}) = o /\ Grow(i, k, {"JobOpened", "JobDeposited"}) = i
        /\ Grow(s, k, {"JobSettled", "JobWithdrew"}) = s /\ Grow(c, k, {"JobClosed"}) = c \cup {k}
        /\ Grow(r, k, {"JobOpened", "JobReviseRateFinalized"}) = r
        /\ Grow(m, k, {"JobOpened", "JobMetadataUpdated"}) = m
        /\ Grow(t, k, {"JobOpened", "JobSettled"}) = t
    BY <1>9 DEF Grow
  <2>3. /\ new.balance = row.balance /\ new.is_closed = TRUE /\ new.rate = row.rate
        /\ new.metadata = row.metadata /\ new.last_settled = row.last_settled
    BY <1>3, <1>9, <2>1 DEF JobRow
  <2> HIDE DEF new, v, b
  <2>4. RowSays(new, o, i, s, c \cup {k}, r, m, t)
    BY <1>2, <1>3, <1>5, <1>9, <2>3 DEF RowSays
  <2> QED
    BY <2>2, <2>4 DEF new
<1>10. CASE l.kind = "JobDeposited"
  <2>1. new = [row EXCEPT !.balance = @ + v]
    BY <1>10 DEF RowAfter
  <2>2. /\ Grow(o, k, {"JobOpened"}) = o /\ Grow(i, k, {"JobOpened", "JobDeposited"}) = i \cup {k}
        /\ Grow(s, k, {"JobSettled", "JobWithdrew"}) = s /\ Grow(c, k, {"JobClosed"}) = c
        /\ Grow(r, k, {"JobOpened", "JobReviseRateFinalized"}) = r
        /\ Grow(m, k, {"JobOpened", "JobMetadataUpdated"}) = m
        /\ Grow(t, k, {"JobOpened", "JobSettled"}) = t
    BY <1>10 DEF Grow
  <2> HIDE DEF v, b
  <2>3. /\ new.balance = row.balance + v /\ new.is_closed = row.is_closed /\ new.rate = row.rate
        /\ new.metadata = row.metadata /\ new.last_settled = row.last_settled
    BY <1>3, <1>10, <2>1 DEF JobRow
  <2>4. row.balance + v = Amounts(i \cup {k}) - Amounts(s)
    <3>1. Amounts(i) \in Int /\ Amounts(s) \in Int /\ Amounts(i \cup {k}) = Amounts(i) + v
      BY <1>4
    <3> QED
      BY <1>1, <1>3, <1>5, <1>10, <3>1
  <2> HIDE DEF new
  <2>5. RowSays(new, o, i \cup {k}, s, c, r, m, t)
    BY <1>2, <1>3, <1>5, <1>10, <2>3, <2>4 DEF RowSays
  <2> QED
    BY <2>2, <2>5 DEF new
<1>11. CASE l.kind = "JobWithdrew"
  <2>1. new = [row EXCEPT !.balance = @ - v]
    BY <1>11 DEF RowAfter
  <2>2. /\ Grow(o, k, {"JobOpened"}) = o /\ Grow(i, k, {"JobOpened", "JobDeposited"}) = i
        /\ Grow(s, k, {"JobSettled", "JobWithdrew"}) = s \cup {k} /\ Grow(c, k, {"JobClosed"}) = c
        /\ Grow(r, k, {"JobOpened", "JobReviseRateFinalized"}) = r
        /\ Grow(m, k, {"JobOpened", "JobMetadataUpdated"}) = m
        /\ Grow(t, k, {"JobOpened", "JobSettled"}) = t
    BY <1>11 DEF Grow
  <2> HIDE DEF v, b
  <2>3. /\ new.balance = row.balance - v /\ new.is_closed = row.is_closed /\ new.rate = row.rate
        /\ new.metadata = row.metadata /\ new.last_settled = row.last_settled
    BY <1>3, <1>11, <2>1 DEF JobRow
  <2>4. row.balance - v = Amounts(i) - Amounts(s \cup {k})
    <3>1. Amounts(i) \in Int /\ Amounts(s) \in Int /\ Amounts(s \cup {k}) = Amounts(s) + v
      BY <1>4
    <3> QED
      BY <1>1, <1>3, <1>5, <1>11, <3>1
  <2> HIDE DEF new
  <2>5. RowSays(new, o, i, s \cup {k}, c, r, m, t)
    BY <1>2, <1>3, <1>5, <1>11, <2>3, <2>4 DEF RowSays
  <2> QED
    BY <2>2, <2>5 DEF new
<1>12. CASE l.kind = "JobReviseRateFinalized"
  <2>1. new = [row EXCEPT !.rate = v]
    BY <1>12 DEF RowAfter
  <2>2. /\ Grow(o, k, {"JobOpened"}) = o /\ Grow(i, k, {"JobOpened", "JobDeposited"}) = i
        /\ Grow(s, k, {"JobSettled", "JobWithdrew"}) = s /\ Grow(c, k, {"JobClosed"}) = c
        /\ Grow(r, k, {"JobOpened", "JobReviseRateFinalized"}) = r \cup {k}
        /\ Grow(m, k, {"JobOpened", "JobMetadataUpdated"}) = m
        /\ Grow(t, k, {"JobOpened", "JobSettled"}) = t
    BY <1>12 DEF Grow
  <2> HIDE DEF v, b
  <2>3. /\ new.balance = row.balance /\ new.is_closed = row.is_closed /\ new.rate = v
        /\ new.metadata = row.metadata /\ new.last_settled = row.last_settled
    BY <1>3, <1>12, <2>1 DEF JobRow
  <2> HIDE DEF new
  <2>4. RowSays(new, o, i, s, c, r \cup {k}, m, t)
    BY <1>2, <1>3, <1>4, <1>5, <1>12, <2>3 DEF RowSays
  <2> QED
    BY <2>2, <2>4 DEF new
<1>13. CASE l.kind = "JobMetadataUpdated"
  <2>1. new = [row EXCEPT !.metadata = v]
    BY <1>13 DEF RowAfter
  <2>2. /\ Grow(o, k, {"JobOpened"}) = o /\ Grow(i, k, {"JobOpened", "JobDeposited"}) = i
        /\ Grow(s, k, {"JobSettled", "JobWithdrew"}) = s /\ Grow(c, k, {"JobClosed"}) = c
        /\ Grow(r, k, {"JobOpened", "JobReviseRateFinalized"}) = r
        /\ Grow(m, k, {"JobOpened", "JobMetadataUpdated"}) = m \cup {k}
        /\ Grow(t, k, {"JobOpened", "JobSettled"}) = t
    BY <1>13 DEF Grow
  <2> HIDE DEF v, b
  <2>3. /\ new.balance = row.balance /\ new.is_closed = row.is_closed /\ new.rate = row.rate
        /\ new.metadata = v /\ new.last_settled = row.last_settled
    BY <1>3, <1>13, <2>1 DEF JobRow
  <2> HIDE DEF new
  <2>4. RowSays(new, o, i, s, c, r, m \cup {k}, t)
    BY <1>2, <1>3, <1>4, <1>5, <1>13, <2>3 DEF RowSays
  <2> QED
    BY <2>2, <2>4 DEF new
<1> QED
  BY <1>7, <1>8, <1>9, <1>10, <1>11, <1>12, <1>13 DEF RowKinds, RowUpdates

\* One log more about any job keeps its row true to the logs.
LEMMA RowsGrow ==
  ASSUME logs \in Seq(Log), NEW d \in Database, NEW e, NEW ps, NEW k, Behind(k, ps),
         WritesRow(d, e, k), NEW j \in Jobs,
         RowMatches(d.jobs[j], ps, j), d.jobs[j] = NoRow => Of(ps, j, RowKinds) = {}
  PROVE  /\ RowMatches(e.jobs[j], ps \cup {k}, j)
         /\ e.jobs[j] = NoRow => Of(ps \cup {k}, j, RowKinds) = {}
<1> DEFINE row == d.jobs[j]
           at(ks) == Of(ps, j, ks)
           after(ks) == Of(ps \cup {k}, j, ks)
<1>1. d.jobs \in [Jobs -> JobRows] /\ logs[k].job \in Jobs
  <2>1. k \in All
    BY DEF Behind
  <2> QED
    BY <2>1, DatabaseParts, LogParts
<1>2. CASE logs[k].kind \in RowKinds /\ logs[k].job = j
  <2>1. /\ logs[k].kind = "JobOpened" => row = NoRow
        /\ logs[k].kind # "JobOpened" => row \in JobRow
        /\ e.jobs[j] = RowAfter(row, logs[k]) /\ RowAfter(row, logs[k]) \in JobRow
    BY <1>1, <1>2 DEF WritesRow
  <2>2. \A ks : at(ks) \in SUBSET ps /\ after(ks) = Grow(at(ks), k, ks)
    <3> TAKE ks
    <3>1. at(ks) \in SUBSET ps
      BY DEF Of
    <3> QED
      BY <1>2, <3>1 DEF Of, Grow
  <2>3. row = NoRow => \A ks \in SUBSET RowKinds : at(ks) = {}
    BY DEF Of
  <2>4. /\ {"JobOpened"} \in SUBSET RowKinds /\ {"JobOpened", "JobDeposited"} \in SUBSET RowKinds
        /\ {"JobSettled", "JobWithdrew"} \in SUBSET RowKinds /\ {"JobClosed"} \in SUBSET RowKinds
        /\ {"JobOpened", "JobReviseRateFinalized"} \in SUBSET RowKinds
        /\ {"JobOpened", "JobMetadataUpdated"} \in SUBSET RowKinds
        /\ {"JobOpened", "JobSettled"} \in SUBSET RowKinds
    BY DEF RowKinds, RowUpdates
  <2>5. RowSays(row, at({"JobOpened"}), at({"JobOpened", "JobDeposited"}), at({"JobSettled", "JobWithdrew"}),
                at({"JobClosed"}), at({"JobOpened", "JobReviseRateFinalized"}),
                at({"JobOpened", "JobMetadataUpdated"}), at({"JobOpened", "JobSettled"}))
    BY RowMatchesSays
  <2> HIDE DEF row, at, after
  <2>6. RowSays(RowAfter(row, logs[k]), Grow(at({"JobOpened"}), k, {"JobOpened"}),
                Grow(at({"JobOpened", "JobDeposited"}), k, {"JobOpened", "JobDeposited"}),
                Grow(at({"JobSettled", "JobWithdrew"}), k, {"JobSettled", "JobWithdrew"}),
                Grow(at({"JobClosed"}), k, {"JobClosed"}),
                Grow(at({"JobOpened", "JobReviseRateFinalized"}), k, {"JobOpened", "JobReviseRateFinalized"}),
                Grow(at({"JobOpened", "JobMetadataUpdated"}), k, {"JobOpened", "JobMetadataUpdated"}),
                Grow(at({"JobOpened", "JobSettled"}), k, {"JobOpened", "JobSettled"}))
    BY <1>2, <2>1, <2>2, <2>3, <2>4, <2>5, RowSaysGrows
  <2>7. RowSays(e.jobs[j], after({"JobOpened"}), after({"JobOpened", "JobDeposited"}),
                after({"JobSettled", "JobWithdrew"}), after({"JobClosed"}),
                after({"JobOpened", "JobReviseRateFinalized"}), after({"JobOpened", "JobMetadataUpdated"}),
                after({"JobOpened", "JobSettled"}))
    BY <2>1, <2>2, <2>6
  <2>8. RowMatches(e.jobs[j], ps \cup {k}, j)
    BY <2>7, RowMatchesSays DEF after
  <2> QED
    BY <2>1, <2>8, RowAssumption
<1>3. CASE logs[k].kind \notin RowKinds \/ logs[k].job # j
  <2>1. e.jobs[j] = d.jobs[j]
    BY <1>1, <1>3 DEF WritesRow
  <2>2. \A ks \in SUBSET RowKinds : after(ks) = at(ks)
    BY <1>3 DEF Of
  <2>3. /\ {"JobOpened"} \in SUBSET RowKinds /\ {"JobOpened", "JobDeposited"} \in SUBSET RowKinds
        /\ {"JobSettled", "JobWithdrew"} \in SUBSET RowKinds /\ {"JobClosed"} \in SUBSET RowKinds
        /\ {"JobOpened", "JobReviseRateFinalized"} \in SUBSET RowKinds
        /\ {"JobOpened", "JobMetadataUpdated"} \in SUBSET RowKinds
        /\ {"JobOpened", "JobSettled"} \in SUBSET RowKinds
    BY DEF RowKinds, RowUpdates
  <2>4. RowSays(row, at({"JobOpened"}), at({"JobOpened", "JobDeposited"}), at({"JobSettled", "JobWithdrew"}),
                at({"JobClosed"}), at({"JobOpened", "JobReviseRateFinalized"}),
                at({"JobOpened", "JobMetadataUpdated"}), at({"JobOpened", "JobSettled"}))
    BY RowMatchesSays
  <2>5. RowSays(row, after({"JobOpened"}), after({"JobOpened", "JobDeposited"}),
                after({"JobSettled", "JobWithdrew"}), after({"JobClosed"}),
                after({"JobOpened", "JobReviseRateFinalized"}), after({"JobOpened", "JobMetadataUpdated"}),
                after({"JobOpened", "JobSettled"}))
    <3> HIDE DEF at, after
    <3> QED
      BY <2>2, <2>3, <2>4
  <2>6. RowMatches(row, ps \cup {k}, j)
    BY <2>5, RowMatchesSays
  <2>7. after(RowKinds) = at(RowKinds)
    BY <2>2
  <2> QED
    BY <2>1, <2>6, <2>7
<1> QED
  BY <1>2, <1>3

\* Nothing follows what comes behind.
LEMMA NoneFollows ==
  ASSUME NEW ps, NEW k, Behind(k, ps), NEW qs \in SUBSET ps
  PROVE  \A m \in qs : m < k /\ ~(k < m)
<1> TAKE m \in qs
<1>1. k \in Nat /\ m \in Nat /\ m < k
  BY DEF Behind, All
<1> QED
  BY <1>1

\* The locks of a job are at some of the positions.
LEMMA LocksAreSome ==
  ASSUME NEW ps, NEW j
  PROVE  Locks(ps, j) \in SUBSET ps
  BY DEF Locks, NotUndone, Of

\* A lock that is created is one lock more.
LEMMA LockAdded ==
  ASSUME NEW ps, NEW k, Behind(k, ps), NEW j, logs[k].job = j, logs[k].kind = "LockCreated"
  PROVE  Locks(ps \cup {k}, j) = Locks(ps, j) \cup {k}
<1> DEFINE as == Of(ps, j, {"LockCreated"})
           bs == Of(ps, j, {"LockDeleted"})
<1>1. as \in SUBSET ps /\ bs \in SUBSET ps
  BY DEF Of
<1>2. Of(ps \cup {k}, j, {"LockCreated"}) = as \cup {k}
  BY DEF Of
<1>3. Of(ps \cup {k}, j, {"LockDeleted"}) = bs
  <2>1. logs[k].kind \notin {"LockDeleted"}
    OBVIOUS
  <2> QED
    BY <2>1 DEF Of
<1> HIDE DEF as, bs
<1>4. NotUndone(as \cup {k}, bs) = NotUndone(as, bs) \cup {k}
  <2>1. (\A m \in as : m < k /\ ~(k < m)) /\ \A m \in bs : m < k /\ ~(k < m)
    BY <1>1, NoneFollows
  <2> QED
    BY <2>1 DEF NotUndone
<1> QED
  BY <1>2, <1>3, <1>4 DEF Locks, as, bs

\* When a lock is deleted none is left.
LEMMA LockDropped ==
  ASSUME NEW ps, NEW k, Behind(k, ps), NEW j, logs[k].job = j, logs[k].kind = "LockDeleted"
  PROVE  Locks(ps \cup {k}, j) = {}
<1> DEFINE as == Of(ps, j, {"LockCreated"})
           bs == Of(ps, j, {"LockDeleted"})
<1>1. as \in SUBSET ps /\ bs \in SUBSET ps
  BY DEF Of
<1>2. Of(ps \cup {k}, j, {"LockDeleted"}) = bs \cup {k}
  BY DEF Of
<1>3. Of(ps \cup {k}, j, {"LockCreated"}) = as
  <2>1. logs[k].kind \notin {"LockCreated"}
    OBVIOUS
  <2> QED
    BY <2>1 DEF Of
<1> HIDE DEF as, bs
<1>4. NotUndone(as, bs \cup {k}) = {}
  <2>1. (\A m \in as : m < k /\ ~(k < m)) /\ \A m \in bs : m < k /\ ~(k < m)
    BY <1>1, NoneFollows
  <2> QED
    BY <2>1 DEF NotUndone
<1> QED
  BY <1>2, <1>3, <1>4 DEF Locks, as, bs

\* Another log changes no lock of the job.
LEMMA LocksSame ==
  ASSUME NEW ps, NEW k, NEW j, logs[k].job # j \/ logs[k].kind \notin LockKinds
  PROVE  Locks(ps \cup {k}, j) = Locks(ps, j)
<1>1. /\ logs[k].job # j \/ logs[k].kind \notin {"LockCreated"}
      /\ logs[k].job # j \/ logs[k].kind \notin {"LockDeleted"}
  BY DEF LockKinds
<1>2. Of(ps \cup {k}, j, {"LockCreated"}) = Of(ps, j, {"LockCreated"})
  BY <1>1 DEF Of
<1>3. Of(ps \cup {k}, j, {"LockDeleted"}) = Of(ps, j, {"LockDeleted"})
  BY <1>1 DEF Of
<1> QED
  BY <1>2, <1>3 DEF Locks

\* A provider that is added is there.
LEMMA ProviderIsAdded ==
  ASSUME NEW ps, NEW k, Behind(k, ps), NEW p, logs[k].provider = p, logs[k].kind = "ProviderAdded"
  PROVE  Additions(ps \cup {k}, p) # {}
<1> DEFINE as == OfProvider(ps, p, {"ProviderAdded"})
           bs == OfProvider(ps, p, {"ProviderRemoved"})
<1>1. as \in SUBSET ps /\ bs \in SUBSET ps
  BY DEF OfProvider
<1>2. OfProvider(ps \cup {k}, p, {"ProviderAdded"}) = as \cup {k}
  BY DEF OfProvider
<1>3. OfProvider(ps \cup {k}, p, {"ProviderRemoved"}) = bs
  <2>1. logs[k].kind \notin {"ProviderRemoved"}
    OBVIOUS
  <2> QED
    BY <2>1 DEF OfProvider
<1> HIDE DEF as, bs
<1>4. NotUndone(as \cup {k}, bs) = NotUndone(as, bs) \cup {k}
  <2>1. (\A m \in as : m < k /\ ~(k < m)) /\ \A m \in bs : m < k /\ ~(k < m)
    BY <1>1, NoneFollows
  <2> QED
    BY <2>1 DEF NotUndone
<1> QED
  BY <1>2, <1>3, <1>4 DEF Additions, as, bs

\* A provider that is removed is not there.
LEMMA ProviderIsRemoved ==
  ASSUME NEW ps, NEW k, Behind(k, ps), NEW p, logs[k].provider = p, logs[k].kind = "ProviderRemoved"
  PROVE  Additions(ps \cup {k}, p) = {}
<1> DEFINE as == OfProvider(ps, p, {"ProviderAdded"})
           bs == OfProvider(ps, p, {"ProviderRemoved"})
<1>1. as \in SUBSET ps /\ bs \in SUBSET ps
  BY DEF OfProvider
<1>2. OfProvider(ps \cup {k}, p, {"ProviderRemoved"}) = bs \cup {k}
  BY DEF OfProvider
<1>3. OfProvider(ps \cup {k}, p, {"ProviderAdded"}) = as
  <2>1. logs[k].kind \notin {"ProviderAdded"}
    OBVIOUS
  <2> QED
    BY <2>1 DEF OfProvider
<1> HIDE DEF as, bs
<1>4. NotUndone(as, bs \cup {k}) = {}
  <2>1. (\A m \in as : m < k /\ ~(k < m)) /\ \A m \in bs : m < k /\ ~(k < m)
    BY <1>1, NoneFollows
  <2> QED
    BY <2>1 DEF NotUndone
<1> QED
  BY <1>2, <1>3, <1>4 DEF Additions, as, bs

\* Another log neither adds nor removes the provider.
LEMMA AdditionsSame ==
  ASSUME NEW ps, NEW k, NEW p,
         logs[k].provider # p \/ logs[k].kind \notin {"ProviderAdded", "ProviderRemoved"}
  PROVE  Additions(ps \cup {k}, p) = Additions(ps, p)
<1>1. /\ logs[k].provider # p \/ logs[k].kind \notin {"ProviderAdded"}
      /\ logs[k].provider # p \/ logs[k].kind \notin {"ProviderRemoved"}
  OBVIOUS
<1>2. OfProvider(ps \cup {k}, p, {"ProviderAdded"}) = OfProvider(ps, p, {"ProviderAdded"})
  BY <1>1 DEF OfProvider
<1>3. OfProvider(ps \cup {k}, p, {"ProviderRemoved"}) = OfProvider(ps, p, {"ProviderRemoved"})
  BY <1>1 DEF OfProvider
<1> QED
  BY <1>2, <1>3 DEF Additions

\* One log more keeps the requests true to the logs.
LEMMA RequestsGrow ==
  ASSUME logs \in Seq(Log), NEW d \in Database, NEW e, NEW ps, NEW k, Behind(k, ps),
         WritesRequest(d, e, k), NEW j \in Jobs, d.requests[j] = Newest(Locks(ps, j))
  PROVE  e.requests[j] = Newest(Locks(ps \cup {k}, j))
<1>1. d.requests \in [Jobs -> Values \cup {NoRow}] /\ logs[k].job \in Jobs
  <2>1. k \in All
    BY DEF Behind
  <2> QED
    BY <2>1, DatabaseParts, LogParts
<1>2. CASE logs[k].job = j /\ logs[k].kind = "LockCreated"
  <2>1. e.requests[j] = logs[k].value
    BY <1>1, <1>2 DEF WritesRequest, LockKinds
  <2> DEFINE ls == Locks(ps, j)
  <2>2. Locks(ps \cup {k}, j) = ls \cup {k}
    BY <1>2, LockAdded, ZenonT(60)
  <2>3. ls \in SUBSET ps
    BY LocksAreSome
  <2> HIDE DEF ls
  <2>4. Behind(k, ls)
    BY <2>3, BehindSome
  <2>5. Newest(ls \cup {k}) = logs[k].value
    BY <2>4, NewestOfNext
  <2> QED
    BY <2>1, <2>2, <2>5
<1>3. CASE logs[k].job = j /\ logs[k].kind = "LockDeleted"
  <2>1. e.requests[j] = NoRow
    BY <1>1, <1>3 DEF WritesRequest, LockKinds
  <2>2. Locks(ps \cup {k}, j) = {}
    BY <1>3, LockDropped
  <2> QED
    BY <2>1, <2>2 DEF Newest
<1>4. CASE logs[k].job # j \/ logs[k].kind \notin LockKinds
  <2>1. e.requests[j] = d.requests[j]
    BY <1>1, <1>4 DEF WritesRequest
  <2>2. Locks(ps \cup {k}, j) = Locks(ps, j)
    BY <1>4, LocksSame
  <2> QED
    BY <2>1, <2>2
<1> QED
  BY <1>2, <1>3, <1>4 DEF LockKinds

\* Positions of the transactions of job j.
Entries(txs, j) == {t.idx : t \in {t \in txs : t.job = j}}

\* One log more keeps the transactions true to the logs.
LEMMA EntriesGrow ==
  ASSUME logs \in Seq(Log), NEW d \in Database, NEW e, NEW ps, NEW k, Behind(k, ps),
         WritesEntry(d, e, k), NEW j \in Jobs, Entries(d.transactions, j) = Of(ps, j, EntryKinds)
  PROVE  Entries(e.transactions, j) = Of(ps \cup {k}, j, EntryKinds)
<1>0. k \in All
  BY DEF Behind
<1>1. CASE logs[k].kind \in EntryKinds
  <2> DEFINE dep == logs[k].kind # "JobWithdrew"
             x == Entry(k, dep)
  <2>1. e.transactions = d.transactions \cup {x}
    BY <1>1 DEF WritesEntry
  <2>2. x.idx = k /\ x.job = logs[k].job
    BY DEF Entry
  <2> HIDE DEF x
  <2>3. CASE logs[k].job = j
    <3>1. Entries(e.transactions, j) = Entries(d.transactions, j) \cup {k}
      BY <2>1, <2>2, <2>3 DEF Entries
    <3>2. Of(ps \cup {k}, j, EntryKinds) = Of(ps, j, EntryKinds) \cup {k}
      BY <1>1, <2>3 DEF Of
    <3> QED
      BY <3>1, <3>2
  <2>4. CASE logs[k].job # j
    <3>1. Entries(e.transactions, j) = Entries(d.transactions, j)
      BY <2>1, <2>2, <2>4 DEF Entries
    <3>2. Of(ps \cup {k}, j, EntryKinds) = Of(ps, j, EntryKinds)
      BY <2>4 DEF Of
    <3> QED
      BY <3>1, <3>2
  <2> QED
    BY <2>3, <2>4
<1>2. CASE logs[k].kind \notin EntryKinds
  <2>1. e.transactions = d.transactions
    BY <1>2 DEF WritesEntry
  <2>2. Of(ps \cup {k}, j, EntryKinds) = Of(ps, j, EntryKinds)
    BY <1>2 DEF Of
  <2> QED
    BY <2>1, <2>2
<1> QED
  BY <1>1, <1>2

\* One log more keeps the providers true to the logs.
LEMMA ProvidersGrow ==
  ASSUME logs \in Seq(Log), NEW d \in Database, NEW e, NEW ps, NEW k, Behind(k, ps),
         WritesProvider(d, e, k), NEW p \in Providers, ProviderMatches(d, ps, p)
  PROVE  ProviderMatches(e, ps \cup {k}, p)
<1> DEFINE l == logs[k]
           row == d.providers[p]
           cps == {"ProviderAdded", "ProviderUpdatedWithCp"}
           at == OfProvider(ps, p, cps)
           after == OfProvider(ps \cup {k}, p, cps)
<1>1. d.providers \in [Providers -> ProviderRows] /\ l.provider \in Providers
  <2>1. k \in All
    BY DEF Behind
  <2> QED
    BY <2>1, DatabaseParts, LogParts
<1>2. at \in SUBSET ps
  BY DEF OfProvider
<1>3. /\ IsActive(d, p) <=> Additions(ps, p) # {}
      /\ row # NoRow => row.cp = Newest(at)
  BY DEF ProviderMatches
<1>4. CASE l.provider = p /\ l.kind \in ProviderKinds
  <2>1. /\ l.kind # "ProviderAdded" => IsActive(d, p)
        /\ e.providers[p] = ProviderAfter(row, l) /\ ProviderAfter(row, l) \in ProviderRow
    BY <1>1, <1>4 DEF WritesProvider
  <2>2. e.providers[p] # NoRow
    BY <2>1, RowAssumption
  <2>3. l.kind # "ProviderAdded" => row \in ProviderRow /\ row # NoRow /\ row.is_active
    BY <1>1, <2>1 DEF IsActive, ProviderRows
  <2>4. l.kind \in cps => after = at \cup {k} /\ Newest(after) = l.value
    <3>1. SUFFICES ASSUME l.kind \in cps PROVE after = at \cup {k} /\ Newest(after) = l.value
      OBVIOUS
    <3>2. after = at \cup {k}
      BY <1>4, <3>1 DEF OfProvider
    <3> HIDE DEF at, after
    <3> QED
      BY <1>2, <3>2, BehindSome, NewestOfNext
  <2> HIDE DEF at, after, row
  <2>5. CASE l.kind = "ProviderAdded"
    <3>1. e.providers[p] = [cp |-> l.value, is_active |-> TRUE]
      BY <2>1, <2>5 DEF ProviderAfter
    <3>2. Additions(ps \cup {k}, p) # {}
      BY <1>4, <2>5, ProviderIsAdded
    <3>3. e.providers[p].cp = l.value /\ e.providers[p].is_active
      BY <3>1
    <3>4. IsActive(e, p)
      BY <2>2, <3>3 DEF IsActive
    <3>5. e.providers[p].cp = Newest(after)
      BY <2>4, <2>5, <3>3
    <3> QED
      BY <3>2, <3>4, <3>5 DEF ProviderMatches, after
  <2>6. CASE l.kind = "ProviderRemoved"
    <3>1. e.providers[p] = [row EXCEPT !.is_active = FALSE]
      BY <2>1, <2>6 DEF ProviderAfter
    <3>2. ~e.providers[p].is_active /\ e.providers[p].cp = row.cp
      BY <2>3, <2>6, <3>1 DEF ProviderRow
    <3>3. Additions(ps \cup {k}, p) = {}
      BY <1>4, <2>6, ProviderIsRemoved
    <3>4. after = at
      <4>1. l.kind \notin cps
        BY <2>6
      <4> QED
        BY <4>1 DEF at, after, OfProvider
    <3> QED
      BY <1>3, <2>2, <2>3, <2>6, <3>2, <3>3, <3>4 DEF ProviderMatches, IsActive, after
  <2>7. CASE l.kind = "ProviderUpdatedWithCp"
    <3>1. e.providers[p] = [row EXCEPT !.cp = l.value]
      BY <2>1, <2>7 DEF ProviderAfter
    <3>2. e.providers[p].is_active = row.is_active /\ e.providers[p].cp = l.value
      BY <2>3, <2>7, <3>1 DEF ProviderRow
    <3>3. Additions(ps \cup {k}, p) = Additions(ps, p)
      BY <2>7, AdditionsSame
    <3> QED
      BY <1>3, <2>1, <2>2, <2>3, <2>4, <2>7, <3>2, <3>3 DEF ProviderMatches, IsActive, after
  <2> QED
    BY <1>4, <2>5, <2>6, <2>7 DEF ProviderKinds
<1>5. CASE l.provider # p \/ l.kind \notin ProviderKinds
  <2>1. e.providers[p] = row
    BY <1>1, <1>5 DEF WritesProvider
  <2>2. Additions(ps \cup {k}, p) = Additions(ps, p)
    BY <1>5, AdditionsSame DEF ProviderKinds
  <2>3. after = at
    <3>1. l.provider # p \/ l.kind \notin cps
      BY <1>5 DEF ProviderKinds
    <3> QED
      BY <3>1 DEF OfProvider
  <2> QED
    BY <1>3, <2>1, <2>2, <2>3 DEF ProviderMatches, IsActive
<1> QED
  BY <1>4, <1>5

\* A handler that succeeds keeps the tables true to the logs that are handled.
LEMMA HandlersMatch ==
  ASSUME logs \in Seq(Log), NEW d \in Database, NEW ps, NEW k, Behind(k, ps), Matches(d, ps),
         NEW e \in handle_log(d, k)
  PROVE  Matches(e, ps \cup {k})
<1>1. Writes(d, e, k)
  BY HandlersWrite DEF Behind
<1>2. /\ WritesRow(d, e, k) /\ WritesEntry(d, e, k) /\ WritesRequest(d, e, k) /\ WritesProvider(d, e, k)
  BY <1>1 DEF Writes
<1>3. ASSUME NEW j \in Jobs
      PROVE  JobMatches(e, ps \cup {k}, j) /\ (e.jobs[j] = NoRow => Of(ps \cup {k}, j, RowKinds) = {})
  <2>1. JobMatches(d, ps, j) /\ (d.jobs[j] = NoRow => Of(ps, j, RowKinds) = {})
    BY DEF Matches
  <2>2. /\ RowMatches(d.jobs[j], ps, j) /\ d.requests[j] = Newest(Locks(ps, j))
        /\ Entries(d.transactions, j) = Of(ps, j, EntryKinds)
    BY <2>1 DEF JobMatches, Entries, EntryKinds
  <2>3. /\ RowMatches(e.jobs[j], ps \cup {k}, j)
        /\ e.jobs[j] = NoRow => Of(ps \cup {k}, j, RowKinds) = {}
    BY <1>2, <2>1, <2>2, RowsGrow
  <2>4. e.requests[j] = Newest(Locks(ps \cup {k}, j))
    BY <1>2, <2>2, RequestsGrow
  <2>5. Entries(e.transactions, j) = Of(ps \cup {k}, j, EntryKinds)
    BY <1>2, <2>2, EntriesGrow
  <2>6. JobMatches(e, ps \cup {k}, j)
    BY <2>3, <2>4, <2>5 DEF JobMatches, Entries, EntryKinds
  <2> QED
    BY <2>3, <2>6
<1>4. ASSUME NEW p \in Providers PROVE ProviderMatches(e, ps \cup {k}, p)
  <2>1. ProviderMatches(d, ps, p)
    BY DEF Matches
  <2> QED
    BY <1>2, <2>1, ProvidersGrow
<1> QED
  BY <1>3, <1>4 DEF Matches

\* The earlier logs stay what they were.
LogsStay ==
  /\ All \subseteq All'
  /\ \A k \in All : logs'[k] = logs[k]
  /\ \A ps \in SUBSET All : Total(logs', ps) = Total(logs, ps)

\* Then what is said of earlier positions stays true: the sets of positions,
LEMMA SetsStay ==
  ASSUME LogsStay, NEW ps \in SUBSET All, NEW x, NEW ks
  PROVE  /\ Of(ps, x, ks)' = Of(ps, x, ks) /\ Of(ps, x, ks) \in SUBSET All
         /\ OfProvider(ps, x, ks)' = OfProvider(ps, x, ks) /\ OfProvider(ps, x, ks) \in SUBSET All
<1>1. \A k \in ps : logs'[k] = logs[k]
  BY DEF LogsStay
<1> QED
  BY <1>1 DEF Of, OfProvider

\* the locks and additions,
LEMMA LocksStay ==
  ASSUME LogsStay, NEW ps \in SUBSET All, NEW x
  PROVE  /\ Locks(ps, x)' = Locks(ps, x) /\ Locks(ps, x) \in SUBSET All
         /\ Additions(ps, x)' = Additions(ps, x)
<1>1. /\ Of(ps, x, {"LockCreated"})' = Of(ps, x, {"LockCreated"})
      /\ Of(ps, x, {"LockDeleted"})' = Of(ps, x, {"LockDeleted"})
      /\ OfProvider(ps, x, {"ProviderAdded"})' = OfProvider(ps, x, {"ProviderAdded"})
      /\ OfProvider(ps, x, {"ProviderRemoved"})' = OfProvider(ps, x, {"ProviderRemoved"})
  BY SetsStay
<1>2. Locks(ps, x)' = Locks(ps, x)
  BY <1>1 DEF Locks
<1>3. Additions(ps, x)' = Additions(ps, x)
  BY <1>1 DEF Additions
<1>4. Locks(ps, x) \in SUBSET ps
  BY LocksAreSome
<1> QED
  BY <1>2, <1>3, <1>4

\* the last one of some positions is one of them,
LEMMA MaxIsOne ==
  ASSUME NEW ps \in SUBSET All, ps # {}, logs \in Seq(Log)
  PROVE  Max(ps) \in All
<1> DEFINE Most(x) == x \in ps /\ \A y \in ps : x >= y
           S == {n \in Nat : (\E m \in ps : m <= n) /\ n <= Len(logs) =>
                             \E x \in ps : x <= n /\ \A y \in ps : y <= n => x >= y}
<1>0. ps \subseteq Nat /\ Len(logs) \in Nat /\ \A m \in ps : 1 <= m /\ m <= Len(logs)
  BY DEF All
<1>1. 0 \in S
  BY <1>0
<1>2. ASSUME NEW n \in Nat, n \in S PROVE n + 1 \in S
  <2>1. SUFFICES ASSUME \E m \in ps : m <= n + 1, n + 1 <= Len(logs)
                 PROVE  \E x \in ps : x <= n + 1 /\ \A y \in ps : y <= n + 1 => x >= y
    OBVIOUS
  <2>2. CASE n + 1 \in ps
    BY <2>2, <1>0
  <2>3. CASE n + 1 \notin ps
    <3>1. \A m \in ps : m <= n + 1 => m <= n
      BY <1>0, <2>3
    <3>2. \E m \in ps : m <= n
      BY <2>1, <3>1
    <3>3. n <= Len(logs)
      BY <2>1, <1>0
    <3>4. PICK x \in ps : x <= n /\ \A y \in ps : y <= n => x >= y
      BY <1>2, <3>2, <3>3
    <3>5. x <= n + 1 /\ \A y \in ps : y <= n + 1 => x >= y
      BY <3>1, <3>4, <1>0
    <3> QED
      BY <3>5
  <2> QED
    BY <2>2, <2>3
<1> HIDE DEF S
<1>3. Len(logs) \in S
  BY <1>0, <1>1, <1>2, CountsUp
<1>4. \E x : Most(x)
  <2>1. \E m \in ps : m <= Len(logs)
    BY <1>0
  <2>2. \E x \in ps : x <= Len(logs) /\ \A y \in ps : y <= Len(logs) => x >= y
    BY <1>0, <1>3, <2>1 DEF S
  <2> QED
    BY <1>0, <2>2
<1>5. Max(ps) = CHOOSE x : Most(x)
  BY DEF Max
<1>6. Most(CHOOSE x : Most(x))
  BY <1>4
<1> QED
  BY <1>5, <1>6

\* sums and newest values.
LEMMA ValuesStay ==
  ASSUME LogsStay, logs \in Seq(Log), NEW ps \in SUBSET All
  PROVE  /\ Amounts(ps)' = Amounts(ps) /\ Newest(ps)' = Newest(ps)
         /\ ps # {} => logs'[Max(ps)] = logs[Max(ps)]
<1>1. Amounts(ps)' = Amounts(ps)
  BY DEF LogsStay, Amounts
<1>2. ps # {} => logs'[Max(ps)] = logs[Max(ps)]
  BY MaxIsOne DEF LogsStay
<1>3. Newest(ps)' = Newest(ps)
  BY <1>2 DEF Newest
<1> QED
  BY <1>1, <1>2, <1>3

\* A job's row stays true to the logs, seen as what the seven sets of positions say,
LEMMA RowSaysStays ==
  ASSUME LogsStay, logs \in Seq(Log), NEW row,
         NEW o \in SUBSET All, NEW i \in SUBSET All, NEW s \in SUBSET All, NEW c \in SUBSET All,
         NEW r \in SUBSET All, NEW m \in SUBSET All, NEW t \in SUBSET All, o \subseteq t,
         RowSays(row, o, i, s, c, r, m, t)
  PROVE  RowSays(row, o, i, s, c, r, m, t)'
<1>1. Amounts(i)' = Amounts(i) /\ Amounts(s)' = Amounts(s)
  BY ValuesStay
<1>2. Newest(r)' = Newest(r) /\ Newest(m)' = Newest(m)
  BY ValuesStay
<1>3. t # {} => logs'[Max(t)] = logs[Max(t)]
  BY ValuesStay
<1>4. row # NoRow => t # {}
  BY DEF RowSays
<1> QED
  BY <1>1, <1>2, <1>3, <1>4 DEF RowSays

\* and seen as a whole.
LEMMA RowStays ==
  ASSUME LogsStay, logs \in Seq(Log), NEW ps \in SUBSET All, NEW j, NEW row, RowMatches(row, ps, j)
  PROVE  RowMatches(row, ps, j)'
<1>1. PICK o, i, s, c : /\ o = Of(ps, j, {"JobOpened"}) /\ i = Of(ps, j, {"JobOpened", "JobDeposited"})
                        /\ s = Of(ps, j, {"JobSettled", "JobWithdrew"}) /\ c = Of(ps, j, {"JobClosed"})
  OBVIOUS
<1>2. PICK r, m, t : /\ r = Of(ps, j, {"JobOpened", "JobReviseRateFinalized"})
                     /\ m = Of(ps, j, {"JobOpened", "JobMetadataUpdated"})
                     /\ t = Of(ps, j, {"JobOpened", "JobSettled"})
  OBVIOUS
<1>3. /\ o \in SUBSET All /\ i \in SUBSET All /\ s \in SUBSET All /\ c \in SUBSET All
      /\ r \in SUBSET All /\ m \in SUBSET All /\ t \in SUBSET All
  BY <1>1, <1>2, SetsStay
<1>4. /\ (Of(ps, j, {"JobOpened"}))' = o /\ (Of(ps, j, {"JobOpened", "JobDeposited"}))' = i
      /\ (Of(ps, j, {"JobSettled", "JobWithdrew"}))' = s /\ (Of(ps, j, {"JobClosed"}))' = c
      /\ (Of(ps, j, {"JobOpened", "JobReviseRateFinalized"}))' = r
      /\ (Of(ps, j, {"JobOpened", "JobMetadataUpdated"}))' = m
      /\ (Of(ps, j, {"JobOpened", "JobSettled"}))' = t
  BY <1>1, <1>2, SetsStay
<1>5. o \subseteq t
  BY <1>1, <1>2 DEF Of
<1>6. RowSays(row, o, i, s, c, r, m, t)
  BY <1>1, <1>2 DEF RowMatches, RowSays
<1>7. RowSays(row, o, i, s, c, r, m, t)'
  BY <1>3, <1>5, <1>6, RowSaysStays
<1> QED
  BY <1>4, <1>7 DEF RowMatches, RowSays

\* Everything about a job stays true to the logs.
LEMMA JobStays ==
  ASSUME LogsStay, logs \in Seq(Log), NEW ps \in SUBSET All, NEW j, NEW d, JobMatches(d, ps, j)
  PROVE  JobMatches(d, ps, j)'
<1>1. RowMatches(d.jobs[j], ps, j)'
  BY RowStays DEF JobMatches
<1>2. PICK l : l = Locks(ps, j)
  OBVIOUS
<1>3. (Locks(ps, j))' = l /\ l \in SUBSET All
  BY <1>2, LocksStay
<1>4. Newest(l)' = Newest(l) /\ d.requests[j] = Newest(l)
  BY <1>2, <1>3, ValuesStay DEF JobMatches
<1>5. (d.requests[j] = Newest(Locks(ps, j)))'
  <2>1. (Newest(Locks(ps, j)))' = Newest(l)'
    BY <1>3 DEF Newest
  <2> QED
    BY <1>4, <2>1
<1>6. (Of(ps, j, {"JobOpened", "JobDeposited", "JobWithdrew"}))'
        = Of(ps, j, {"JobOpened", "JobDeposited", "JobWithdrew"})
  BY SetsStay
<1>7. ({t.idx : t \in {t \in d.transactions : t.job = j}}
         = Of(ps, j, {"JobOpened", "JobDeposited", "JobWithdrew"}))'
  BY <1>6 DEF JobMatches
<1> QED
  BY <1>1, <1>5, <1>7 DEF JobMatches

\* So does everything about a provider.
LEMMA ProviderStays ==
  ASSUME LogsStay, logs \in Seq(Log), NEW ps \in SUBSET All, NEW p, NEW d, ProviderMatches(d, ps, p)
  PROVE  ProviderMatches(d, ps, p)'
<1>1. PICK c : c = OfProvider(ps, p, {"ProviderAdded", "ProviderUpdatedWithCp"})
  OBVIOUS
<1>2. (OfProvider(ps, p, {"ProviderAdded", "ProviderUpdatedWithCp"}))' = c /\ c \in SUBSET All
  BY <1>1, SetsStay
<1>3. Newest(c)' = Newest(c)
  BY <1>2, ValuesStay
<1>4. (Newest(OfProvider(ps, p, {"ProviderAdded", "ProviderUpdatedWithCp"})))' = Newest(c)'
  BY <1>2 DEF Newest
<1>5. (Additions(ps, p))' = Additions(ps, p)
  BY LocksStay
<1>6. (IsActive(d, p) <=> Additions(ps, p) # {})'
  BY <1>5 DEF ProviderMatches, IsActive
<1>7. d.providers[p] # NoRow => d.providers[p].cp = Newest(c)
  BY <1>1 DEF ProviderMatches
<1>8. (d.providers[p] # NoRow =>
         d.providers[p].cp = Newest(OfProvider(ps, p, {"ProviderAdded", "ProviderUpdatedWithCp"})))'
  BY <1>3, <1>4, <1>7
<1> QED
  BY <1>6, <1>8 DEF ProviderMatches

\* The tables stay true to the logs.
LEMMA MatchesStay ==
  ASSUME LogsStay, logs \in Seq(Log), NEW ps \in SUBSET All, NEW d, Matches(d, ps)
  PROVE  Matches(d, ps)'
<1>1. ASSUME NEW j \in Jobs PROVE (JobMatches(d, ps, j) /\ (d.jobs[j] = NoRow => Of(ps, j, RowKinds) = {}))'
  <2>1. JobMatches(d, ps, j)'
    BY JobStays DEF Matches
  <2>2. (Of(ps, j, RowKinds))' = Of(ps, j, RowKinds)
    BY SetsStay
  <2>3. d.jobs[j] = NoRow => Of(ps, j, RowKinds) = {}
    BY DEF Matches
  <2> QED
    BY <2>1, <2>2, <2>3
<1>2. ASSUME NEW p \in Providers PROVE ProviderMatches(d, ps, p)'
  BY ProviderStays DEF Matches
<1> QED
  BY <1>1, <1>2 DEF Matches

\* They do so when no log is emitted, and when one is.
LEMMA LogsStayThere ==
  ASSUME LoopInv, UNCHANGED logs \/ Emit
  PROVE  LogsStay
<1>1. logs \in Seq(Log)
  BY DEF LoopInv, Types
<1>2. CASE UNCHANGED logs
  BY <1>2 DEF LogsStay, All
<1>3. CASE Emit
  <2>1. PICK l \in Log : /\ logs' = Append(logs, l) /\ All' = All \cup {Len(logs) + 1}
                         /\ \A k \in All : logs'[k] = logs[k]
    BY <1>3, EmitGrows DEF LoopInv
  <2>2. ASSUME NEW ps \in SUBSET All PROVE Total(logs', ps) = Total(logs, ps)
    <3>1. ps \in SUBSET (1..Len(logs))
      BY DEF All
    <3> QED
      BY <1>1, <2>1, <3>1, TotalOfAppend
  <2> QED
    BY <2>1, <2>2 DEF LogsStay
<1> QED
  BY <1>2, <1>3

\* The tables say nothing of the sync row.
LEMMA MatchesResynced ==
  ASSUME NEW d \in Database, NEW ps, Matches(d, ps), NEW s \in Int
  PROVE  Matches([d EXCEPT !.sync = s], ps)
<1> DEFINE e == [d EXCEPT !.sync = s]
<1>1. /\ e.jobs = d.jobs /\ e.transactions = d.transactions /\ e.requests = d.requests
      /\ e.providers = d.providers
  BY Resynced
<1> HIDE DEF e
<1>2. ASSUME NEW j \in Jobs PROVE JobMatches(e, ps, j) /\ (e.jobs[j] = NoRow => Of(ps, j, RowKinds) = {})
  <2>1. JobMatches(d, ps, j) /\ (d.jobs[j] = NoRow => Of(ps, j, RowKinds) = {})
    BY DEF Matches
  <2> QED
    BY <1>1, <2>1 DEF JobMatches
<1>3. ASSUME NEW p \in Providers PROVE ProviderMatches(e, ps, p)
  <2>1. ProviderMatches(d, ps, p)
    BY DEF Matches
  <2> QED
    BY <1>1, <2>1 DEF ProviderMatches, IsActive
<1>4. Matches(e, ps)
  BY <1>2, <1>3 DEF Matches
<1> QED
  BY <1>4 DEF e

\* Empty tables are what no logs say.
LEMMA EmptyMatches == Matches(EmptyDb, {})
<1>1. /\ \A j \in Jobs : EmptyDb.jobs[j] = NoRow /\ EmptyDb.requests[j] = NoRow
      /\ EmptyDb.transactions = {} /\ \A p \in Providers : EmptyDb.providers[p] = NoRow
  BY DEF EmptyDb
<1>2. \A x, ks : Of({}, x, ks) = {} /\ OfProvider({}, x, ks) = {}
  BY DEF Of, OfProvider
<1>3. \A x : Locks({}, x) = {} /\ Additions({}, x) = {}
  BY <1>2 DEF Locks, Additions, NotUndone
<1>4. Newest({}) = NoRow
  BY DEF Newest
<1>5. ASSUME NEW j \in Jobs PROVE JobMatches(EmptyDb, {}, j)
  <2>1. RowMatches(EmptyDb.jobs[j], {}, j)
    BY <1>1, <1>2 DEF RowMatches
  <2>2. {t.idx : t \in {t \in EmptyDb.transactions : t.job = j}} = {}
    BY <1>1
  <2> QED
    BY <1>1, <1>2, <1>3, <1>4, <2>1, <2>2 DEF JobMatches
<1>6. ASSUME NEW p \in Providers PROVE ProviderMatches(EmptyDb, {}, p)
  BY <1>1, <1>3 DEF ProviderMatches, IsActive
<1> QED
  BY <1>2, <1>5, <1>6 DEF Matches

\* What is said of a database and of positions is said of the variables that hold them next.
LEMMA CommittedNext ==
  ASSUME NEW d, NEW ps, Matches(d, ps)', db' = d, Indexed' = ps
  PROVE  Matches(db, Indexed)'
  BY DEF Matches, JobMatches, RowMatches, ProviderMatches, IsActive

\* The same of the database inside the transaction.
LEMMA WorkNext ==
  ASSUME NEW d, NEW ps, Matches(d, ps)', work' = d, Seen' = ps
  PROVE  Matches(work, Seen)'
  BY DEF Matches, JobMatches, RowMatches, ProviderMatches, IsActive

\* Both sets of positions are positions.
LEMMA PositionsAre == Indexed \in SUBSET All /\ Seen \in SUBSET All
  BY DEF Indexed, Seen, InRange

\* When the database and its range stay, its tables stay true.
LEMMA CommittedStays ==
  ASSUME LoopInv, TablesMatch, UNCHANGED logs \/ Emit, db' = db, Indexed' = Indexed
  PROVE  Matches(db, Indexed)'
<1>1. PICK d, ps : d = db /\ ps = Indexed
  OBVIOUS
<1>2. Matches(d, ps) /\ ps \in SUBSET All
  BY <1>1, PositionsAre DEF TablesMatch
<1>3. Matches(d, ps)'
  BY <1>2, LogsStayThere, MatchesStay DEF LoopInv, Types
<1> QED
  BY <1>1, <1>3, CommittedNext

\* When the transaction's database and what is left of its range stay, its tables stay true.
LEMMA WorkStays ==
  ASSUME LoopInv, TablesMatch, UNCHANGED logs \/ Emit, phase = "tx", work' = work, Seen' = Seen
  PROVE  Matches(work, Seen)'
<1>1. PICK d, ps : d = work /\ ps = Seen
  OBVIOUS
<1>2. Matches(d, ps) /\ ps \in SUBSET All
  BY <1>1, PositionsAre DEF TablesMatch
<1>3. Matches(d, ps)'
  BY <1>2, LogsStayThere, MatchesStay DEF LoopInv, Types
<1> QED
  BY <1>1, <1>3, WorkNext

\* A range of the sync row that is not passed has no log to come.
LEMMA IndexedStays ==
  ASSUME LoopInv, Emit
  PROVE  Indexed' = Indexed /\ (phase = "tx" => Seen' = Seen)
<1>1. UNCHANGED <<height, start, db, phase, end, todo>>
  BY DEF Emit, loopVars
<1>2. /\ start \in Nat /\ height \in Nat /\ end \in Nat /\ db.sync \in Int
      /\ db.sync <= height \/ db.sync <= start - 1
  BY Numbers, DatabaseParts DEF LoopInv, Types, SyncRow
<1>3. Types /\ Blocks
  BY DEF LoopInv
<1>4. PICK a \in Int, b \in Int : a = start /\ b = db.sync
  BY <1>2
<1>5. InRange(a, b)' = InRange(a, b)
  BY <1>2, <1>3, <1>4, RangesKeep
<1>6. Indexed' = InRange(a, b)' /\ Indexed = InRange(a, b)
  BY <1>1, <1>4 DEF Indexed, InRange
<1>7. ASSUME phase = "tx" PROVE Seen' = Seen
  <2>1. PICK c \in Int : c = end
    BY <1>2
  <2>2. c <= height
    BY <1>7, <2>1 DEF LoopInv, Fetched
  <2>3. InRange(a, c)' = InRange(a, c)
    BY <1>3, <2>2, RangesKeep
  <2>4. Seen' = InRange(a, c)' \ todo /\ Seen = InRange(a, c) \ todo
    BY <1>1, <1>4, <2>1 DEF Seen, InRange
  <2> QED
    BY <2>3, <2>4
<1> QED
  BY <1>5, <1>6, <1>7

\* The next of the fetched logs comes behind those that are handled, and is all that is handled next.
LEMMA NextIsBehind ==
  ASSUME LoopInv, phase = "tx", NEW k \in todo, NextLog(k)
  PROVE  Behind(k, Seen) /\ k \in InRange(start, end) /\ Seen \cup {k} = InRange(start, end) \ (todo \ {k})
<1>1. /\ start \in Nat /\ last \in Nat /\ end \in Nat /\ start - 1 <= last
      /\ todo \subseteq InRange(last + 1, end)
      /\ \A t \in todo : \A m \in InRange(last + 1, end) \ todo : m < t
  <2>1. start \in Nat /\ last \in Nat /\ end \in Nat
    BY Numbers DEF LoopInv, Types
  <2>2. start - 1 <= last
    BY DEF LoopInv, SyncRow, Fetched
  <2>3. /\ todo \subseteq InRange(last + 1, end)
        /\ \A t \in todo : \A m \in InRange(last + 1, end) \ todo : m < t
    BY DEF LoopInv, Handled
  <2> QED
    BY <2>1, <2>2, <2>3
<1>2. logs \in Seq(Log) /\ Blocks
  BY DEF LoopInv, Types
<1>3. \A m \in All : m \in Nat /\ logs[m].block \in Nat
  BY <1>2, LogParts DEF All
<1>4. k \in All /\ last + 1 <= logs[k].block /\ logs[k].block <= end /\ k \in Nat
  BY <1>1, <1>3 DEF InRange
<1>5. k \in InRange(start, end)
  BY <1>1, <1>3, <1>4 DEF InRange
<1>6. ASSUME NEW m \in Seen PROVE m < k
  <2>1. /\ m \in All /\ m \notin todo /\ logs[m].block <= end
        /\ m \in Nat /\ logs[m].block \in Nat /\ logs[k].block \in Nat
    BY <1>3, <1>4 DEF Seen, InRange
  <2>2. CASE last + 1 <= logs[m].block
    <3>1. m \in InRange(last + 1, end)
      BY <2>1, <2>2 DEF InRange
    <3> QED
      BY <1>1, <2>1, <3>1
  <2>3. CASE ~(last + 1 <= logs[m].block)
    <3>1. logs[m].block < logs[k].block
      BY <1>1, <1>4, <2>1, <2>3
    <3>2. ~(k <= m)
      <4>1. k <= m => logs[k].block <= logs[m].block
        BY <1>2, <1>4, <2>1 DEF Blocks
      <4> QED
        BY <2>1, <3>1, <4>1
    <3> QED
      BY <1>4, <2>1, <3>2
  <2> QED
    BY <2>2, <2>3
<1>7. Behind(k, Seen)
  BY <1>4, <1>6, PositionsAre DEF Behind
<1> QED
  BY <1>5, <1>7 DEF Seen

\* The initial tables are empty, and so is the chain.
LEMMA TablesInit == Init => TablesMatch
<1> SUFFICES ASSUME Init PROVE TablesMatch
  OBVIOUS
<1>1. db = EmptyDb /\ phase = "exited" /\ logs = <<>>
  BY DEF Init
<1>2. Indexed = {}
  BY <1>1 DEF Indexed, InRange, All
<1> QED
  BY <1>1, <1>2, EmptyMatches DEF TablesMatch

\* Starting moves the sync row at most to the block before the first one to be indexed.
LEMMA TablesStart == LoopInv /\ TablesMatch /\ Start => TablesMatch'
<1> SUFFICES ASSUME LoopInv, TablesMatch, Start PROVE TablesMatch'
  OBVIOUS
<1>1. UNCHANGED <<logs, height, start>> /\ phase' = "poll"
  BY DEF Start, chainVars
<1>2. db \in Database /\ db.sync \in Int /\ start \in Nat
  BY DatabaseParts, Numbers DEF LoopInv, Types
<1>3. CASE db' = db
  <2>1. Indexed' = Indexed
    BY <1>1, <1>3 DEF Indexed, InRange, All
  <2> QED
    BY <1>1, <1>3, <2>1, CommittedStays DEF TablesMatch
<1>4. CASE db.sync < start - 1 /\ db' = [db EXCEPT !.sync = start - 1]
  <2>1. db'.sync = start - 1
    BY <1>2, <1>4, Resynced
  <2>2. \A k \in All : logs[k].block \in Nat
    BY LogParts DEF LoopInv, Types
  <2>3. Indexed = {}
    BY <1>2, <1>4, <2>2 DEF Indexed, InRange
  <2>4. Indexed' = {}
    BY <1>1, <1>2, <2>1, <2>2 DEF Indexed, InRange, All
  <2>5. PICK e : e = [db EXCEPT !.sync = start - 1]
    OBVIOUS
  <2>6. Matches(e, {})
    BY <1>2, <2>3, <2>5, MatchesResynced DEF TablesMatch
  <2>7. Matches(e, {})'
    BY <1>1, <2>6, LogsStayThere, MatchesStay, {} \in SUBSET All DEF LoopInv, Types
  <2>8. Matches(db, Indexed)'
    BY <1>4, <2>4, <2>5, <2>7, CommittedNext
  <2> QED
    BY <1>1, <2>8 DEF TablesMatch
<1> QED
  BY <1>3, <1>4, LoopStart

\* Committing moves the sync row to the end of the range, whose logs have been handled.
LEMMA TablesCommit == LoopInv /\ TablesMatch /\ Commit => TablesMatch'
<1> SUFFICES ASSUME LoopInv, TablesMatch, Commit PROVE TablesMatch'
  OBVIOUS
<1>1. phase = "tx" /\ todo = {} /\ phase' = "poll" /\ UNCHANGED <<logs, height, start>>
  BY DEF Commit, chainVars
<1>2. db' = [work EXCEPT !.sync = end] /\ db'.sync = end
  BY LoopCommit
<1>3. PICK e, ps : e = [work EXCEPT !.sync = end] /\ ps = Seen
  OBVIOUS
<1>4. Matches(e, ps) /\ ps \in SUBSET All
  <2>1. Matches(work, Seen) /\ work \in Database /\ end \in Int
    BY <1>1 DEF TablesMatch, LoopInv, Types
  <2> QED
    BY <1>3, <2>1, MatchesResynced, PositionsAre
<1>5. Matches(e, ps)'
  BY <1>1, <1>4, LogsStayThere, MatchesStay DEF LoopInv, Types
<1>6. Indexed' = ps
  BY <1>1, <1>2, <1>3 DEF Indexed, Seen, InRange, All
<1>7. Matches(db, Indexed)'
  BY <1>2, <1>3, <1>5, <1>6, CommittedNext
<1> QED
  BY <1>1, <1>7 DEF TablesMatch

\* Fetching copies the committed tables: all the logs of the range are still to be handled.
LEMMA TablesFetchLogs == LoopInv /\ TablesMatch /\ FetchLogs => TablesMatch'
<1> SUFFICES ASSUME LoopInv, TablesMatch, FetchLogs PROVE TablesMatch'
  OBVIOUS
<1>1. /\ phase = "fetch" /\ todo' = InRange(last + 1, end) /\ work' = db /\ db' = db
      /\ UNCHANGED <<logs, height, start, last, end>>
  BY DEF FetchLogs, chainVars
<1>2. /\ db.sync = last /\ last < end /\ last \in Nat /\ end \in Nat /\ start \in Nat /\ start - 1 <= last
  BY <1>1, Numbers DEF LoopInv, Types, SyncRow, Fetched
<1>3. Indexed' = Indexed
  BY <1>1 DEF Indexed, InRange, All
<1>4. Matches(db, Indexed)'
  BY <1>1, <1>3, CommittedStays
<1>5. Seen' = Indexed
  <2>1. \A k \in All : logs[k].block \in Nat
    BY LogParts DEF LoopInv, Types
  <2>2. Seen' = InRange(start, end) \ InRange(last + 1, end)
    BY <1>1 DEF Seen, InRange, All
  <2> QED
    BY <1>2, <2>1, <2>2 DEF Indexed, InRange
<1>6. PICK d, ps : d = db /\ ps = Indexed
  OBVIOUS
<1>7. Matches(d, ps)'
  BY <1>1, <1>6, PositionsAre, LogsStayThere, MatchesStay DEF LoopInv, Types, TablesMatch
<1>8. Matches(work, Seen)'
  BY <1>1, <1>5, <1>6, <1>7, WorkNext
<1> QED
  BY <1>4, <1>8 DEF TablesMatch

\* Handling a log adds what it says to the tables of the transaction.
LEMMA TablesHandleLog == LoopInv /\ TablesMatch /\ HandleLog => TablesMatch'
<1> SUFFICES ASSUME LoopInv, TablesMatch, HandleLog PROVE TablesMatch'
  OBVIOUS
<1>1. phase = "tx" /\ db' = db /\ UNCHANGED <<logs, height, start, last, end>>
  BY DEF HandleLog, chainVars
<1>2. PICK k \in todo : NextLog(k) /\ work' \in handle_log(work, k) /\ todo' = todo \ {k}
  BY DEF HandleLog
<1>3. Indexed' = Indexed
  BY <1>1 DEF Indexed, InRange, All
<1>4. Matches(db, Indexed)'
  BY <1>1, <1>3, CommittedStays
<1>5. Behind(k, Seen) /\ Seen \cup {k} = InRange(start, end) \ (todo \ {k}) /\ k \in All
  BY <1>1, <1>2, NextIsBehind DEF LoopInv, Types
<1>6. Seen' = Seen \cup {k}
  BY <1>1, <1>2, <1>5 DEF Seen, InRange, All
<1>7. PICK e, ps : e = work' /\ ps = Seen \cup {k}
  OBVIOUS
<1>8. Matches(e, ps) /\ ps \in SUBSET All
  <2>1. Matches(work, Seen) /\ work \in Database /\ logs \in Seq(Log)
    BY <1>1 DEF TablesMatch, LoopInv, Types
  <2> QED
    BY <1>2, <1>5, <1>7, <2>1, PositionsAre, HandlersMatch
<1>9. Matches(e, ps)'
  BY <1>1, <1>8, LogsStayThere, MatchesStay DEF LoopInv, Types
<1>10. Matches(work, Seen)'
  BY <1>6, <1>7, <1>9, WorkNext
<1> QED
  BY <1>4, <1>10 DEF TablesMatch

\* Every step keeps the tables true to the logs.
LEMMA TablesStep == LoopInv /\ TablesMatch /\ [Next]_vars => TablesMatch'
<1> SUFFICES ASSUME LoopInv, TablesMatch, [Next]_vars PROVE TablesMatch'
  OBVIOUS
<1>1. CASE Emit
  <2>1. UNCHANGED <<db, phase, work>>
    BY <1>1 DEF Emit, loopVars
  <2> QED
    BY <1>1, <2>1, IndexedStays, CommittedStays, WorkStays DEF TablesMatch
<1>2. ASSUME UNCHANGED <<logs, start, db>>, phase' # "tx" PROVE TablesMatch'
  <2>1. Indexed' = Indexed
    BY <1>2 DEF Indexed, InRange, All
  <2> QED
    BY <1>2, <2>1, CommittedStays DEF TablesMatch
<1>3. ASSUME UNCHANGED <<logs, start, db, phase, end, work, todo>> PROVE TablesMatch'
  <2>1. Indexed' = Indexed /\ Seen' = Seen
    BY <1>3 DEF Indexed, Seen, InRange, All
  <2> QED
    BY <1>3, <2>1, CommittedStays, WorkStays DEF TablesMatch
<1>4. CASE Mine
  BY <1>3, <1>4 DEF Mine, loopVars
<1>5. CASE Start
  BY <1>5, TablesStart
<1>6. CASE LatestBlock \/ RpcBehind \/ HandlerError \/ Crash
  BY <1>2, <1>6 DEF LatestBlock, RpcBehind, HandlerError, Crash, Exit, chainVars
<1>7. CASE FetchLogs
  BY <1>7, TablesFetchLogs
<1>8. CASE HandleLog
  BY <1>8, TablesHandleLog
<1>9. CASE Commit
  BY <1>9, TablesCommit
<1>10. CASE UNCHANGED vars
  BY <1>3, <1>10 DEF vars, chainVars, loopVars
<1> QED
  BY <1>1, <1>4, <1>5, <1>6, <1>7, <1>8, <1>9, <1>10 DEF Next, Loop

\* The tables are true to the logs in every state, inside a transaction too.
THEOREM TablesInvariance == Spec => []TablesMatch
<1> QED
  BY TablesInit, TablesStep, LoopInvariance, PTL DEF Spec

\* The committed tables are what the logs from the start block to the sync row say (event_loop, the
\* handlers).
THEOREM DbIsTheChain == Spec => []DbMatchesChain
<1>1. TablesMatch => DbMatchesChain
  BY DEF TablesMatch, Matches, DbMatchesChain
<1> QED
  BY <1>1, TablesInvariance, PTL

-----------------------------------------------------------------------------
(* No handler fails: the contract emits what its earlier logs allow, and   *)
(* the tables are what they say.                                           *)

\* What the logs at ps allow the log l to be.
Lawful(l, ps) ==
  /\ l.kind = "JobOpened" => Of(ps, l.job, {"JobOpened"}) = {}
  /\ l.kind \in RowUpdates \cup {"LockCreated"} =>
       Of(ps, l.job, {"JobOpened"}) # {} /\ Of(ps, l.job, {"JobClosed"}) = {}
  /\ l.kind = "LockCreated" => Locks(ps, l.job) = {}
  /\ l.kind = "ProviderAdded" => Additions(ps, l.provider) = {}
  /\ l.kind \in {"ProviderRemoved", "ProviderUpdatedWithCp"} => Additions(ps, l.provider) # {}

\* Every log is allowed by those before it.
ChainIsLawful == \A k \in All : Lawful(logs[k], 1..(k - 1))

\* The contract emits what all its logs allow.
LEMMA EmitsLawful ==
  ASSUME NEW l \in Log, MayEmit(l)
  PROVE  Lawful(l, All)
<1>1. l.kind \in ProviderKinds \cup JobKinds
  BY DEF Log
<1>2. CASE l.kind = "JobOpened"
  BY <1>2 DEF MayEmit, Lawful, RowUpdates
<1>3. CASE l.kind = "LockCreated"
  BY <1>3 DEF MayEmit, Lawful, RowUpdates, OpenOnChain
<1>4. CASE l.kind \in {"ProviderAdded", "ProviderRemoved", "ProviderUpdatedWithCp"}
  BY <1>4 DEF MayEmit, Lawful, RowUpdates
<1>5. CASE l.kind \in RowUpdates
  BY <1>5 DEF MayEmit, Lawful, RowUpdates, OpenOnChain
<1>6. CASE l.kind \in {"LockDeleted", "Other"}
  BY <1>6 DEF Lawful, RowUpdates
<1> QED
  BY <1>1, <1>2, <1>3, <1>4, <1>5, <1>6 DEF ProviderKinds, JobKinds, RowUpdates

\* What earlier logs allow stays allowed.
LEMMA LawfulStays ==
  ASSUME LogsStay, NEW ps \in SUBSET All, NEW l, Lawful(l, ps)
  PROVE  Lawful(l, ps)'
<1>1. /\ (Of(ps, l.job, {"JobOpened"}))' = Of(ps, l.job, {"JobOpened"})
      /\ (Of(ps, l.job, {"JobClosed"}))' = Of(ps, l.job, {"JobClosed"})
  BY SetsStay
<1>2. (Locks(ps, l.job))' = Locks(ps, l.job) /\ (Additions(ps, l.provider))' = Additions(ps, l.provider)
  BY LocksStay
<1> QED
  BY <1>1, <1>2 DEF Lawful

\* The chain is always lawful.
LEMMA LawfulStep == LoopInv /\ ChainIsLawful /\ [Next]_vars => ChainIsLawful'
<1> SUFFICES ASSUME LoopInv, ChainIsLawful, [Next]_vars PROVE ChainIsLawful'
  OBVIOUS
<1>1. UNCHANGED logs \/ Emit
  BY DEF Next, Loop, vars, chainVars, Mine, Start, LatestBlock, RpcBehind, FetchLogs, HandleLog,
         HandlerError, Commit, Crash
<1>2. LogsStay
  BY <1>1, LogsStayThere
<1>3. ASSUME NEW k \in All PROVE Lawful(logs[k], 1..(k - 1))'
  <2>1. PICK l : l = logs[k]
    OBVIOUS
  <2>2. 1..(k - 1) \in SUBSET All
    BY DEF All, LoopInv, Types
  <2>3. Lawful(l, 1..(k - 1))
    BY <2>1 DEF ChainIsLawful
  <2>4. Lawful(l, 1..(k - 1))'
    BY <1>2, <2>2, <2>3, LawfulStays
  <2>5. logs'[k] = l
    BY <1>2, <2>1 DEF LogsStay
  <2> QED
    BY <2>4, <2>5 DEF Lawful
<1>4. CASE UNCHANGED logs
  BY <1>3, <1>4 DEF ChainIsLawful, All
<1>5. CASE Emit
  <2>1. PICK l \in Log : /\ MayEmit(l) /\ All' = All \cup {Len(logs) + 1} /\ logs'[Len(logs) + 1] = l
    BY <1>5, EmitGrows DEF LoopInv
  <2>2. PICK ps, n : ps = All /\ n = Len(logs) + 1
    OBVIOUS
  <2>3. Lawful(l, ps)
    BY <2>1, <2>2, EmitsLawful
  <2>4. Lawful(l, ps)'
    BY <1>2, <2>2, <2>3, LawfulStays
  <2>5. ps = 1..(n - 1)
    BY <2>2 DEF All, LoopInv, Types
  <2>6. Lawful(logs[n], 1..(n - 1))'
    BY <2>1, <2>2, <2>4, <2>5 DEF Lawful
  <2> QED
    BY <1>3, <2>1, <2>2, <2>6 DEF ChainIsLawful
<1> QED
  BY <1>1, <1>4, <1>5

\* Nothing is emitted at first.
LEMMA LawfulInit == Init => ChainIsLawful
  BY DEF Init, ChainIsLawful, All

\* The chain is lawful.
THEOREM LawfulInvariance == Spec => []ChainIsLawful
<1> QED
  BY LawfulInit, LawfulStep, LoopInvariance, PTL DEF Spec

\* The handler of a log its predecessors allow succeeds on the tables they say.
LEMMA HandlersSucceed ==
  ASSUME logs \in Seq(Log), NEW d \in Database, NEW ps, NEW k, Behind(k, ps), Matches(d, ps),
         Lawful(logs[k], ps)
  PROVE  handle_log(d, k) # {}
<1> DEFINE l == logs[k]
           j == l.job
           p == l.provider
<1>1. k \in All /\ j \in Jobs /\ p \in Providers /\ l.kind \in ProviderKinds \cup JobKinds
  <2>1. k \in All
    BY DEF Behind
  <2> QED
    BY <2>1, LogParts
<1>2. /\ d.jobs[j] = NoRow <=> Of(ps, j, {"JobOpened"}) = {}
      /\ d.jobs[j] # NoRow => d.jobs[j].is_closed = (Of(ps, j, {"JobClosed"}) # {})
      /\ d.requests[j] = Newest(Locks(ps, j))
  BY <1>1 DEF Matches, JobMatches, RowMatches
<1>3. IsActive(d, p) <=> Additions(ps, p) # {}
  BY <1>1 DEF Matches, ProviderMatches
<1>4. \A t \in d.transactions : t.idx # k
  <2> SUFFICES ASSUME NEW t \in d.transactions PROVE t.idx # k
    OBVIOUS
  <2>1. t.job \in Jobs
    BY DatabaseParts DEF TxRow
  <2>2. t.idx \in {u.idx : u \in {u \in d.transactions : u.job = t.job}}
    OBVIOUS
  <2>3. {u.idx : u \in {u \in d.transactions : u.job = t.job}}
          = Of(ps, t.job, {"JobOpened", "JobDeposited", "JobWithdrew"})
    BY <2>1 DEF Matches, JobMatches
  <2>4. t.idx \in ps
    BY <2>2, <2>3 DEF Of
  <2>5. k \notin ps
    BY ps \in SUBSET ps, BehindSome
  <2> QED
    BY <2>4, <2>5
<1>5. ASSUME NEW ds, NEW dep \in BOOLEAN, NEW x \in ds, x.transactions = d.transactions
      PROVE  AddTransaction(ds, k, dep) # {}
  BY <1>4, <1>5 DEF AddTransaction
<1>6. ASSUME l.kind \in RowUpdates \cup {"LockCreated"} PROVE IsOpen(d, j)
  BY <1>2, <1>6 DEF Lawful, IsOpen
<1>7. CASE l.kind = "JobOpened"
  <2> DEFINE row == [provider |-> l.provider, metadata |-> l.value, rate |-> l.value,
                     balance |-> l.value, last_settled |-> l.block, is_closed |-> FALSE]
             x == [d EXCEPT !.jobs[j] = row]
  <2>1. d.jobs[j] = NoRow
    BY <1>2, <1>7 DEF Lawful
  <2>2. handle_log(d, k) = AddTransaction({x}, k, TRUE)
    BY <1>7, <2>1 DEF handle_log, handle_job_opened
  <2>3. x.transactions = d.transactions
    BY DEF Database
  <2> HIDE DEF x
  <2> QED
    BY <1>5, <2>2, <2>3
<1>8. CASE l.kind \in RowUpdates
  <2>1. IsOpen(d, j)
    BY <1>6, <1>8
  <2>2. ASSUME NEW row PROVE UpdateOpenJob(d, j, row) # {}
    BY <2>1 DEF UpdateOpenJob
  <2>3. ASSUME NEW row, NEW dep \in BOOLEAN PROVE AddTransaction(UpdateOpenJob(d, j, row), k, dep) # {}
    <3> DEFINE x == [d EXCEPT !.jobs[j] = row]
    <3>1. x \in UpdateOpenJob(d, j, row)
      BY <2>1 DEF UpdateOpenJob
    <3>2. x.transactions = d.transactions
      BY DEF Database
    <3> HIDE DEF x
    <3> QED
      BY <1>5, <3>1, <3>2
  <2>4. CASE l.kind = "JobSettled"
    BY <2>2, <2>4 DEF handle_log, handle_job_settled
  <2>5. CASE l.kind = "JobClosed"
    BY <2>2, <2>5 DEF handle_log, handle_job_closed
  <2>6. CASE l.kind = "JobDeposited"
    BY <2>3, <2>6 DEF handle_log, handle_job_deposited
  <2>7. CASE l.kind = "JobWithdrew"
    BY <2>3, <2>7 DEF handle_log, handle_job_withdrew
  <2>8. CASE l.kind = "JobReviseRateFinalized"
    BY <2>2, <2>8 DEF handle_log, handle_job_revise_rate_finalized
  <2>9. CASE l.kind = "JobMetadataUpdated"
    BY <2>2, <2>9 DEF handle_log, handle_job_metadata_updated
  <2> QED
    BY <1>8, <2>4, <2>5, <2>6, <2>7, <2>8, <2>9 DEF RowUpdates
<1>9. CASE l.kind = "LockCreated"
  <2>1. IsOpen(d, j)
    BY <1>6, <1>9
  <2>2. d.requests[j] = NoRow
    <3>1. Locks(ps, j) = {}
      BY <1>9 DEF Lawful
    <3> QED
      BY <1>2, <3>1 DEF Newest
  <2> QED
    BY <1>9, <2>1, <2>2 DEF handle_log, handle_lock_created
<1>10. CASE l.kind = "LockDeleted"
  BY <1>10 DEF handle_log, handle_lock_deleted
<1>11. CASE l.kind \in ProviderKinds
  <2>1. l.kind = "ProviderAdded" <=> ~IsActive(d, p)
    BY <1>3, <1>11 DEF Lawful, ProviderKinds
  <2>2. CASE l.kind = "ProviderAdded"
    BY <2>1, <2>2 DEF handle_log, handle_provider_added
  <2>3. CASE l.kind = "ProviderRemoved"
    BY <2>1, <2>3 DEF handle_log, handle_provider_removed
  <2>4. CASE l.kind = "ProviderUpdatedWithCp"
    BY <2>1, <2>4 DEF handle_log, handle_provider_updated_with_cp
  <2> QED
    BY <1>11, <2>2, <2>3, <2>4 DEF ProviderKinds
<1>12. CASE l.kind = "Other"
  BY <1>12 DEF handle_log
<1> QED
  BY <1>1, <1>7, <1>8, <1>9, <1>10, <1>11, <1>12 DEF ProviderKinds, JobKinds, RowUpdates

\* From the first block on, what is handled is everything that comes before the next log.
LEMMA HandledIsAllBefore ==
  ASSUME LoopInv, phase = "tx", start <= 1, NEW k \in todo, NextLog(k)
  PROVE  Seen = 1..(k - 1)
<1>1. Behind(k, Seen) /\ k \in InRange(start, end)
  BY NextIsBehind
<1>2. logs \in Seq(Log) /\ Blocks /\ start \in Nat /\ end \in Nat /\ todo \subseteq All
  BY Numbers DEF LoopInv, Types
<1>3. /\ k \in All /\ logs[k].block <= end
      /\ \A m \in All : m \in Nat /\ logs[m].block \in Nat /\ 1 <= logs[m].block
  BY <1>1, <1>2, LogParts DEF InRange, All, Blocks
<1>4. ASSUME NEW m \in Seen PROVE m \in 1..(k - 1)
  BY <1>1, <1>3 DEF Behind, All
<1>5. ASSUME NEW m \in 1..(k - 1) PROVE m \in Seen
  <2>1. m \in All /\ m < k /\ m \in Nat /\ k \in Nat
    BY <1>3 DEF All
  <2>2. logs[m].block <= logs[k].block
    BY <1>2, <1>3, <2>1 DEF Blocks
  <2>3. m \in InRange(start, end)
    BY <1>2, <1>3, <2>1, <2>2 DEF InRange
  <2>4. m \notin todo
    BY <2>1 DEF NextLog
  <2> QED
    BY <2>3, <2>4 DEF Seen
<1> QED
  BY <1>4, <1>5

\* "should never happen": no handler fails when indexing starts where the contract does (handlers).
THEOREM NoHandlerFails == Spec => []NoHandlerError
<1>1. LoopInv /\ TablesMatch /\ ChainIsLawful => NoHandlerError
  <2> SUFFICES ASSUME LoopInv, TablesMatch, ChainIsLawful, start <= 1, phase = "tx",
                      NEW k \in todo, NextLog(k)
               PROVE  handle_log(work, k) # {}
    BY DEF NoHandlerError
  <2>1. Behind(k, Seen) /\ Seen = 1..(k - 1)
    BY NextIsBehind, HandledIsAllBefore
  <2>2. logs \in Seq(Log) /\ work \in Database /\ Matches(work, Seen)
    BY DEF LoopInv, Types, TablesMatch
  <2>3. Lawful(logs[k], Seen)
    BY <2>1 DEF ChainIsLawful, Behind
  <2> QED
    BY <2>1, <2>2, <2>3, HandlersSucceed
<1> QED
  BY <1>1, LoopInvariance, TablesInvariance, LawfulInvariance, PTL
=============================================================================
