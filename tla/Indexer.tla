------------------------------ MODULE Indexer ------------------------------
(***************************************************************************)
(* contracts/indexer: event_loop and start_from of lib.rs and the handlers *)
(* of handlers/, which copy the market contract's logs into Postgres.      *)
(*                                                                         *)
(* db is the committed database, work the one a transaction sees.  A range *)
(* of blocks is one transaction: its logs are handled one by one and the   *)
(* sync row is moved to the end of the range, or nothing happens.  The     *)
(* process may die at any step; whoever supervises it starts it again.     *)
(***************************************************************************)
EXTENDS Integers, Sequences, FiniteSets, FiniteSetsExt

CONSTANTS
  Jobs, Providers,  \* ids
  Values,           \* amounts, rates, metadata and control plane urls
  NoRow,            \* a row that does not exist
  StartBlocks,      \* --start-block
  RangeSize,        \* --range-size
  U64,              \* 2^64: block numbers are u64 in event_loop, i64 in the db
  Kinds,            \* the log kinds the contract emits in this instance
  MaxLogs,          \* bound: logs of the contract
  MaxHeight,        \* bound: blocks
  MaxCrashes        \* bound: times the process dies

ASSUME IndexerAssumption ==
  /\ Values \subseteq Nat /\ NoRow \notin Values
  /\ StartBlocks \subseteq Nat /\ RangeSize \in Nat \ {0}
  /\ U64 \in Nat /\ \A s \in StartBlocks : s + RangeSize + MaxHeight < U64
  /\ MaxLogs \in Nat /\ MaxHeight \in Nat /\ MaxCrashes \in Nat

VARIABLES
  logs,     \* the contract's logs, in order, each with its block number
  height,   \* newest block
  start,    \* the --start-block the indexer is always started with
  db,       \* committed database
  phase,    \* where event_loop is
  last,     \* last_updated
  latest,   \* latest_block
  end,      \* end_block
  work,     \* the database inside the transaction
  todo,     \* positions of the fetched logs that are still to be handled
  crashes

chainVars == <<logs, height, start>>
loopVars  == <<phase, last, latest, end, work, todo>>
vars      == <<chainVars, db, loopVars, crashes>>

-----------------------------------------------------------------------------
(* The contract's logs.  A block number also stands for its timestamp.     *)

ProviderKinds == {"ProviderAdded", "ProviderRemoved", "ProviderUpdatedWithCp"}
JobKinds == {"JobOpened", "JobSettled", "JobClosed", "JobDeposited",
             "JobWithdrew", "JobReviseRateFinalized", "JobMetadataUpdated",
             "LockCreated", "LockDeleted", "Other"}

\* The kinds that carry no value.
Valueless == {"ProviderRemoved", "JobClosed", "LockDeleted", "Other"}

ASSUME KindsAssumption == Kinds \subseteq ProviderKinds \cup JobKinds

Log == [kind : ProviderKinds \cup JobKinds, job : Jobs, provider : Providers,
        value : Values, block : Nat]

All == 1..Len(logs)
InRange(a, b) == {k \in All : a <= logs[k].block /\ logs[k].block <= b}

\* Positions among ps of the logs of a kind in ks about job j or provider p.
Of(ps, j, ks)         == {k \in ps : logs[k].job = j /\ logs[k].kind \in ks}
OfProvider(ps, p, ks) == {k \in ps : logs[k].provider = p /\ logs[k].kind \in ks}

\* The members of as that no member of bs follows.
NotUndone(as, bs) == {k \in as : \A m \in bs : m < k}

OpenOnChain(j) == /\ Of(All, j, {"JobOpened"}) # {}
                  /\ Of(All, j, {"JobClosed"}) = {}
Locks(ps, j)   == NotUndone(Of(ps, j, {"LockCreated"}), Of(ps, j, {"LockDeleted"}))
Additions(ps, p) == NotUndone(OfProvider(ps, p, {"ProviderAdded"}),
                              OfProvider(ps, p, {"ProviderRemoved"}))

\* The contract keeps jobs, locks and providers consistent, but a job may name
\* any provider, and closing a job deletes a lock that may not be there.
MayEmit(l) ==
  CASE l.kind = "JobOpened" -> Of(All, l.job, {"JobOpened"}) = {}
    [] l.kind = "LockCreated" -> OpenOnChain(l.job) /\ Locks(All, l.job) = {}
    [] l.kind = "LockDeleted" -> Of(All, l.job, {"JobOpened"}) # {}
    [] l.kind = "ProviderAdded" -> Additions(All, l.provider) = {}
    [] l.kind \in {"ProviderRemoved", "ProviderUpdatedWithCp"} ->
         Additions(All, l.provider) # {}
    [] l.kind = "Other" -> TRUE
    [] OTHER -> OpenOnChain(l.job)

-----------------------------------------------------------------------------
(* The database                                                            *)

JobRow == [provider : Providers, metadata : Values, rate : Values,
           balance : Int, last_settled : Nat, is_closed : BOOLEAN]
TxRow == [block : Nat, idx : Nat, job : Jobs, amount : Values,
          is_deposit : BOOLEAN]
ProviderRow == [cp : Values, is_active : BOOLEAN]

ASSUME RowAssumption == NoRow \notin JobRow \cup ProviderRow

EmptyDb ==
  [sync |-> -1, jobs |-> [j \in Jobs |-> NoRow], transactions |-> {},
   requests |-> [j \in Jobs |-> NoRow],
   providers |-> [p \in Providers |-> NoRow]]

TypeOK ==
  /\ logs \in Seq(Log)
  /\ height \in 0..MaxHeight /\ start \in StartBlocks
  /\ phase \in {"exited", "poll", "fetch", "tx"}
  /\ last \in 0..(U64 - 1) /\ latest \in 0..MaxHeight /\ end \in 0..MaxHeight
  /\ \A d \in {db, work} :
       /\ d.sync \in -1..(start + MaxHeight)
       /\ \A j \in Jobs : /\ d.jobs[j] = NoRow \/ d.jobs[j] \in JobRow
                          /\ d.requests[j] \in Values \cup {NoRow}
       /\ \A t \in d.transactions : t \in TxRow
       /\ \A p \in Providers : d.providers[p] = NoRow \/ d.providers[p] \in ProviderRow
  /\ todo \subseteq All
  /\ crashes \in 0..MaxCrashes

\* The migrations have run: the sync row is -1.
Init ==
  /\ logs = <<>> /\ height = 0 /\ start \in StartBlocks
  /\ db = EmptyDb
  /\ phase = "exited" /\ last = 0 /\ latest = 0 /\ end = 0
  /\ work = EmptyDb /\ todo = {}
  /\ crashes = 0

-----------------------------------------------------------------------------
(* The chain                                                               *)

\* A transaction of the next block emits a log.
Emit ==
  /\ Len(logs) < MaxLogs /\ height < MaxHeight
  /\ \E l \in [kind : Kinds, job : Jobs, provider : Providers, value : Values,
               block : {height + 1}] :
       /\ MayEmit(l)
       /\ l.kind \in Valueless => l.value = Min(Values)
       /\ logs' = Append(logs, l)
  /\ UNCHANGED <<height, start, db, loopVars, crashes>>

Mine ==
  /\ height < MaxHeight
  /\ height' = height + 1
  /\ UNCHANGED <<logs, start, db, loopVars, crashes>>

-----------------------------------------------------------------------------
(* run: start_from, then event_loop reads the sync row                     *)

\* Faulty variant: the sync row is set whatever it was.
start_from_Always(d) == [d EXCEPT !.sync = start - 1]

start_from(d) ==
  IF d.sync < start - 1 THEN [d EXCEPT !.sync = start - 1] ELSE d

\* What event_loop keeps between two ranges is last_updated alone.
NoRange == latest' = 0 /\ end' = 0 /\ work' = EmptyDb /\ todo' = {}
Exit    == phase' = "exited" /\ last' = 0 /\ NoRange

\* The i64 of the sync row becomes a u64.
Start ==
  /\ phase = "exited"
  /\ db' = start_from(db)
  /\ last' = db'.sync % U64
  /\ phase' = "poll"
  /\ UNCHANGED <<chainVars, latest, end, work, todo, crashes>>

\* latest_block is ahead of last_updated: pick the range.  When they are equal
\* the loop sleeps.
LatestBlock ==
  /\ phase = "poll"
  /\ height > last
  /\ latest' = height
  /\ end' = Min({last + 1 + RangeSize - 1, height})
  /\ phase' = "fetch"
  /\ UNCHANGED <<chainVars, db, last, work, todo, crashes>>

\* "rpc is behind the db": event_loop returns an error.
RpcBehind ==
  /\ phase = "poll"
  /\ height < last
  /\ Exit
  /\ UNCHANGED <<chainVars, db, crashes>>

\* Faulty variant: the range starts at the last block again.
FetchLogs_FromLast ==
  /\ phase = "fetch"
  /\ todo' = InRange(last, end)
  /\ work' = db
  /\ phase' = "tx"
  /\ UNCHANGED <<chainVars, db, last, latest, end, crashes>>

\* The logs of the range, and the begin of the transaction.
FetchLogs ==
  /\ phase = "fetch"
  /\ todo' = InRange(last + 1, end)
  /\ work' = db
  /\ phase' = "tx"
  /\ UNCHANGED <<chainVars, db, last, latest, end, crashes>>

-----------------------------------------------------------------------------
(* The handlers.  Each gives the set of databases it may leave: one, or    *)
(* none when it returns an error.                                          *)

\* UPDATE jobs ... WHERE id = j AND is_closed = false, one row expected.
IsOpen(d, j) == d.jobs[j] # NoRow /\ ~d.jobs[j].is_closed
UpdateOpenJob(d, j, row) ==
  IF IsOpen(d, j) THEN {[d EXCEPT !.jobs[j] = row]} ELSE {}

\* INSERT INTO transactions, whose key is the position of the log.
AddTransaction(ds, k, dep) ==
  {[d EXCEPT !.transactions = @ \cup
      {[block |-> logs[k].block, idx |-> k, job |-> logs[k].job,
        amount |-> logs[k].value, is_deposit |-> dep]}] :
   d \in {d \in ds : \A t \in d.transactions :
                       t.block # logs[k].block \/ t.idx # k}}

\* UPDATE providers ... WHERE is_active = true, one row expected.
IsActive(d, p) == d.providers[p] # NoRow /\ d.providers[p].is_active
SetProvider(d, p, row) == [d EXCEPT !.providers[p] = row]

handle_provider_added(d, k) ==
  LET l == logs[k]
  IN  IF IsActive(d, l.provider) THEN {}
      ELSE {SetProvider(d, l.provider, [cp |-> l.value, is_active |-> TRUE])}

handle_provider_removed(d, k) ==
  LET p == logs[k].provider
  IN  IF IsActive(d, p)
      THEN {SetProvider(d, p, [d.providers[p] EXCEPT !.is_active = FALSE])}
      ELSE {}

handle_provider_updated_with_cp(d, k) ==
  LET p == logs[k].provider
  IN  IF IsActive(d, p)
      THEN {SetProvider(d, p, [d.providers[p] EXCEPT !.cp = logs[k].value])}
      ELSE {}

\* Nothing is asked of the provider.
handle_job_opened(d, k) ==
  LET l   == logs[k]
      row == [provider |-> l.provider, metadata |-> l.value, rate |-> l.value,
              balance |-> l.value, last_settled |-> l.block, is_closed |-> FALSE]
  IN  IF d.jobs[l.job] # NoRow THEN {}
      ELSE AddTransaction({[d EXCEPT !.jobs[l.job] = row]}, k, TRUE)

handle_job_settled(d, k) ==
  LET l == logs[k]
  IN  UpdateOpenJob(d, l.job, [d.jobs[l.job] EXCEPT !.balance = @ - l.value,
                                                    !.last_settled = l.block])

handle_job_closed(d, k) ==
  LET j == logs[k].job
  IN  UpdateOpenJob(d, j, [d.jobs[j] EXCEPT !.is_closed = TRUE])

handle_job_deposited(d, k) ==
  LET l == logs[k]
  IN  AddTransaction(
        UpdateOpenJob(d, l.job, [d.jobs[l.job] EXCEPT !.balance = @ + l.value]),
        k, TRUE)

handle_job_withdrew(d, k) ==
  LET l == logs[k]
  IN  AddTransaction(
        UpdateOpenJob(d, l.job, [d.jobs[l.job] EXCEPT !.balance = @ - l.value]),
        k, FALSE)

handle_job_revise_rate_finalized(d, k) ==
  LET l == logs[k]
  IN  UpdateOpenJob(d, l.job, [d.jobs[l.job] EXCEPT !.rate = l.value])

handle_job_metadata_updated(d, k) ==
  LET l == logs[k]
  IN  UpdateOpenJob(d, l.job, [d.jobs[l.job] EXCEPT !.metadata = l.value])

\* The request's key is the job's id; a lock of another kind is an Other log.
handle_lock_created(d, k) ==
  LET l == logs[k]
  IN  IF IsOpen(d, l.job) /\ d.requests[l.job] = NoRow
      THEN {[d EXCEPT !.requests[l.job] = l.value]}
      ELSE {}

\* "cannot really check count at this point"
handle_lock_deleted(d, k) == {[d EXCEPT !.requests[logs[k].job] = NoRow]}

handle_log(d, k) ==
  CASE logs[k].kind = "ProviderAdded" -> handle_provider_added(d, k)
    [] logs[k].kind = "ProviderRemoved" -> handle_provider_removed(d, k)
    [] logs[k].kind = "ProviderUpdatedWithCp" -> handle_provider_updated_with_cp(d, k)
    [] logs[k].kind = "JobOpened" -> handle_job_opened(d, k)
    [] logs[k].kind = "JobSettled" -> handle_job_settled(d, k)
    [] logs[k].kind = "JobClosed" -> handle_job_closed(d, k)
    [] logs[k].kind = "JobDeposited" -> handle_job_deposited(d, k)
    [] logs[k].kind = "JobWithdrew" -> handle_job_withdrew(d, k)
    [] logs[k].kind = "JobReviseRateFinalized" -> handle_job_revise_rate_finalized(d, k)
    [] logs[k].kind = "JobMetadataUpdated" -> handle_job_metadata_updated(d, k)
    [] logs[k].kind = "LockCreated" -> handle_lock_created(d, k)
    [] logs[k].kind = "LockDeleted" -> handle_lock_deleted(d, k)
    [] OTHER -> {d}

-----------------------------------------------------------------------------
(* The transaction                                                         *)

\* k is the next of the fetched logs.
NextLog(k) == k \in todo /\ \A m \in todo : k <= m

\* Faulty variant: every log is committed on its own.
HandleLog_Autocommit ==
  /\ phase = "tx"
  /\ \E k \in todo : /\ NextLog(k)
                     /\ work' \in handle_log(work, k)
                     /\ todo' = todo \ {k}
  /\ db' = work'
  /\ UNCHANGED <<chainVars, phase, last, latest, end, crashes>>

HandleLog ==
  /\ phase = "tx"
  /\ \E k \in todo : /\ NextLog(k)
                     /\ work' \in handle_log(work, k)
                     /\ todo' = todo \ {k}
  /\ UNCHANGED <<chainVars, db, phase, last, latest, end, crashes>>

\* A handler fails: the transaction is rolled back and event_loop returns.
HandlerError ==
  /\ phase = "tx"
  /\ \E k \in todo : NextLog(k) /\ handle_log(work, k) = {}
  /\ Exit
  /\ UNCHANGED <<chainVars, db, crashes>>

\* Faulty variant: last_updated stays where it was.
Commit_KeepsLast ==
  /\ phase = "tx" /\ todo = {}
  /\ db' = [work EXCEPT !.sync = last]
  /\ phase' = "poll"
  /\ NoRange
  /\ UNCHANGED <<chainVars, last, crashes>>

Commit ==
  /\ phase = "tx" /\ todo = {}
  /\ db' = [work EXCEPT !.sync = end]
  /\ last' = end
  /\ phase' = "poll"
  /\ NoRange
  /\ UNCHANGED <<chainVars, crashes>>

\* The process dies, or an rpc or database call fails and run returns.
Crash ==
  /\ crashes < MaxCrashes
  /\ phase # "exited"
  /\ crashes' = crashes + 1
  /\ Exit
  /\ UNCHANGED <<chainVars, db>>

Loop == LatestBlock \/ RpcBehind \/ FetchLogs \/ HandleLog \/ HandlerError \/ Commit

Next == Emit \/ Mine \/ Start \/ Loop \/ Crash

\* The loop runs and the process is started again when it has exited.
Spec == Init /\ [][Next]_vars /\ WF_vars(Start) /\ WF_vars(Loop)

-----------------------------------------------------------------------------
(* Properties                                                              *)

\* The sum of the values of the logs q at the positions ps.
Total(q, ps) ==
  LET sum[n \in 0..Len(q)] ==
        IF n = 0 THEN 0 ELSE sum[n - 1] + IF n \in ps THEN q[n].value ELSE 0
  IN  sum[Len(q)]

Amounts(ps) == Total(logs, ps)

\* Value of the newest log of ps, NoRow if there is none.
Newest(ps) == IF ps = {} THEN NoRow ELSE logs[Max(ps)].value

\* The row of job j is what the logs at ps say.
RowMatches(row, ps, j) ==
  LET at(ks) == Of(ps, j, ks)
  IN  /\ row = NoRow <=> at({"JobOpened"}) = {}
      /\ row # NoRow =>
           /\ row.balance = Amounts(at({"JobOpened", "JobDeposited"}))
                              - Amounts(at({"JobSettled", "JobWithdrew"}))
           /\ row.is_closed = (at({"JobClosed"}) # {})
           /\ row.rate = Newest(at({"JobOpened", "JobReviseRateFinalized"}))
           /\ row.metadata = Newest(at({"JobOpened", "JobMetadataUpdated"}))
           /\ row.last_settled = logs[Max(at({"JobOpened", "JobSettled"}))].block

\* So are all the tables of d about job j, and about provider p.
JobMatches(d, ps, j) ==
  /\ RowMatches(d.jobs[j], ps, j)
  /\ d.requests[j] = Newest(Locks(ps, j))
  /\ {t.idx : t \in {t \in d.transactions : t.job = j}}
       = Of(ps, j, {"JobOpened", "JobDeposited", "JobWithdrew"})

ProviderMatches(d, ps, p) ==
  /\ IsActive(d, p) <=> Additions(ps, p) # {}
  /\ d.providers[p] # NoRow =>
       d.providers[p].cp =
         Newest(OfProvider(ps, p, {"ProviderAdded", "ProviderUpdatedWithCp"}))

\* Positions of the logs the committed database accounts for.
Indexed == InRange(start, db.sync)

\* The committed tables are what the logs from the start block to the sync row
\* say, each counted once: no crash, retry, failed handler or range boundary
\* loses, repeats or half applies a log (event_loop, the handlers).
DbMatchesChain == /\ \A j \in Jobs : JobMatches(db, Indexed, j)
                  /\ \A p \in Providers : ProviderMatches(db, Indexed, p)

\* The sync row never moves back and never passes the head of the chain, so a
\* later range cannot skip blocks (event_loop, start_from).
SyncMovesForward ==
  [][db'.sync # db.sync =>
       db'.sync > db.sync /\ (db'.sync <= height \/ db'.sync = start - 1)]_vars

\* "should never happen": indexed from its first block on, a consistent contract
\* never makes a handler fail.
NoHandlerError ==
  start <= 1 /\ phase = "tx" => \A k \in todo : NextLog(k) => handle_log(work, k) # {}

\* The head of the chain is reached again and again, whatever crashes there
\* are, if indexing starts where the contract does.
CatchesUp == start = 1 => []<>(db.sync = height)
=============================================================================
