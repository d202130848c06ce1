# TLA+ specifications of the Oyster monorepo

Oyster rents out AWS Nitro enclaves. A **market contract** on chain holds jobs
and their balances; an **operator** runs the *control plane*, which follows the
contract's logs and keeps one EC2 instance with one enclave running for every
job that pays; the *indexer* copies the same logs into Postgres for the
frontends; the *serverless executor* runs user code inside an enclave for a
second set of contracts; *raw* and *tcp proxies* carry an enclave's traffic over
vsock; *scallop* is the attested channel that programs in enclaves use. The
specifications here model the parts that keep state and that other parts race
with, crash under or retry.

## 1. Inventory

### operator/control-plane

| Part | State | Operations | Talks to |
|---|---|---|---|
| Market watcher: `run`, `run_once`, `new_jobs` (market.rs 258-419) | `job_count`, the subscription, the cutoff block, the list of spawned tasks | connect, subscribe, read the block number, read old logs, spawn a task per `JobOpened`, reconnect | RPC node; spawns job managers |
| Job manager: `job_manager`, `job_manager_once`, `JobState` (421-1372) | `JobState`: balance, rates, `eif_url`, `eif_update`, `instance_id`, and one scheduled infra change with its mode | one arm of `process_log` per log kind, `heartbeat_check`, `handle_insolvency`, `change_infra` | RPC node (log stream), `InfraProvider` |
| Insolvency timer: `insolvency_duration` (596-610) | `balance`, `rate`, `last_settled` | recomputed on every turn of the loop | the clock |
| AWS provider: `Aws` (aws.rs) | nothing of its own: tags on EC2 instances and addresses *are* the state | `spin_up`, `spin_down`, `get_job_instance_id`, `get_job_ip` (reads only), elastic IPs | EC2 |
| Enclave set-up: `run_enclave_*`, `update_enclave_image_impl` (aws.rs) | files and services on the instance: allocator, `tc`, iptables, `enclave.eif`, `image_url.txt`, the enclave | a list of ssh commands, each of which may fail | the instance, nitro-cli |
| HTTP server (server.rs) | none | `GET /ip`, `/spec`, `/bandwidth` | the provider, concurrently with the job managers |

Hard: the biased `select!` of the job manager interleaves logs, heartbeat,
insolvency and infra changes; every provider call may fail before or after it
took effect; a restart loses all of `JobState` and replays every log; EC2
eventually forgets instances and gives no order; three calls to the RPC node
have to add up to one gapless stream. Correct means: at most one live instance
and one elastic IP per job; every closed, refused, underpaid or insolvent job is
torn down; every paying job is served with its latest image; only allowed images
run; every job gets exactly one task.

### contracts/indexer

State: tables `jobs`, `transactions`, `providers`,
`revise_rate_requests`, and the one-row table `sync`. Operations: `start_from`,
`event_loop` (poll, cap the range, fetch logs, one transaction per range) and a
handler per log kind. Hard: crashes between the calls, a handler that fails in
the middle of a range, the mix of i64, u64 and -1 in the block numbers. Correct
means: the committed tables are exactly what the indexed logs say, and the head
is reached.

### serverless/executor

| Part | State | Operations | Talks to |
|---|---|---|---|
| Endpoints (node_handler.rs) | injected parameters, gas key, `events_listener_active` | inject, export the registration message, which starts the listener | the owner |
| Listener: `events_listener`, `handle_event_logs` (event_handler.rs) | `enclave_registered`, `last_block_seen`, three subscriptions, `job_requests_running` | connect, subscribe, take or skip a log, leave on deregistration | RPC node; spawns the tasks below |
| Timeout: `handle_timeout` (timeout_handler.rs) | `job_requests_running` | sleep, check, send `TIMEOUT`, remove | the transaction channel |
| Execution: `handle_job` (job_handler.rs, workerd.rs, cgroups.rs) | the pool `Cgroups.free`, one worker process and port per cgroup, two files per job | fetch the code, reserve a cgroup, start the worker, wait for its port, ask it, clean up | RPC node, workerd, the channel |
| Transaction sender: `send_execution_output`, `resend_pending_transaction` | `nonce_to_send`, the pending queue | estimate, send, retry, replace, unblock a nonce | RPC node |

Hard: three streams without order among them share `last_block_seen`; a
reconnection replays logs; the timeout races the last response; the deadline
drops a task at any await; a killed worker leaves its port late; cgroups are a
bounded pool. Correct means: a job that is seen is answered or timed out and
never restarted; no cgroup is lost or shared; an output comes from the job's own
worker; every nonce that is used is mined.

### networking and sdks/rs

| Part | State | Operations | Talks to |
|---|---|---|---|
| raw-proxy: four programs, two paths | an nfqueue or an IP socket, a vsock connection, the packet in hand | take a packet, send it with its verdict, read and filter one, send it on, reopen what failed | the kernel, the other half over vsock |
| tcp-proxy: five programs, three pairs | two sockets per connection | find the destination, connect, pass the address on, copy both ways, shut down | clients, servers, the other half over vsock |
| scallop.rs | the noise state, a write and a read buffer with a mode | handshake with an attestation either way, `poll_read`, `poll_write`, `poll_flush`, `poll_shutdown` | any byte stream |

Hard: streams deliver in pieces, writes take a part, connections break in the
middle of a frame, and each side reopens only what failed; the directions of a
connection end at different times; both peers of a handshake may ask for an
attestation. Correct means: packets and streams arrive whole, in order and once,
an end that looks clean is one, both directions and both processes find each
other again, and a peer that had to be verified was.

### The rest

Attestation verification in `sdks/rs` and `sdks/go`, `attestation/*`,
`initialization/*`, `operator/quota-monitor-aws`, `operator/setup-aws`, and build
recipes (`kernels`, `external`, `sdks/docker-enclave`, `iperf3-enclave`). None of
these keeps state over more than one call; the monitoring loop of the quota
monitor is commented out in the source.

## 2. Plan

1. `JobManager`, `Solvency` (done).
2. `InfraProvider` (what change_infra relies on) and `AwsInfra` refining it;
   `EnclaveImage`; `Market` (done).
3. `Indexer` (done).
4. Serverless executor: `EventsListener`, `JobExecution`, and `TxnSender` for
   the sender and the resender with key injections (done).
5. `Scallop`, `RawProxy`, `TcpProxy` and their composition `Networking` (done).
6. Proofs of the safety properties of every module, the type invariants and the
   refinement of `InfraProvider` (done).
7. What is left is beyond the prover: the liveness properties.

## 3. Modules

| Module | Models | Composes |
|---|---|---|
| `JobManager` | one job's task and its instances | uses EC2 as `inst`, `enclave` |
| `MCJobManager` | symmetry for TLC | extends `JobManager` |
| `JobManager_proofs` | theorems | extends `JobManager` |
| `Solvency` | `insolvency_duration` on a clock | |
| `InfraProvider` | abstract: what a provider call may do to a job's instance and address | |
| `AwsInfra`, `AwsInfra_proofs` | spin_up and spin_down call by call | implements `InfraProvider` |
| `EnclaveImage`, `EnclaveImage_proofs` | run_enclave and update_enclave_image command by command | |
| `Market` | the stream of opened jobs and their tasks | |
| `Market_proofs` | theorems on the market watcher and the timer | extends `Market`, `Solvency` |
| `Indexer`, `Indexer_proofs` | the event loop, the handlers, the database | |
| `EventsListener` | the executor's endpoints, listener and timeouts | counts the tasks that `JobExecution` models |
| `JobExecution` | the executor's job tasks, cgroup pool and workers | |
| `Executor_proofs` | theorems on the listener and the job tasks | extends `EventsListener`, `JobExecution` |
| `TxnSender`, `TxnSender_proofs` | the executor's transactions from the channel to the chain, with the gas key endpoint | takes what `EventsListener` and `JobExecution` hand over as `Submit` |
| `RawProxy` | one path of the raw proxies: nfqueue, vsock, IP socket | |
| `TcpProxy` | one connection through a pair of tcp proxies | |
| `Scallop` | the handshake and one direction of the stream | |
| `Networking` | the three layers an enclave's traffic may use | extends `RawProxy`, `TcpProxy`, `Scallop` |
| `MCNetworking` | the instance for TLC, and what a mask does | extends `Networking` |
| `Streams_proofs` | theorems on the three layers and on the network | extends `Networking` |

**JobManager.** `chain` is the job's logs; a session (`pc`, `js`, `pos`) starts
from a fresh `JobState` and consumes them in order. `process_log` has one action
per arm; log kinds that fail in the arm for any reason are the kinds `_BAD` and
`_DENIED`. A turn of the `select!` is one action: `Drained` expresses `biased`,
a log that has arrived goes first. `change_infra_impl` awaits up to three
provider calls; `pc` names the await, so instances stop, die and logs arrive
between them. A provider call is one step with an `Ok` and an `Err` form; an
`Err` may leave any of the effects the call can leave. `js.infra_change_scheduled`
is cleared when `change_infra` returns true. Deadlines are abstracted to an
order of the logs, and the timers of the three other branches fire in any order:
launches wait 3 s, retries 2 s and the heartbeat 5 s, and the heartbeat's sleep is
created anew on every turn, but nothing in the code keeps a task that is polled late
from finding two of them elapsed, and then the heartbeat goes first. So `Heartbeat`
has the guard of the code, a non-empty `instance_id`, and may schedule a launch over
a scheduled termination; `overruled` is a history variable that remembers it. The
enclave it runs again (`rerun_enclave`) leaves the `JobState` alone. `UpdateOk`
assumes the right image was downloaded; `EnclaveImage` has the detail.

**Solvency.** The same balance and rate logs on a clock of seconds, with the
U256 product modulo `U256`, the saturation at `U64` and the three saturating
subtractions. `task` says where the job's only task is. At the `select!` a second
passes only while the timer is not due: a timer that is due is served in that poll.
But `Hold` takes the task to another branch, the ssh calls of a heartbeat or the
100 s of a `spin_up`, or simply leaves it unpolled; time passes until `Return`, and
`since` remembers when the task was last at the `select!`. `PaidFor` therefore
promises the margin at the `select!`, and paid seconds as long as no branch holds
the task for longer than the margin.

**AwsInfra** has one action per EC2 call of `spin_up_instance` and
`spin_down_instance`; `Fail` is an error without effect,
`LostResponse` an effect whose response is lost, `Restart` a new process at any
call. **InfraProvider** is what the job manager relies on: between a call and
its return the instance may be started, given an address, deprived of it and
stopped, and `Ok` means what the caller takes it to mean.

**EnclaveImage** writes the two calls as lists of commands (`RunPlan`,
`UpdatePlan`); each command may fail before or after its effect, except curl,
whose failure is not noticed (`DownloadFails`).

**Market** has the chain with blocks and reorgs, a node that pushes logs to a
subscription, and the client's three calls as three actions. `AreUpTo(n, cutoff)`
says that the logs up to the cutoff are the first `n`: that is what `get_logs` returns.

**Indexer** keeps `db` and, inside a transaction, `work`; a handler maps a
database and a log to the set of databases it may leave, empty when it returns
an error. What the tables should hold is written over sets of positions in the logs
(`RowMatches`, with `Total` for the amounts), so that one definition serves the
committed database and the one inside a transaction.

**EventsListener** has `events`, the logs of both contracts in chain order with
their blocks, and a position per subscription. `phase` is the await
`events_listener` is at; a call that fails and a stream that ends are the same
`Drop`. `Take` is a turn of the `select!` in `handle_event_logs`, `Stale` its
comparison with `last_block_seen`. An export call is two steps, the block number
(`FetchHead`) and what it does under the lock (`Export`); `calls` holds the numbers
fetched in between. `rewound` is a history variable: a listener was started from a
block before `last_block_seen`. A `handle_timeout` task is counted in
`sleeping` and then in `sending`, because its check and its removal are separated
by the await of the channel. `completed` is a history variable. Logs with the
`removed` flag and logs that do not decode are left out.

**JobExecution** has a record per `handle_job` task: its await (`pc`), its cgroup,
the state of its worker process and its outcome. `Return` is the end of
`execute_job`, by a return or by the deadline: the two `defer!` blocks run
without an await, so they are one step. A killed worker is `dying` until it has
left its port, which nobody waits for. `blocked` is the synchronous read of
stderr, the one place the deadline cannot reach. `assigned` is what the contract
counts against the capacity; it settles jobs whenever it likes, and the listener
may spawn a task late or twice, so `ReserveSucceeds` names the case it speaks of
instead of assuming it.

**TxnSender** has per session a channel, a sender, the deque `pending` and a
resender; the sessions share `key` and `nonce_to_send` with `inject_mutable_config`.
`pc` of each names its next lock or await, so everything that another task may get
between is a step. A call to the node succeeds, fails, or takes effect and loses its
response, the dummy transfer of the resender included; the error that
`parse_send_error` makes of it decides the branch. Gas limits and prices are
abstracted to whether the node takes the transaction. The chain has per key a ledger
and a pool with one transaction per nonce; the pool may drop one. `Overlap = FALSE`
keeps a key injection and a send, or the sends of two sessions, apart: with it the
nonces are right, without it they are not (`txn_sender_overlap`). The condition is
part of `Next`, because no lock in the code enforces it.

**RawProxy.** A packet is a sequence of pieces of which the first holds its size; a
write passes on any number of them, a reset loses any part of what is on its way.
`sender` and `receiver` name the call each process is in; an error reopens the
socket it belongs to, with whatever the other process still holds left behind. The
queue is the exception: after an `NfqError` the old one is dropped only when a new
one is bound, to the same number, which the kernel refuses as long as the old one is
there. The sender is then in `rebind` and stays there; the receiver and what is on
the connection are not affected. The outgoing filter has the code's masks
(`Reserved`), octet by octet. `Masked` is the `&` with a mask, written as a
subtraction that the prover can compute with; an assumption of `MCNetworking`, which
TLC evaluates, compares the two for every octet. What may pass (`Allowed`) is
written over the address blocks that the code's comments name.

**TcpProxy.** Two relays, three hops, two directions. `transfer` is modelled up to
`try_join`: a copy that ends shuts its direction down, a copy that fails, or cannot
shut down, drops both sockets. `SendHeader` writes the destination in the byte order
of the code and `ReadHeader` reads it back.

**Scallop.** `hs` names the message each peer waits for; `Options` is what a peer
was called with, and sizes of attestations matter only against the two limits of
the code. The plaintext of a record is an interval of the accepted bytes (`first`,
`len`). A record is cut into pieces that the base stream takes and gives
in any portions; the application may write, flush, shut down or drop in any order,
also an empty buffer. **Networking** puts the three side by side: they share no
state, and `layer` says which one a behaviour is about.

## 4. Runs

| Run | States | Question and answer |
|---|---|---|
| `job_manager_safety` | 1,391,581 | Do two sessions, a retry or a death ever give a job two live instances, or end it with one left? No. Is a termination ever undone? Only by a metadata update, or by a heartbeat that goes before `change_infra`. |
| `job_manager_live` | 34,378 | Is a closed or insolvent job torn down and a paying one served? Yes, unless its update is tried for ever. |
| `aws_provider` | 1,968 | Does the provider keep its promises call by call? Yes. |
| `enclave_image` | 8,986 | Does only an allowed image run, fully set up? Yes. |
| `market_tasks` | 145,716 | One task per job, in order, none missing, while the chain takes nothing back? Yes. |
| `solvency_timer` | 79,345 | Is a second ever unpaid for, or the timer early by more than the margin? No, unless one branch holds the task for longer than the margin, or the product wraps. |
| `indexer` | 1,065,882 | Are the tables always what the logs say? Yes. |
| `executor_events` | 279,778 | Is a completed job restarted by a replay, a log skipped without need, a job forgotten? No, unless an export call starts a listener from a stale block number. |
| `executor_jobs` | 441,842 | Is a cgroup lost, shared or missing for a job within capacity; does another job's worker ever answer? No. |
| `txn_sender` | 98,287 | While sends and injections do not overlap: is a used nonce ever unwatched or blocked for ever, a transaction lost or mined twice? No. |
| `txn_sender_overlap` | violation | Does a pending nonce always belong to its signer, as the code says? No: section 7. |
| `networking` | 203,285 | Are packets or streams ever mixed up, is a peer accepted unverified? No. Is an end ever given too early, or does anybody wait for ever? Only where a proxy's transfer or a proxy's queue has failed. |

Every module has its type invariant: `TypeOK`, or `TimerTypeOK`, `ListenerTypeOK`,
`RawTypeOK`, `TcpTypeOK` and `ScallopTypeOK` in the modules that are extended
together with others. All are proved, by themselves or as a part of an inductive
invariant, and are not listed again in the runs.

**Bounds.** The constants named `Max...` bound the logs, blocks, faults,
restarts and updates; nothing else is bounded. Each hazard needs few of them:
two instances are enough to have two at once, and with one fault and one restart
every pair of (call, cut) is met; four logs allow opened, killing, reviving and
closing; three logs in three blocks with ranges of two blocks let a range hold
none, one or several logs and end inside or outside a block; two jobs and three
blocks let a block arrive between any two of the three calls of `new_jobs`,
twice dropped; four logs allow registration, a job and both its responses, or
responses that overtake their job, with a reconnection anywhere, and two export
calls let one fetch a block number that the other makes stale; three tasks
on two cgroups let a task meet the killed worker of another and use `swap_remove`
on lists of one and two; two transactions, two keys and two sessions let one nonce
block another, a key be replaced under either, and an old sender meet a new one,
with one fault anywhere; three packets of two or three pieces, of which one is
filtered, on a connection of three pieces let a frame be cut anywhere and followed
by another, twice; two bytes one way and one the other let either direction of a
proxied connection end first, with a reset anywhere; two bytes in records of at
most two, on a wire of three pieces, let a record be cut in its length, its body
and its tag. `Solvency` has widths so small (`U256 = 22`, `U64 = 16`, balances up
to 8 at a scale of 3) that the product wraps and the quotient saturates, and a
clock of 8 s with a margin of 2 s lets the task be held for longer than the margin;
the proofs cover the real widths. In `job_manager_live` a third
instance lets a fault happen after a replacement. Symmetry is used only in the
safety run, over `Urls`. Deadlock checking is off: a job may end, and a bounded
environment may fall silent.

**Fairness.** Weak fairness of the session's own steps: tokio polls a task that is
ready, and timers fire. Weak fairness of `Deliver` and of process restarts: a
subscription delivers and a supervisor restarts the process. Strong fairness of the
`Ok` form of a provider call: the code retries for ever, and a call that is retried
for ever succeeds in the end. The exception is `UpdateOk`, of which no fairness is
assumed, because `update_enclave_image` may fail at every try in the same way
(section 7); `EventuallyServing` says so (`[]<>(pc = "update")`). Strong fairness of
`Insolvency` and `ChangeInfra`: logs go first in the biased `select!` but the job
has finitely many, and a heartbeat of 5 s does not come before timers of at most 3 s
for ever. In the executor, weak fairness of the listener's calls, of taking a
`JobCreated` log (`select!` polls its branches in random order), of timers, and of
reading the stderr of a process that has exited; a worker need not answer or exit.
In `TxnSender`, weak fairness of the chain, of deadlines, of both tasks and of the
end of an injection, and strong fairness of the dummy transfer, which is retried for
ever. In `Networking`, weak fairness of the processes' own steps and of the copies:
a socket or connection that is reopened with a backoff opens in the end, and so does
the queue that `main` opens first, but never a queue after an `NfqError`; a poll
function is polled until it is ready, and both ends of a connection read. No packet
has to arrive and nobody has to send, to close or to flush. Nothing is assumed of
faults, of the contracts or of export calls.

## 5. Proofs

TLAPS proves, for all values of the constants:

- `JobManager_proofs`: `TypeCorrect`, `OneInstancePerJob`,
  `TerminationIsComplete`, `OnlyMetadataRevives`, `TerminationIsSticky`.
- `Market_proofs`: `TasksFollowTheChain`; for the timer `TimerTypeCorrect`,
  `TimerNeverLate`, `TimerNeverEarly`.
- `Executor_proofs`: for the job tasks `TypeCorrect`, `CgroupOwnedAlways`,
  `OwnWorkerAlways`, `ReserveSucceedsAlways`; for the listener
  `CompletedNotRestarted`.
- `Indexer_proofs`: `IndexerTypeCorrect`, `SyncMovesOn`, `DbIsTheChain`,
  `NoHandlerFails`.
- `AwsInfra_proofs`: `OneElasticIp`, `SpinDownLeavesNothing`, `AddressIsKept`, and
  the refinement `ImplementsInfraProvider`.
- `EnclaveImage_proofs`: `OnlyAllowedRuns`, `SetUpAsLongAsItRuns`.
- `TxnSender_proofs`: `UsedNoncesAreWatched`, `SentExactlyOnce`.
- `Streams_proofs`: `PeersAreAuthenticated`, `BytesArriveInOrder`, `ProxyIsFaithful`,
  `PacketsStayWhole`, and for the three together `NetworkIsSafe`.

Each rests on a theorem that its inductive invariant always holds: `Invariance`, or
where a module has several, `ListenerInvariance`, `LoopInvariance`,
`LawfulInvariance`, `TablesInvariance`, `HandshakeInvariance`, `StreamInvariance`,
`ProxyInvariance`, `RawInvariance`.
The constants are constrained by the named assumptions of the modules only, which
say what kind of value each is.

**Job manager.** `AtMostOneLive` is not inductive: `SpinUpOk` adds an instance,
so the state before it must say that there is none. `IInv` adds `Control` (what
each `pc` implies: in `spin_up` no instance is live; in `replace` and
`spin_down`, `target` is the only one that may be), `OpenedFirst` (the first log
opens the job and nothing precedes it) and `Revived` (a session whose job state
wants a launch has seen no killing log without a later metadata update). Each
action has a lemma. The proviso `LiveListedFirst` appears in the two theorems on
instances: `get_job_instance_id` looks at the first reservation only, and if EC2
lists a terminated instance before the live one, both properties fail.

**Insolvency timer.** From the division lemma `q = x \div r` iff
`q*r <= x < (q+1)*r` follow bounds of the saturated quotient. `TimerNeverLate`
has no hypothesis on the widths: a product that wraps is only smaller (`Wrapping`),
and so is a quotient that saturates, so both make the timer fire earlier. Its
invariant `PaidWhenSeen` says that whenever the task was last at the `select!` with
the job up, the balance paid for that time and the margin; a task held for no longer
than the margin has therefore not used it up. `TimerNeverEarly` speaks of states
whose product fits its type (`balance * Scale < U256`); a balance of
2^256 / 10^12 units does not exist.

**Job execution.** `IInv` splits `CgroupOwned` into four facts about the free list
and the tasks that hold a cgroup (`FreeOnce`, `HeldOnce`, `NotBoth`, `NoneLost`)
and adds `Reserved` (a task has a cgroup exactly from `reserve` to its end, so the
`defer!` releases what was reserved) and `WorkerHeld` (a worker that may still
answer belongs to a task in execution, because `Return` kills it). A worker that
answers then holds the same cgroup as the task that asks, and `HeldOnce` makes
them the same task. Every action is a `Return`, an `Advance` or a `Reserve`, with
a lemma each. `ReserveSucceedsAlways` is a pigeonhole argument: if no cgroup were
free, each would be held by a task of its own (`NoneLost`, `HeldOnce`), the jobs of
these tasks and of the one that waits would all be assigned and different, and the
contract would have assigned more jobs than there are cgroups, which `Within`
excludes (an invariant of its own, from the guard of the contract's step).

**Listener.** A `JobCreated` log of a completed job must be stale whenever it is
served. `CompletedPassed` says that `last_block_seen` is beyond the block of that
log; it is put there when the last `JobResponded` is taken, because the contract
mines a response in a later block than its job (`RespondedIsCreated`, `Ordered`).
The comparison is strict, so this is just enough. `last_block_seen` must never go
back: the one assignment without a comparison is that of the registration log
(event_handler.rs 71), and `FromSeen` says that a listener that waits for its
registration has a `from` that is not before what it has seen, so that log is not
either. An export call sets `from` to a block number that it fetched before it took
the lock, so this holds only of listeners whose number was not stale: the invariant
and the theorem are stated as long as `~rewound`.

**AWS provider.** That there is one elastic IP at most is not inductive: `allocate`
adds one, so the state before it must have none. `IInv` says what a call has
achieved when it comes to a step (`Control`), that the only instance that can run
is the call's own, and that a launch starts from none (`OneRunning`), and which
caller a call belongs to (`Purpose`). The refinement maps `cur` to the instance the
abstract call is about, and the associations to the instance that answers at the
job's address; each action is shown to be one of its
steps or a stutter, and `IInv` gives the guards: when `return` is reached, what
`Ok` promises is true.

**Enclave set-up.** The commands of a call are a list, and the proof is about their
order: `RunPlanOrdered` and `UpdatePlanOrdered` state it once for both families and
both debug flags (the check follows the download, `run` is last, `tc_add` follows
`tc_del`). `Passed(s)` says that the call has completed command `s`; `CheckedFile`
and `HostSetUp` say what that implies, whatever earlier calls have left behind, and
`RunsAlone` that nothing touches the host under an enclave that runs.

**Market watcher.** The merged stream is described by two positions in the chain's
logs: how many the subscription has let pass (`Passed`) and how many items have
been taken (`Taken`, those skipped by `job_count` included). `Position(n)` says that
what is left of the old logs is the rest of the first `n`, and that what follows
connects to it without a gap or an overlap. The cutoff is read after the
subscription has begun, so `phase = "cut"` implies that what passed before lies
under the cutoff: this is where the order of the two calls is needed. All of it is
stated while no block has been taken back (`reorgs = 0`), as `SpawnedIsPrefix` is.

**Indexer.** Three invariants, each over the one before. `LoopInv` is about the
loop: the range in hand starts one after the sync row and ends at or before the head
(`Fetched`), what is left of it are the logs after those handled, in order
(`Handled`), nothing is kept outside a transaction (`Idle`). The arithmetic of
`start_from` in 64 bits, with -1 for a start at block 0, is in `SyncRow` and
`LastUpdated`. `TablesMatch` says that the committed tables match the indexed logs
and, in a transaction, that the work tables match those plus the logs handled.
`HandlersMatch` shows, handler by handler, that a handler that succeeds takes tables
that match a set of logs to tables that match the set with the next log;
`MatchesStay` that new logs of the contract are not among those looked at. It is
stronger than `DbMatchesChain` in one fact: a job without a row has no log that
would have written one, without which an insert could meet an older update.
`ChainIsLawful` says that each log was allowed by those before it, which is assumed
of the contract (`MayEmit`), and `HandlersSucceed` reads off, kind by kind, that the
row the handler demands is there and open. The balance in a row is a recursive sum
over the logs; that it grows by the value of the next log is proved by induction
over the positions, written as a least counterexample (`CountsUp`, from `WFMin`).

**Transaction sender.** The theorems have the hypothesis `~Overlap`; without it
they are false, which `txn_sender_overlap` shows. `NoncesWatched` alone is not
inductive: `IInv` says that a sender between its awaits still has the current key
and nonce (`Current`), that an injection starts from what the chain has counted
(`InjectionFresh`), that `nonce_to_send` is beyond every watched nonce, also where
it is about to be fetched again (`Beyond`), that a nonce has one owner and the
chain nobody else's transaction for it (`Owners`), that what was handed over is
somewhere (`NotLost`), and, with one key and no lost response, in one place only
(`OnePlace`). The steps of the sender fall into five moves, those of the resender
into letting an entry go or keeping it; the lemmas are about the moves.

**Scallop.** `PeersAreAuthenticated` needs where the two peers of a handshake can be
relative to each other and which message is on its way (`Handshake`, `Shape`), and
that an attestation on its way is its sender's (`Attested`). For the stream, `Rest`
is what the reader has yet to read: the pieces on the wire, then those in `wbuf`.
`Linked` says that any two pieces of it are as far apart as their places in their
records are; stated between any two and not only neighbours, it needs no induction
over the sequence. `LengthState`, `BodyState` and `ReadState` connect the first of
them to what `rbuf` and the three modes of `poll_read` hold, `Complete` the last
one to what was accepted.

**Tcp proxy.** `Flow` numbers the pieces of a direction from the receiver back to the
sender, over three hops and the header in between (`Ahead`). A reset hop or a relay
that failed leaves a gap, behind which nothing more arrives; `Clear` says up to
which hop nothing is missing, and `Flow` speaks only of what lies before the gap.
`HeaderRead` has the two reversals of the byte order cancel, so the destination
connected to is the client's. `Ending` says that an end mark has followed all the
data of its direction on every hop unless a transfer failed.

**Raw proxies.** The pieces between the nfqueue and the IP socket are two lines:
what the receiver has read followed by what is on its connection and, if the sender
has the same one, in the sender's hand (`Reading`), and the same for the connection
that waits to be accepted (`Waiting`). `Row` says of a line that its packets are in
order and whole, each piece as far from the first of its packet as its number says,
except where the line ends; stated between any two positions, like `Linked` below,
it needs no induction. A reset cuts a line (`RowCut`), a write extends it by the
next pieces of the packet in hand (`RowGrows`), a packet that has been read leaves
it at the front (`RowPops`). `OrderInv` puts what went out, the two lines, the hand
and the queue in one order; `DeadInv` says that what a dead connection still holds
has been exposed to a fault, so the receiver may drop it. That the masks block what
the comments say is arithmetic, octet by octet (`Masked`).

**Network.** The layers are proved about by themselves (`ScallopSpec`, `TcpSpec`,
`RawSpec`). A step of `Networking` is a step of one layer and leaves the others'
variables alone (`LayersAlone`), so it inherits all four properties
(`NetworkIsSafe`).

Every invariant and every step property that a passing run checks is stated by one
of these theorems. Only model-checked: the liveness properties (`TornDown`,
`EventuallyServing`, `TerminationCompletes`, `EventuallyRuns`, `AllSpawned`,
`CatchesUp`, `TakenUnlessOvertaken`, `AnsweredOrTimedOut`, `CgroupReturned`,
`Unblocked`, `Forwarded`, `HalfCloses`, `Delivered`), which rest on fairness and are
out of TLAPS' reach, and that `Masked` is `&` (`MaskedIsAnd`).

## 6. What is assumed of the outside

- The market contract emits a job's logs consistently (`MayEmit`).
- EC2: a launched instance is visible to the next `describe_instances`; a
  terminated one loses its addresses; an instance may stop or die at any time.
- nitro-cli runs an enclave only when the allocator has been configured and none
  is running.
- The RPC node answers `eth_getLogs` up to the block number it has reported, and
  pushes a subscription's logs in chain order.
- The executor's node replays a subscription from its `from_block`. One that
  starts at the head instead loses the logs between two connections.
- The Jobs contract assigns an executor no more jobs than the capacity it
  registered with, and a response is mined in a later block than its job.
- A process that has been sent SIGKILL answers no request.
- The node mines the nonces of a key in order, takes a replacement of a pending
  transaction, and reports the count of the mined ones.
- A raw IP socket takes a packet whole or not at all, the payload of an nfqueue
  message is one packet of the length its header names, and a vsock listener has
  one connection waiting at most.
- A TCP or vsock stream delivers a prefix of what was written, then its end or an
  error; one that is dropped with unread data is reset.
- A noise message decrypts exactly when it arrives whole and in order.

## 7. Deviations found

With a run:

- `txn_sender_overlap`: the sender reads `nonce_to_send`, awaits the node and
  increments it, each under a lock of its own. A gas key that is injected in between
  (node_handler.rs 117-124), or the sender of a session that a reconnection has
  left behind (event_handler.rs 158-187), changes it under the sender's hands; a
  transaction is then sent with a nonce that is not the next one of its signer, and
  waits for one that nobody watches. The comment at event_handler.rs 291 says
  "nonce is corresponding to the current signer". Injecting a key that still has
  pending transactions has the same effect.

With a property that states what the code says or its tests assert and that does
not hold. To see the trace, add the property to the configuration named:

- `JobManager!ExitLeavesNoInstance` (INVARIANT, `JobManagerSafety.cfg`): a refused
  `JobMetadataUpdated` calls `schedule_termination` and returns -2 (market.rs 1156
  and the five other returns of the arm). The caller leaves at once, the instance
  runs on unmanaged. The tests assert an empty provider after each job, market.rs
  1454, but refuse only before the launch delay has passed.
- `AwsInfra!SettledHasAddress` (INVARIANT, `AwsInfra.cfg`): an attempt cut off
  between `run_instances` and `associate_address` leaves an instance without
  elastic IP, which the next attempt takes for healthy (market.rs 716).
- `EnclaveImage!HeartbeatPicksUp` (PROPERTY, `EnclaveImage.cfg`): after a
  `run_enclave` that failed before the allocator was configured, a metadata update
  fails every 2 s for ever and keeps the heartbeat from running, which market.rs
  791 relies on.

Met while modelling, without a run:

- market.rs 857 says that "jobs should be killed fully if any individual event would
  kill it regardless of future events"; a metadata update schedules a launch again.
  `KillNeedsMetadata` and `TerminationSticks` state the exception.
- market.rs 1282: the heartbeat branch comes before the infra change in the biased
  `select!` and does not look at `infra_change_scheduled`. If a task is polled so
  late that both sleeps have elapsed, and the instance is down, `heartbeat_check`
  (657) schedules a launch over a termination, of a closed job too, which is then
  served until the session is restarted or the balance it counts runs out. The same
  two properties and `TornDown` state the exception.
- market.rs 1282-1300: one task serves the insolvency timer, the heartbeat's ssh
  calls and `change_infra`, with the 100 s sleep of aws.rs 1401. A job is terminated
  late by as long as one of them takes; the margin of 300 s covers that much
  (`PaidFor`).
- aws.rs 1087: only `reservations[0]` is read (`LiveListedFirst`).
- market.rs 796: a job whose instance died by itself ends without `spin_down`,
  so its elastic IP stays allocated (mode `gone` in `AwsInfra`).
- aws.rs 1485: a failed curl in an update leaves the old file, and the new url
  is stored for it, although aws.rs 360 calls it "store eif_url only when the
  image is allowed". `RunsOnlyAllowed` still holds.
- aws.rs 1478: `image_url.txt` ends with a newline, so "Must be the same" is
  never reached; an update starts the enclave without `--debug-mode`.
- market.rs 337: the `removed` flag of a log is ignored, so a reorg spawns a
  second task for a job that is mined again; `SpawnedIsPrefix` and `AllSpawned`
  are stated for a chain that takes nothing back.
- indexer lib.rs 73: `--start-block 0` stores -1, which becomes `u64::MAX`, and
  the loop exits with "rpc is behind the db" until the sync row is repaired;
  `CatchesUp` is stated for start block 1.
- event_handler.rs 346: `last_block_seen` is shared by the streams, so a
  `JobResponded` of a later block that is served first makes an unseen
  `JobCreated` stale, and the job is not executed. `TakenUnlessOvertaken` states
  the exception.
- node_handler.rs 208: an export call fetches the block number before it takes the
  lock on `events_listener_active`. Meanwhile another call may start a listener,
  which serves jobs until the executor deregisters; the first call then starts one
  from its stale number, `last_block_seen` goes back, and a completed job whose log
  is replayed is started again (`rewound` in `NotRestarted`).
- event_handler.rs 97: a reconnection repeats the logs of the last block seen, so
  a job may be executed twice; its second task competes for a cgroup
  (`ReserveSucceeds` has the condition).
- job_handler.rs 201: a worker that lives but does not listen keeps its task, its
  cgroup and a runtime thread beyond the user deadline (`blocked`).
- job_handler.rs 96 adds seconds and milliseconds and may underflow after such a
  block.
- job_handler.rs 187: children are killed but never waited for.
- job_opened.rs 47 inserts jobs of providers it does not know.
- scallop.rs 597: the server reads CLIENTFIN into 1024 bytes, so a client whose
  attestation is larger, which the client's own limit of 60000 allows, makes the
  server's handshake panic (`Compatible`).
- scallop.rs 717: a connection that ends in the middle of a record looks like a
  clean end, and so does an empty write, which becomes an empty record
  (`Faithful` and `Delivered` name both); data that was written but not flushed
  stays in `wbuf`.
- vsock_to_ip_raw_outgoing.rs 185: a failed `send_to` is reported as an
  `NfqError`, which `main` does not expect (229, "should never happen!"): the
  process panics and its supervisor has to restart it (`RestartReceiver`).
- ip_to_vsock_raw_incoming.rs 105 and ip_to_vsock_raw_outgoing.rs 102: after an
  `NfqError` a new queue is bound (lib.rs 98-111) while the variable still holds the
  old one, with the same number; the bind is refused as long as the old queue is
  there, the backoff has no end, and no packet of that queue passes any more, although
  the comment above the loop says "on errors, simply reset the erroring socket".
  `Forwarded` states the exception.
- ip_to_vsock_raw_incoming.rs 107: a packet in hand when the connection fails is
  dropped without a verdict.
- tcp-proxy: a relay that fails drops both sockets, so the far end may see an
  orderly end of a stream that was cut (`StreamsFaithful` names it); a connection of
  which one direction never ends stays half open for ever; a failed `accept` ends
  the whole process.

## 8. Not modelled

The key pair that the AWS provider creates at start-up; the HTTP server, whose `GET
/ip` only reads, in two calls between which the address may move, and says nothing
of how long its reply holds; the files of a serverless job, which carry a random
name; gas amounts; checksums of forwarded packets; logging and formatting; argument
parsing; the components marked `not_modelled` in PROJECT.json, which are one-shot
commands, stateless handlers, verification of a single document, or build recipes.
Reorgs of indexed blocks: the indexer does not handle them, and the model's chain
takes no block back.
