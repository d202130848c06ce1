--------------------------- MODULE EventsListener ---------------------------
(***************************************************************************)
(* serverless/executor: the endpoints of node_handler.rs that start the    *)
(* listener, events_listener and handle_event_logs of event_handler.rs,    *)
(* and the handle_timeout tasks they spawn.                                *)
(*                                                                         *)
(* The three subscriptions are served in any order.  What orders them, and *)
(* what guards against a log coming twice, is last_block_seen.  A log that *)
(* is taken spawns tasks that run on their own: those of handle_job are    *)
(* only counted here, JobExecution has their steps.                        *)
(***************************************************************************)
EXTENDS Naturals, Sequences, FiniteSets

CONSTANTS
  JobIds, NoJob,    \* job ids
  NumSelected,    \* num_selected_executors
  MaxEvents,      \* bound: logs of the contracts
  MaxExports,     \* bound: calls of export_signed_registration_message
  MaxDrops        \* bound: lost connections

ASSUME ListenerAssumption ==
  /\ NoJob \notin JobIds
  /\ NumSelected \in Nat \ {0}
  /\ MaxEvents \in Nat /\ MaxExports \in Nat /\ MaxDrops \in Nat

VARIABLES
  events,      \* logs of the Jobs and Executors contracts, in chain order
  calls,       \* export calls that have the number of the newest block: [id, head]
  configured,  \* config parameters that have been injected
  active,      \* events_listener_active
  registered,  \* enclave_registered
  phase,       \* where events_listener is
  from,        \* its starting_block
  last_block,  \* last_block_seen
  pos,         \* per subscription, the log it has got to (0 without one)
  running,     \* job_requests_running
  completed,   \* history: jobs whose last output has been seen
  spawned,     \* handle_job tasks spawned, per job
  sleeping,    \* handle_timeout tasks before their check, per job
  sending,     \* handle_timeout tasks after their check, per job
  timeouts,    \* jobs with a TIMEOUT transaction in the channel
  rewound,     \* history: a listener has started from before last_block_seen
  exports,     \* export calls so far
  drops        \* connections lost so far

ownerVars    == <<configured, calls, rewound, exports>>
loopVars     == <<active, registered, phase, from, last_block, pos>>
jobVars      == <<running, completed, spawned, sleeping, sending, timeouts>>
listenerVars == <<events, ownerVars, loopVars, jobVars, drops>>

-----------------------------------------------------------------------------
(* The contracts                                                           *)

JobStreams == {"JobCreated", "JobResponded", "ExecutorDeregistered"}
Streams    == JobStreams \cup {"ExecutorRegistered"}

\* count: the output count of a JobResponded log.
Event == [kind : Streams, job : JobIds \cup {NoJob}, block : Nat,
          selected : BOOLEAN, count : Nat]

Block == IF events = <<>> THEN 1 ELSE events[Len(events)].block

Of(kind, j)    == {k \in 1..Len(events) : events[k].kind = kind /\ events[k].job = j}
Responses(j)   == Cardinality(Of("JobResponded", j))
SelectedFor(j) == \E k \in Of("JobCreated", j) : events[k].selected

OnChain == Cardinality(Of("ExecutorRegistered", NoJob))
             > Cardinality(Of("ExecutorDeregistered", NoJob))

\* A log is in the newest block or in a new one.
Emit(kind, j, b, sel, n) ==
  /\ Len(events) < MaxEvents
  /\ b \in {Block, Block + 1}
  /\ events' = Append(events, [kind |-> kind, job |-> j, block |-> b,
                               selected |-> sel, count |-> n])
  /\ UNCHANGED <<ownerVars, loopVars, jobVars, drops>>

\* The owner registers with the message of a listening enclave.
Register(b) ==
  active /\ ~OnChain /\ Emit("ExecutorRegistered", NoJob, b, FALSE, 0)

Deregister(b) ==
  OnChain /\ Emit("ExecutorDeregistered", NoJob, b, FALSE, 0)

CreateJob(j, b, sel) ==
  /\ Of("JobCreated", j) = {} /\ (sel => OnChain)
  /\ Emit("JobCreated", j, b, sel, 0)

\* An output is accepted, of another executor or of this one once it has the
\* job.  It takes the log of the job to make one: the block is a later one.
Respond(j, b) ==
  /\ \E k \in Of("JobCreated", j) : events[k].block < b
  /\ Responses(j) < IF SelectedFor(j) /\ spawned[j] = 0 THEN NumSelected - 1
                    ELSE NumSelected
  /\ Emit("JobResponded", j, b, FALSE, Responses(j) + 1)

-----------------------------------------------------------------------------
ListenerTypeOK ==
  /\ events \in Seq(Event)
  /\ configured \subseteq {"immutable", "mutable"}
  /\ calls \subseteq [id : 1..MaxExports, head : Nat] /\ rewound \in BOOLEAN
  /\ active \in BOOLEAN /\ registered \in BOOLEAN
  /\ phase \in Streams \cup {"off", "connect", "listen", "leaving"}
  /\ from \in Nat /\ last_block \in 0..Block
  /\ pos \in [Streams -> 0..Len(events)]
  /\ running \subseteq JobIds /\ completed \subseteq JobIds /\ timeouts \subseteq JobIds
  /\ spawned \in [JobIds -> Nat]
  /\ sleeping \in [JobIds -> Nat] /\ sending \in [JobIds -> Nat]
  /\ exports \in 0..MaxExports /\ drops \in 0..MaxDrops
  /\ active <=> phase # "off"

ListenerInit ==
  /\ events = <<>> /\ configured = {} /\ calls = {} /\ rewound = FALSE
  /\ active = FALSE /\ registered = FALSE
  /\ phase = "off" /\ from = 0 /\ last_block = 0
  /\ pos = [s \in Streams |-> 0]
  /\ running = {} /\ completed = {} /\ timeouts = {}
  /\ spawned = [j \in JobIds |-> 0]
  /\ sleeping = [j \in JobIds |-> 0] /\ sending = [j \in JobIds |-> 0]
  /\ exports = 0 /\ drops = 0

-----------------------------------------------------------------------------
(* The endpoints                                                           *)

\* inject_immutable_config works once; repeating inject_mutable_config leaves
\* the state of this module as it is.
Configure(c) ==
  /\ c \notin configured
  /\ configured' = configured \cup {c}
  /\ UNCHANGED <<events, calls, rewound, exports, loopVars, jobVars, drops>>

\* export_signed_registration_message has the answer of get_block_number, which
\* it awaits before it takes the lock of events_listener_active.
FetchHead ==
  /\ configured = {"immutable", "mutable"}
  /\ exports < MaxExports /\ exports' = exports + 1
  /\ calls' = calls \cup {[id |-> exports', head |-> Block]}
  /\ UNCHANGED <<events, configured, rewound, loopVars, jobVars, drops>>

\* It starts the listener from that block, one at a time.
Export ==
  \E c \in calls :
    /\ calls' = calls \ {c}
    /\ \/ active /\ UNCHANGED <<loopVars, rewound>>
       \/ /\ ~active /\ active' = TRUE
          /\ phase' = "connect" /\ from' = c.head
          /\ rewound' = (rewound \/ c.head < last_block)
          /\ UNCHANGED <<registered, last_block, pos>>
    /\ UNCHANGED <<events, configured, exports, jobVars, drops>>

-----------------------------------------------------------------------------
(* events_listener                                                         *)

\* A subscription with from_block(b) starts with the first log of block b.
StreamStart(b) == Cardinality({k \in 1..Len(events) : events[k].block < b})

\* The next log of a subscription.
IsNext(k, s) ==
  /\ k \in (pos[s] + 1)..Len(events) /\ events[k].kind = s
  /\ \A m \in (pos[s] + 1)..(k - 1) : events[m].kind # s

ListenOnly == UNCHANGED <<events, ownerVars, from, drops>>

Connect ==
  /\ phase = "connect"
  /\ \/ registered /\ phase' = "JobCreated" /\ UNCHANGED pos
     \/ /\ ~registered /\ phase' = "ExecutorRegistered"
        /\ pos' = [pos EXCEPT ![phase'] = StreamStart(from)]
  /\ ListenOnly /\ UNCHANGED <<active, registered, last_block, jobVars>>

TakeRegistered ==
  /\ phase = "ExecutorRegistered"
  /\ \E k \in 1..Len(events) :
       IsNext(k, phase) /\ last_block' = events[k].block
  /\ pos' = [pos EXCEPT ![phase] = 0]
  /\ registered' = TRUE /\ phase' = "JobCreated"
  /\ ListenOnly /\ UNCHANGED <<active, jobVars>>

\* The three subscriptions are made one after the other.
Subscribe ==
  /\ phase \in JobStreams
  /\ pos' = [pos EXCEPT ![phase] = StreamStart(last_block)]
  /\ phase' = CASE phase = "JobCreated" -> "JobResponded"
                [] phase = "JobResponded" -> "ExecutorDeregistered"
                [] phase = "ExecutorDeregistered" -> "listen"
  /\ ListenOnly /\ UNCHANGED <<active, registered, last_block, jobVars>>

\* A call fails or the connection is lost; the loop starts again.
Drop ==
  /\ phase \in Streams \cup {"listen"} /\ drops < MaxDrops
  /\ drops' = drops + 1 /\ phase' = "connect" /\ pos' = [s \in Streams |-> 0]
  /\ UNCHANGED <<events, ownerVars, active, registered, from, last_block, jobVars>>

\* The select! of handle_event_logs takes the next log of any stream.
Take(k, s) ==
  /\ phase = "listen" /\ IsNext(k, s)
  /\ pos' = [pos EXCEPT ![s] = k]
  /\ ListenOnly

\* Faulty variant: a log of the last block seen counts as stale.
Stale_Equal(k) == events[k].block <= last_block

\* Faulty variant: no log is ever stale.
Stale_Never(k) == FALSE

Stale(k) == events[k].block < last_block

\* A log of a block below last_block_seen is skipped.
Skip(s) ==
  /\ \E k \in 1..Len(events) : Take(k, s) /\ Stale(k)
  /\ UNCHANGED <<active, registered, phase, last_block, jobVars>>

\* It is not skipped, and its block is the last one seen.
Accept(k) == ~Stale(k) /\ last_block' = events[k].block

TakeCreated ==
  /\ \E k \in 1..Len(events) :
       LET j == events[k].job
       IN  /\ Take(k, "JobCreated") /\ Accept(k)
           /\ running' = running \cup {j}
           /\ sleeping' = [sleeping EXCEPT ![j] = @ + 1]
           /\ spawned' = IF events[k].selected
                         THEN [spawned EXCEPT ![j] = @ + 1] ELSE spawned
  /\ UNCHANGED <<active, registered, phase, completed, sending, timeouts>>

\* Faulty variant: the first output completes the job.
TakeResponded_FirstOutput ==
  /\ \E k \in 1..Len(events) :
       LET done == {events[k].job}
       IN  /\ Take(k, "JobResponded") /\ Accept(k)
           /\ running' = running \ done
           /\ completed' = completed \cup done
  /\ UNCHANGED <<active, registered, phase, spawned, sleeping, sending, timeouts>>

TakeResponded ==
  /\ \E k \in 1..Len(events) :
       LET done == IF events[k].count = NumSelected THEN {events[k].job} ELSE {}
       IN  /\ Take(k, "JobResponded") /\ Accept(k)
           /\ running' = running \ done
           /\ completed' = completed \cup done
  /\ UNCHANGED <<active, registered, phase, spawned, sleeping, sending, timeouts>>

TakeDeregistered ==
  /\ \E k \in 1..Len(events) : Take(k, "ExecutorDeregistered")
  /\ registered' = FALSE /\ phase' = "leaving"
  /\ UNCHANGED <<active, last_block, jobVars>>

\* events_listener returns.
Leave ==
  /\ phase = "leaving"
  /\ phase' = "off" /\ active' = FALSE /\ pos' = [s \in Streams |-> 0]
  /\ ListenOnly /\ UNCHANGED <<registered, last_block, jobVars>>

-----------------------------------------------------------------------------
(* handle_timeout                                                          *)

\* The sleep is over: is the job still running?
TimeoutCheck(j) ==
  /\ sleeping[j] > 0
  /\ sleeping' = [sleeping EXCEPT ![j] = @ - 1]
  /\ sending' = IF j \in running THEN [sending EXCEPT ![j] = @ + 1] ELSE sending
  /\ UNCHANGED <<events, ownerVars, loopVars, running, completed, spawned,
                 timeouts, drops>>

TimeoutSend(j) ==
  /\ sending[j] > 0
  /\ sending' = [sending EXCEPT ![j] = @ - 1]
  /\ timeouts' = timeouts \cup {j}
  /\ running' = running \ {j}
  /\ UNCHANGED <<events, ownerVars, loopVars, completed, spawned, sleeping, drops>>

-----------------------------------------------------------------------------
Contracts ==
  \E b \in {Block, Block + 1} :
    \/ Register(b) \/ Deregister(b)
    \/ \E j \in JobIds : Respond(j, b) \/ \E sel \in BOOLEAN : CreateJob(j, b, sel)

Owner    == FetchHead \/ Export \/ \E c \in {"immutable", "mutable"} : Configure(c)
Timer(j) == TimeoutCheck(j) \/ TimeoutSend(j)
Serve    == TakeCreated \/ Skip("JobCreated")

ListenerNext ==
  \/ Contracts \/ Owner \/ Drop
  \/ Connect \/ TakeRegistered \/ Subscribe \/ Leave
  \/ Serve \/ TakeResponded \/ Skip("JobResponded") \/ TakeDeregistered
  \/ \E j \in JobIds : Timer(j)

\* The loop goes on, timers fire, and select! does not starve a stream.
ListenerFairness ==
  /\ WF_listenerVars(Connect) /\ WF_listenerVars(TakeRegistered)
  /\ WF_listenerVars(Subscribe) /\ WF_listenerVars(Serve)
  /\ \A j \in JobIds : WF_listenerVars(Timer(j))

ListenerSpec == ListenerInit /\ [][ListenerNext]_listenerVars /\ ListenerFairness

-----------------------------------------------------------------------------
(* Properties                                                              *)

\* A job whose last output has been seen is not started again, although every
\* new subscription begins with logs that were taken before; until an export
\* call has started the listener with a block number that is older than
\* last_block_seen, which takes a call that was already under way when the
\* listener before it was registered.
NotRestarted ==
  [][~rewound => (running' \ running) \cap completed = {}]_listenerVars

\* A JobCreated log that a subscription has still to deliver is taken, unless a
\* log of a later block has overtaken it on another stream.
TakenUnlessOvertaken ==
  \A j \in JobIds :
    phase = "listen" /\ (\E k \in Of("JobCreated", j) : k > pos["JobCreated"])
    ~> \/ j \in running
       \/ \E k \in Of("JobCreated", j) : last_block > events[k].block
       \/ ~registered

\* A job that is marked as running is answered by all selected executors, or a
\* TIMEOUT is sent for it.
AnsweredOrTimedOut ==
  \A j \in JobIds :
    j \in running ~> j \in timeouts \/ Responses(j) = NumSelected
=============================================================================
