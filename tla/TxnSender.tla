----------------------------- MODULE TxnSender -----------------------------
(***************************************************************************)
(* How the serverless executor gets its job transactions mined             *)
(* (serverless/executor/src/event_handler.rs, utils.rs, node_handler.rs).  *)
(* Every subscription session of events_listener starts a sender           *)
(* (send_execution_output) that takes transactions off a channel, gives    *)
(* each the next nonce of the gas key and records it as pending, and a     *)
(* resender (resend_pending_transaction) that watches the pending ones in  *)
(* order, replaces the one that is not mined, and fills its nonce with a   *)
(* dummy transfer once its deadline has passed.  The sessions share the    *)
(* gas key (http_rpc_client) and nonce_to_send with each other and with    *)
(* the mutable-config endpoint, which replaces both.                       *)
(*                                                                         *)
(* The chain is external: per key a ledger of mined transactions and a     *)
(* pool with at most one transaction per nonce.                            *)
(***************************************************************************)
EXTENDS Naturals, Sequences, SequencesExt, FiniteSets

CONSTANTS
    MaxTxns,        \* how many job transactions (outputs and timeouts) are handed over
    Keys,           \* the gas keys that may be injected
    Sessions,       \* the subscription sessions, in the order they start
    MaxFaults,      \* how many disturbances (see Faults) a behaviour has
    Overlap         \* whether a send may overlap a key injection or another send

ASSUME SessionsAssumption == Sessions \subseteq Nat \ {0} /\ 1 \in Sessions
ASSUME OverlapAssumption == Overlap \in BOOLEAN
ASSUME KeysAssumption == Keys # {}
ASSUME BoundsAssumption == {MaxTxns, MaxFaults} \subseteq Nat

Txns == 1..MaxTxns

\* what a nonce holds when the resender has filled it with a transfer to itself
Dummy == 0
NoTxn == 0
NoKey == "no key"

VARIABLES
    key,            \* the key of app_state.http_rpc_client
    nonce_to_send,  \* app_state.nonce_to_send
    queue,          \* per session, the channel of transactions to send
    sender,         \* per session, where send_execution_output stands
    pending,        \* per session, the deque pending_txns
    resender,       \* per session, where resend_pending_transaction stands
    injector,       \* where inject_mutable_config stands
    registered,     \* app_state.enclave_registered
    live,           \* the sessions that have started
    \* the chain
    mined,          \* per key, the mined transactions, nonce 0 first
    pool,           \* the transactions waiting to be mined
    expired,        \* the transactions whose retry_deadline has passed
    \* observation
    submitted,      \* how many transactions have been handed to a channel
    refused,        \* the transactions given up because the chain would not execute them
    lost,           \* responses lost so far
    dropped,        \* transactions dropped from the pool so far
    injected        \* keys injected so far

sessionVars == <<queue, sender, pending, resender>>
chainVars == <<mined, pool>>
vars == <<key, nonce_to_send, queue, sender, pending, resender, injector, registered, live,
          mined, pool, expired, submitted, refused, lost, dropped, injected>>

Idle == [pc |-> "recv", txn |-> NoTxn, key |-> NoKey, nonce |-> 0, update_nonce |-> FALSE]
NoEntry == [txn |-> NoTxn, key |-> NoKey, nonce |-> 0]
Watching == [pc |-> "pop", entry |-> NoEntry]

Init ==
    /\ key = CHOOSE k \in Keys : TRUE      \* any one: a key is injected before the first session
    /\ nonce_to_send = 0
    /\ queue = [s \in Sessions |-> <<>>]
    /\ sender = [s \in Sessions |-> Idle]
    /\ pending = [s \in Sessions |-> <<>>]
    /\ resender = [s \in Sessions |-> Watching]
    /\ injector = [pc |-> "idle", key |-> NoKey, nonce |-> 0]
    /\ registered = TRUE
    /\ live = {1}
    /\ mined = [k \in Keys |-> <<>>]
    /\ pool = {}
    /\ expired = {}
    /\ submitted = 0
    /\ refused = {}
    /\ lost = 0 /\ dropped = 0 /\ injected = 0

-----------------------------------------------------------------------------
(* The chain, as the rpc shows it. *)

\* lost responses, transactions the pool dropped, injected keys and lost connections
Faults == lost + dropped + injected + Cardinality(live) - 1

InPool(k, n) == {r \in pool : r.key = k /\ r.nonce = n}
Count(k) == Len(mined[k])       \* get_transaction_count at the latest block
Entry(t, k, n) == [txn |-> t, key |-> k, nonce |-> n]

\* A transaction enters the pool, in the place of the one its nonce held.
Accepted(t, k, n) == pool' = (pool \ InPool(k, n)) \cup {Entry(t, k, n)}

Mine(k) ==
    \E r \in InPool(k, Count(k)) :
        /\ mined' = [mined EXCEPT ![k] = Append(@, r.txn)]
        /\ pool' = pool \ {r}
        /\ UNCHANGED <<key, nonce_to_send, sessionVars, injector, registered, live, expired,
                       submitted, refused, lost, dropped, injected>>

DropFromPool ==
    /\ Faults < MaxFaults
    /\ \E r \in pool : pool' = pool \ {r}
    /\ dropped' = dropped + 1
    /\ UNCHANGED <<key, nonce_to_send, sessionVars, injector, registered, live, mined, expired,
                   submitted, refused, lost, injected>>

\* What a session watches: its pending list and the entry in the resender's hand.
Held(s) == ToSet(pending[s]) \cup (IF resender[s].pc \in {"pop", "stopped"} THEN {} ELSE {resender[s].entry})

\* The transaction is somewhere in a session's hands.
InHand(t) ==
    \E s \in live : \/ t \in ToSet(queue[s])
                    \/ sender[s].txn = t
                    \/ \E e \in Held(s) : e.txn = t

\* The retry_deadline of a transaction passes; that of one nobody holds does not matter.
Expire(t) ==
    /\ t \notin expired
    /\ InHand(t)
    /\ expired' = expired \cup {t}
    /\ UNCHANGED <<key, nonce_to_send, sessionVars, injector, registered, live, chainVars,
                   submitted, refused, lost, dropped, injected>>

-----------------------------------------------------------------------------
(* The sessions. *)

\* A job handler or a job timeout hands its transaction to its session's channel.
Submit(s) ==
    /\ s \in live
    /\ submitted < MaxTxns
    /\ submitted' = submitted + 1
    /\ queue' = [queue EXCEPT ![s] = Append(@, submitted + 1)]
    /\ UNCHANGED <<key, nonce_to_send, sender, pending, resender, injector, registered, live,
                   chainVars, expired, refused, lost, dropped, injected>>

\* The websocket is lost and events_listener subscribes again: a new channel, pending
\* list, sender and resender.  Those of the old session live on.
Reconnect ==
    /\ registered
    /\ Faults < MaxFaults
    /\ \E s \in Sessions \ live :
          /\ s - 1 \in live
          /\ live' = live \cup {s}
    /\ UNCHANGED <<key, nonce_to_send, sessionVars, injector, registered, chainVars, expired,
                   submitted, refused, lost, dropped, injected>>

Deregister ==
    /\ registered
    /\ registered' = FALSE
    /\ UNCHANGED <<key, nonce_to_send, sessionVars, injector, live, chainVars, expired,
                   submitted, refused, lost, dropped, injected>>

-----------------------------------------------------------------------------
(* send_execution_output. *)

SenderTo(s, st) == sender' = [sender EXCEPT ![s] = st]
Loop(s) == [sender[s] EXCEPT !.pc = "loop", !.key = NoKey, !.nonce = 0]
UnchangedBySender ==
    UNCHANGED <<key, resender, injector, registered, live, mined, expired, submitted, dropped, injected>>

\* The next transaction is taken off the channel and estimate_gas_and_price asked for its
\* gas: an estimate before the deadline, or None, when the deadline has passed or the call
\* would fail or need too much gas, and the transaction is skipped.
Receive(s) ==
    LET t == Head(queue[s]) IN
    /\ sender[s].pc = "recv"
    /\ queue[s] # <<>>
    /\ queue' = [queue EXCEPT ![s] = Tail(@)]
    /\ \/ /\ t \notin expired
          /\ SenderTo(s, [Idle EXCEPT !.pc = "loop", !.txn = t])
          /\ UNCHANGED refused
       \/ /\ SenderTo(s, Idle)
          /\ refused' = refused \cup {t}
    /\ UnchangedBySender
    /\ UNCHANGED <<nonce_to_send, pending, pool, lost>>

\* The head of the retry loop: leave it after the deadline, else clone the client.
ReadClient(s) ==
    /\ sender[s].pc = "loop"
    /\ IF sender[s].txn \in expired
       THEN SenderTo(s, Idle)
       ELSE SenderTo(s, [sender[s] EXCEPT !.key = key,
                                          !.pc = IF sender[s].update_nonce THEN "count" ELSE "nonce"])
    /\ UnchangedBySender
    /\ UNCHANGED <<nonce_to_send, queue, pending, pool, refused, lost>>

\* The nonce is fetched from the network, or the call fails and the loop starts again.
UpdateNonce(s) ==
    /\ sender[s].pc = "count"
    /\ \/ /\ nonce_to_send' = Count(sender[s].key)
          /\ SenderTo(s, [sender[s] EXCEPT !.pc = "nonce", !.update_nonce = FALSE])
       \/ /\ SenderTo(s, Loop(s))
          /\ UNCHANGED nonce_to_send
    /\ UnchangedBySender
    /\ UNCHANGED <<queue, pending, pool, refused, lost>>

ReadNonce(s) ==
    /\ sender[s].pc = "nonce"
    /\ SenderTo(s, [sender[s] EXCEPT !.pc = "send", !.nonce = nonce_to_send])
    /\ UnchangedBySender
    /\ UNCHANGED <<nonce_to_send, queue, pending, pool, refused, lost>>

\* send_transaction succeeds.
SendOk(s) ==
    /\ sender[s].pc = "send"
    /\ sender[s].nonce >= Count(sender[s].key)
    /\ Accepted(sender[s].txn, sender[s].key, sender[s].nonce)
    /\ SenderTo(s, [sender[s] EXCEPT !.pc = "sent"])
    /\ UnchangedBySender
    /\ UNCHANGED <<nonce_to_send, queue, pending, refused, lost>>

\* send_transaction fails; what parse_send_error makes of the error decides what follows.
SendErr(s) ==
    /\ sender[s].pc = "send"
    /\ \/ \* NonceTooLow
          /\ sender[s].nonce < Count(sender[s].key)
          /\ SenderTo(s, [Loop(s) EXCEPT !.update_nonce = TRUE])
          /\ UNCHANGED <<pool, refused, lost>>
       \/ \* OutOfGas, GasPriceLow, NonceTooHigh, NetworkConnectivity, OtherRetryable
          /\ SenderTo(s, Loop(s))
          /\ UNCHANGED <<pool, refused, lost>>
       \/ \* the transaction was accepted and only the response is lost
          /\ Faults < MaxFaults
          /\ sender[s].nonce >= Count(sender[s].key)
          /\ lost' = lost + 1
          /\ Accepted(sender[s].txn, sender[s].key, sender[s].nonce)
          /\ SenderTo(s, Loop(s))
          /\ UNCHANGED refused
       \/ \* GasTooHigh, ContractExecution
          /\ SenderTo(s, Idle)
          /\ refused' = refused \cup {sender[s].txn}
          /\ UNCHANGED <<pool, lost>>
    /\ UnchangedBySender
    /\ UNCHANGED <<nonce_to_send, queue, pending>>

\* The transaction is put on the pending list and the shared nonce incremented.
Record(s) ==
    /\ sender[s].pc = "sent"
    /\ pending' = [pending EXCEPT ![s] =
                      Append(@, Entry(sender[s].txn, sender[s].key, sender[s].nonce))]
    /\ nonce_to_send' = nonce_to_send + 1
    /\ SenderTo(s, Idle)
    /\ UnchangedBySender
    /\ UNCHANGED <<queue, pool, refused, lost>>

-----------------------------------------------------------------------------
(* resend_pending_transaction. *)

ResenderTo(s, pc) ==
    resender' = [resender EXCEPT ![s] =
                    IF pc = "pop" THEN Watching ELSE [resender[s] EXCEPT !.pc = pc]]
UnchangedByResender ==
    UNCHANGED <<key, nonce_to_send, sender, injector, registered, live, mined, expired,
                submitted, dropped, injected>>

\* The front of the deque is taken and, after the interval, the receipt of the version last
\* sent asked for.  It is there when that version is mined; it is not when none is, when
\* another version is, or when the calls fail.
Pop(s) ==
    LET e == Head(pending[s]) IN
    /\ resender[s].pc = "pop"
    /\ pending[s] # <<>>
    /\ pending' = [pending EXCEPT ![s] = Tail(@)]
    /\ \/ /\ Count(e.key) > e.nonce
          /\ mined[e.key][e.nonce + 1] = e.txn
          /\ UNCHANGED resender
       \/ resender' = [resender EXCEPT ![s] = [pc |-> "resend", entry |-> e]]
    /\ UnchangedByResender
    /\ UNCHANGED <<queue, pool, refused, lost>>

\* The deque is found empty after a deregistration and the task ends.
Stop(s) ==
    /\ resender[s].pc = "pop"
    /\ pending[s] = <<>>
    /\ ~registered
    /\ s \in live
    /\ ResenderTo(s, "stopped")
    /\ UnchangedByResender
    /\ UNCHANGED <<queue, pending, pool, refused, lost>>

\* Mutant: a transaction of the old gas key is not handed to the sender again.
Resend_DropsOldKey(s) ==
    LET e == resender[s].entry IN
    /\ resender[s].pc = "resend"
    /\ ResenderTo(s, CASE e.txn \in expired -> "dummy" [] key # e.key -> "pop" [] OTHER -> "resending")
    /\ UnchangedByResender
    /\ UNCHANGED <<queue, pending, pool, refused, lost>>

\* Mutant: the nonce of an expired transaction is not filled.
Resend_NoDummy(s) ==
    LET e == resender[s].entry IN
    /\ resender[s].pc = "resend"
    /\ IF e.txn \notin expired /\ key # e.key
       THEN queue' = [queue EXCEPT ![s] = Append(@, e.txn)] /\ ResenderTo(s, "pop")
       ELSE ResenderTo(s, IF e.txn \in expired THEN "pop" ELSE "resending") /\ UNCHANGED queue
    /\ UnchangedByResender
    /\ UNCHANGED <<pending, pool, refused, lost>>

\* The head of the resend loop: the deadline has passed, the gas key is another one and
\* the transaction goes back to the sender, or a replacement is sent.
Resend(s) ==
    LET e == resender[s].entry IN
    /\ resender[s].pc = "resend"
    /\ CASE e.txn \in expired -> ResenderTo(s, "dummy") /\ UNCHANGED queue
         [] e.txn \notin expired /\ key # e.key ->
                /\ queue' = [queue EXCEPT ![s] = Append(@, e.txn)]
                /\ ResenderTo(s, "pop")
         [] OTHER -> ResenderTo(s, "resending") /\ UNCHANGED queue
    /\ UnchangedByResender
    /\ UNCHANGED <<pending, pool, refused, lost>>

\* Mutant: the replacement is not put back on the deque.
ResendOk_Unwatched(s) ==
    LET e == resender[s].entry IN
    /\ resender[s].pc = "resending"
    /\ e.nonce >= Count(e.key)
    /\ Accepted(e.txn, e.key, e.nonce)
    /\ ResenderTo(s, "pop")
    /\ UnchangedByResender
    /\ UNCHANGED <<queue, pending, refused, lost>>

\* The replacement is accepted and watched from the front of the deque.
ResendOk(s) ==
    LET e == resender[s].entry IN
    /\ resender[s].pc = "resending"
    /\ e.nonce >= Count(e.key)
    /\ Accepted(e.txn, e.key, e.nonce)
    /\ pending' = [pending EXCEPT ![s] = <<e>> \o @]
    /\ ResenderTo(s, "pop")
    /\ UnchangedByResender
    /\ UNCHANGED <<queue, refused, lost>>

ResendErr(s) ==
    LET e == resender[s].entry IN
    /\ resender[s].pc = "resending"
    /\ \/ \* NonceTooLow: the nonce is mined
          /\ e.nonce < Count(e.key)
          /\ ResenderTo(s, "pop")
          /\ UNCHANGED <<pool, refused, lost>>
       \/ \* OutOfGas, GasPriceLow and the retryable ones
          /\ ResenderTo(s, "resend")
          /\ UNCHANGED <<pool, refused, lost>>
       \/ /\ Faults < MaxFaults
          /\ e.nonce >= Count(e.key)
          /\ lost' = lost + 1
          /\ Accepted(e.txn, e.key, e.nonce)
          /\ ResenderTo(s, "resend")
          /\ UNCHANGED refused
       \/ \* GasTooHigh, ContractExecution
          /\ ResenderTo(s, "dummy")
          /\ refused' = refused \cup {e.txn}
          /\ UNCHANGED <<pool, lost>>
    /\ UnchangedByResender
    /\ UNCHANGED <<queue, pending>>

\* The dummy loop: left when the gas key has changed, else a transfer to itself is sent.
DummyHead(s) ==
    LET e == resender[s].entry IN
    /\ resender[s].pc = "dummy"
    /\ ResenderTo(s, IF key # e.key THEN "pop" ELSE "filling")
    /\ UnchangedByResender
    /\ UNCHANGED <<queue, pending, pool, refused, lost>>

DummyOk(s) ==
    LET e == resender[s].entry IN
    /\ resender[s].pc = "filling"
    /\ e.nonce >= Count(e.key)
    /\ Accepted(Dummy, e.key, e.nonce)
    /\ ResenderTo(s, "confirm")
    /\ UnchangedByResender
    /\ UNCHANGED <<queue, pending, refused, lost>>

\* NonceTooLow: a transaction is mined for the nonce and there is nothing left to do.
DummyTooLow(s) ==
    LET e == resender[s].entry IN
    /\ resender[s].pc = "filling"
    /\ e.nonce < Count(e.key)
    /\ ResenderTo(s, "pop")
    /\ UnchangedByResender
    /\ UNCHANGED <<queue, pending, pool, refused, lost>>

\* Every other error is tried again, also one that only loses the response.
DummyErr(s) ==
    LET e == resender[s].entry IN
    /\ resender[s].pc = "filling"
    /\ ResenderTo(s, "dummy")
    /\ \/ UNCHANGED <<pool, lost>>
       \/ /\ Faults < MaxFaults
          /\ e.nonce >= Count(e.key)
          /\ lost' = lost + 1
          /\ Accepted(Dummy, e.key, e.nonce)
    /\ UnchangedByResender
    /\ UNCHANGED <<queue, pending, refused>>

\* The wait for one confirmation ends well, or without one and the loop goes on.
Confirm(s) ==
    LET e == resender[s].entry IN
    /\ resender[s].pc = "confirm"
    /\ \/ /\ Count(e.key) > e.nonce
          /\ mined[e.key][e.nonce + 1] = Dummy
          /\ ResenderTo(s, "pop")
       \/ ResenderTo(s, "dummy")
    /\ UnchangedByResender
    /\ UNCHANGED <<queue, pending, pool, refused, lost>>

-----------------------------------------------------------------------------
(* inject_mutable_config: the new key's nonce is fetched, then written to nonce_to_send, *)
(* then the client is replaced; each of the two has a lock of its own.                   *)

UnchangedByInjector ==
    UNCHANGED <<sessionVars, registered, live, chainVars, expired, submitted, refused, lost, dropped>>

InjectFetch(k) ==
    /\ injector.pc = "idle"
    /\ Faults < MaxFaults
    /\ injected' = injected + 1
    /\ injector' = [pc |-> "nonce", key |-> k, nonce |-> Count(k)]
    /\ UnchangedByInjector
    /\ UNCHANGED <<key, nonce_to_send>>

InjectNonce ==
    /\ injector.pc = "nonce"
    /\ nonce_to_send' = injector.nonce
    /\ injector' = [injector EXCEPT !.pc = "client"]
    /\ UnchangedByInjector
    /\ UNCHANGED <<key, injected>>

InjectClient ==
    /\ injector.pc = "client"
    /\ key' = injector.key
    /\ injector' = [pc |-> "idle", key |-> NoKey, nonce |-> 0]
    /\ UnchangedByInjector
    /\ UNCHANGED <<nonce_to_send, injected>>

-----------------------------------------------------------------------------

\* A sender that has cloned a client it has not finished with.
HasClient(s) == sender[s].pc \in {"count", "nonce", "send", "sent"}

\* Two users of nonce_to_send are in each other's way: a key injection and a send, two
\* sends, or the injection of a key with transactions that are not mined yet.
Overlapping ==
    \/ injector.pc = "client" /\ \E s \in Sessions : HasClient(s)
    \/ injector.pc = "client" /\ \E r \in pool \cup UNION {Held(s) : s \in live} : r.key = injector.key
    \/ \E s, u \in Sessions : s # u /\ sender[s].pc # "recv" /\ sender[u].pc # "recv"

SenderStep(s) ==
    \/ Receive(s) \/ ReadClient(s) \/ UpdateNonce(s) \/ ReadNonce(s)
    \/ SendOk(s) \/ SendErr(s) \/ Record(s)

ResenderStep(s) ==
    \/ Pop(s) \/ Stop(s) \/ Resend(s) \/ ResendOk(s) \/ ResendErr(s)
    \/ DummyHead(s) \/ DummyOk(s) \/ DummyTooLow(s) \/ DummyErr(s) \/ Confirm(s)

Next ==
    /\ \/ \E k \in Keys : Mine(k) \/ InjectFetch(k)
       \/ DropFromPool
       \/ \E t \in Txns : Expire(t)
       \/ Reconnect \/ Deregister
       \/ \E s \in Sessions : Submit(s) \/ SenderStep(s) \/ ResenderStep(s)
       \/ InjectNonce \/ InjectClient
    /\ Overlap \/ ~Overlapping'

(* The chain mines what it can, deadlines pass, the tasks and the handler run, and a call  *)
(* that is repeated for ever gets through in the end.                                     *)
Fairness ==
    /\ WF_vars(\E k \in Keys : Mine(k))
    /\ \A t \in Txns : WF_vars(Expire(t))
    /\ \A s \in Sessions :
          /\ WF_vars(SenderStep(s) /\ (Overlap \/ ~Overlapping'))
          /\ WF_vars(ResenderStep(s))
          /\ SF_vars(DummyOk(s) \/ DummyTooLow(s))
    /\ WF_vars(InjectClient)

Spec == Init /\ [][Next]_vars /\ Fairness

-----------------------------------------------------------------------------

\* The sessions, the injection and the chain keep their types, and the pool holds at most
\* one transaction for each nonce of a key.
TypeOK ==
    /\ key \in Keys
    /\ nonce_to_send \in Nat
    /\ \A s \in Sessions :
          /\ queue[s] \in Seq(Txns)
          /\ sender[s].pc \in {"recv", "loop", "count", "nonce", "send", "sent"}
          /\ pending[s] \in Seq([txn : Txns, key : Keys, nonce : Nat])
    /\ \A r, q \in pool : r.key = q.key /\ r.nonce = q.nonce => r = q

\* Somebody watches nonce n of key k.
Watched(k, n) == \E s \in live : \E e \in Held(s) : e.key = k /\ e.nonce = n

\* Every nonce of the gas key that is used and not mined is watched by a resender, so that
\* a transaction that is dropped or priced too low cannot block the ones behind it: the
\* entry is pushed before nonce_to_send grows, it goes back to the front of the deque with
\* every replacement, and it is let go only when the nonce is mined (event_handler.rs
\* 291-303, 549-564, 617-621, 642-651).  After a deregistration the resender may be gone.
NoncesWatched ==
    (registered /\ injector.pc # "client") =>
        \A n \in Count(key)..(nonce_to_send - 1) : Watched(key, n)

\* A transaction handed to a channel is mined, or still in somebody's hands, or its deadline
\* has passed, or the chain would not execute it - also when the gas key is replaced while
\* it is pending, which hands it back to the sender (event_handler.rs 584-598).  With one gas
\* key and no lost response it is mined at most once however often it is sent again, because
\* every replacement has the nonce of the original (event_handler.rs 600-605).
NeitherLostNorDoubled ==
    /\ \A t \in 1..submitted :
          \/ t \in expired \cup refused
          \/ \E k \in Keys : t \in ToSet(mined[k])
          \/ InHand(t)
    /\ lost = 0 /\ injected = 0 =>
          \A k \in Keys : \A i, j \in DOMAIN mined[k] :
              mined[k][i] = mined[k][j] /\ mined[k][i] # Dummy => i = j

\* All the used nonces of the gas key get mined, again and again: what blocks them is
\* replaced or filled with a dummy (event_handler.rs 663-731).
Unblocked ==
    []<>(~registered \/ injector.pc = "client" \/ Count(key) >= nonce_to_send)

\* The nonce of a pending transaction belongs to its signer: the signer's nonces below it
\* are used as well ("nonce is corresponding to the current signer", event_handler.rs 291).
NonceOfSigner ==
    \A s \in live : \A e \in Held(s) : \A n \in Count(e.key)..(e.nonce - 1) :
        InPool(e.key, n) # {} \/ Watched(e.key, n)

=============================================================================
