-------------------------- MODULE TxnSender_proofs --------------------------
(***************************************************************************)
(* Proofs about TxnSender, for any number of transactions, keys, sessions  *)
(* and faults, when no send overlaps a key injection or another send:      *)
(* every used nonce of the gas key that is not mined is watched, no        *)
(* transaction is lost, and without a lost response or a new key none is   *)
(* mined twice.                                                            *)
(***************************************************************************)
EXTENDS TxnSender, TLAPS

Entries == [txn : Txns, key : Keys, nonce : Nat]
SenderState == [pc : {"recv", "loop", "count", "nonce", "send", "sent"},
                txn : Txns \cup {NoTxn}, key : Keys \cup {NoKey},
                nonce : Nat, update_nonce : BOOLEAN]
ResenderState == [pc : {"pop", "stopped", "resend", "resending", "dummy", "filling", "confirm"},
                  entry : Entries \cup {NoEntry}]
Injecting == [pc : {"idle", "nonce", "client"}, key : Keys \cup {NoKey}, nonce : Nat]

-----------------------------------------------------------------------------
(* The inductive invariant                                                 *)

Types ==
  /\ key \in Keys /\ nonce_to_send \in Nat
  /\ queue \in [Sessions -> Seq(Txns)]
  /\ sender \in [Sessions -> SenderState]
  /\ pending \in [Sessions -> Seq(Entries)]
  /\ resender \in [Sessions -> ResenderState]
  /\ injector \in Injecting
  /\ registered \in BOOLEAN /\ live \subseteq Sessions
  /\ mined \in [Keys -> Seq(Txns \cup {Dummy})]
  /\ pool \subseteq [txn : Txns \cup {Dummy}, key : Keys, nonce : Nat]
  /\ expired \subseteq Txns /\ refused \subseteq Txns
  /\ submitted \in 0..MaxTxns
  /\ lost \in Nat /\ injected \in Nat

\* What a task has in its hands; a session that has not started has nothing.
Hands ==
  /\ \A s \in Sessions :
       /\ IF sender[s].pc = "recv" THEN sender[s] = Idle ELSE sender[s].txn \in Txns
       /\ sender[s].pc = "count" => sender[s].update_nonce
       /\ resender[s].pc \notin {"pop", "stopped"} => resender[s].entry \in Entries
       /\ resender[s].pc \in {"dummy", "filling", "confirm"} =>
            resender[s].entry.txn \in expired \cup refused
  /\ \A s \in Sessions \ live :
       /\ queue[s] = <<>> /\ pending[s] = <<>>
       /\ sender[s].pc = "recv" /\ resender[s].pc = "pop"

\* A sender works with the current key and, once it has read it, the current nonce.
Current ==
  \A s \in Sessions :
    /\ HasClient(s) => sender[s].key = key
    /\ sender[s].pc \in {"send", "sent"} => sender[s].nonce = nonce_to_send

\* An injection starts from what the chain has counted for its key.
InjectionFresh ==
  /\ injector.pc # "idle" => injector.key \in Keys /\ injector.nonce <= Count(injector.key)
  /\ injector.pc = "client" => nonce_to_send = injector.nonce
  /\ injected = 0 => injector.pc = "idle"

\* nonce_to_send is beyond every nonce that is watched, also when it has to be
\* fetched from the network again.
Beyond ==
  \A s \in live : \A e \in Held(s) : e.key = key =>
    /\ injector.pc # "client" => e.nonce < nonce_to_send
    /\ \A u \in Sessions : sender[u].update_nonce => e.nonce < Count(key)

\* What a session has sent and not let go of.
Sent(s) == IF sender[s].pc = "sent"
           THEN {Entry(sender[s].txn, sender[s].key, sender[s].nonce)} ELSE {}
Owned(s) == Held(s) \cup Sent(s)

\* Transaction x is mined or waits to be mined with nonce n of key k.
OnChain(x, k, n) == \/ Entry(x, k, n) \in pool
                    \/ n < Count(k) /\ mined[k][n + 1] = x

\* A nonce has one owner, and nobody else's transaction ever gets it.
Owners ==
  /\ \A s, u \in live : \A e \in Owned(s), f \in Owned(u) :
       e.key = f.key /\ e.nonce = f.nonce => e = f
  /\ \A s \in live : \A e \in Owned(s) : \A x \in Txns \cup {Dummy} :
       OnChain(x, e.key, e.nonce) =>
         x = e.txn \/ (x = Dummy /\ e.txn \in expired \cup refused)

\* A transaction that is handed over is not forgotten.
NotLost ==
  \A t \in 1..submitted :
    \/ t \in expired \cup refused
    \/ \E k \in Keys : t \in ToSet(mined[k])
    \/ InHand(t)

Placed(t, k, n) == OnChain(t, k, n) \/ \E s \in live : Entry(t, k, n) \in Owned(s)

\* A transaction that no nonce was used for.
Unsent(t) == \A k \in Keys, n \in Nat : ~Placed(t, k, n)

\* With one key and every response, a transaction has one place: in a channel,
\* with a sender, or at one nonce.
OnePlace ==
  lost = 0 /\ injected = 0 =>
    /\ \A s \in live : \A e \in Held(s) : e.key = key
    /\ \A s, u \in Sessions : \A i \in DOMAIN queue[s], j \in DOMAIN queue[u] :
         queue[s][i] = queue[u][j] => s = u /\ i = j
    /\ \A s \in Sessions : \A i \in DOMAIN queue[s] : \A t \in Txns : queue[s][i] = t =>
         t <= submitted /\ Unsent(t) /\ \A u \in Sessions : t # sender[u].txn
    /\ \A s \in Sessions : \A t \in Txns : sender[s].txn = t =>
         t <= submitted /\ (sender[s].pc \notin {"recv", "sent"} => Unsent(t))
    /\ \A t \in Txns, k, l \in Keys, m, n \in Nat :
         /\ Placed(t, k, m) => t <= submitted
         /\ Placed(t, k, m) /\ Placed(t, l, n) => k = l /\ m = n

IInv == /\ Types /\ Hands /\ ~Overlapping /\ Current /\ InjectionFresh
        /\ NoncesWatched /\ Beyond /\ Owners /\ NotLost /\ OnePlace

-----------------------------------------------------------------------------
(* Channels and deques                                                     *)

\* A transaction put on a channel is in it.
LEMMA SetOfAppend ==
  ASSUME NEW S, NEW q \in Seq(S), NEW x \in S
  PROVE  Append(q, x) \in Seq(S) /\ ToSet(Append(q, x)) = ToSet(q) \cup {x}
<1>1. /\ Append(q, x) \in Seq(S) /\ Len(Append(q, x)) = Len(q) + 1 /\ Len(q) \in Nat
      /\ \A i \in 1..Len(q) : Append(q, x)[i] = q[i]
      /\ Append(q, x)[Len(q) + 1] = x
  OBVIOUS
<1>2. ToSet(q) = {q[i] : i \in 1..Len(q)}
  BY DEF ToSet
<1>3. ToSet(Append(q, x)) = {Append(q, x)[i] : i \in 1..(Len(q) + 1)}
  BY <1>1 DEF ToSet
<1> QED BY <1>1, <1>2, <1>3

\* What is taken off the front of a channel or deque leaves the rest.
LEMMA SetOfTail ==
  ASSUME NEW S, NEW q \in Seq(S), q # <<>>
  PROVE  /\ Head(q) \in S /\ Tail(q) \in Seq(S)
         /\ ToSet(q) = {Head(q)} \cup ToSet(Tail(q))
         /\ DOMAIN Tail(q) = 1..(Len(q) - 1)
         /\ \A i \in DOMAIN Tail(q) : i + 1 \in DOMAIN q /\ Tail(q)[i] = q[i + 1]
<1>1. /\ Head(q) \in S /\ Tail(q) \in Seq(S) /\ Len(Tail(q)) = Len(q) - 1
      /\ Len(q) \in Nat \ {0} /\ Head(q) = q[1]
      /\ \A i \in 1..(Len(q) - 1) : Tail(q)[i] = q[i + 1]
  OBVIOUS
<1>2. DOMAIN Tail(q) = 1..(Len(q) - 1) /\ DOMAIN q = 1..Len(q)
  BY <1>1
<1>3. ToSet(q) = {q[i] : i \in 1..Len(q)} /\ ToSet(Tail(q)) = {Tail(q)[i] : i \in 1..(Len(q) - 1)}
  BY <1>2 DEF ToSet
<1>4. ASSUME NEW i \in 1..Len(q) PROVE q[i] \in {Head(q)} \cup ToSet(Tail(q))
  <2>1. CASE i = 1
    BY <1>1, <2>1
  <2>2. CASE i # 1
    <3>1. i - 1 \in 1..(Len(q) - 1) /\ Tail(q)[i - 1] = q[i]
      BY <1>1, <2>2
    <3> QED BY <1>3, <3>1
  <2> QED BY <2>1, <2>2
<1>5. {Head(q)} \cup ToSet(Tail(q)) \subseteq ToSet(q)
  BY <1>1, <1>3
<1>6. ToSet(q) \subseteq {Head(q)} \cup ToSet(Tail(q))
  BY <1>3, <1>4
<1> QED BY <1>1, <1>2, <1>5, <1>6

\* What is put back on the front of a deque is in it.
LEMMA SetOfFront ==
  ASSUME NEW S, NEW q \in Seq(S), NEW x \in S
  PROVE  <<x>> \o q \in Seq(S) /\ ToSet(<<x>> \o q) = {x} \cup ToSet(q)
<1>1. /\ <<x>> \o q \in Seq(S) /\ Len(<<x>> \o q) = Len(q) + 1 /\ Len(q) \in Nat
      /\ (<<x>> \o q)[1] = x
      /\ \A i \in 1..Len(q) : (<<x>> \o q)[i + 1] = q[i]
  OBVIOUS
<1>2. ToSet(q) = {q[i] : i \in 1..Len(q)}
  BY DEF ToSet
<1>3. ToSet(<<x>> \o q) = {(<<x>> \o q)[i] : i \in 1..(Len(q) + 1)}
  BY <1>1 DEF ToSet
<1>4. \A i \in 1..(Len(q) + 1) : i = 1 \/ (i - 1 \in 1..Len(q) /\ (<<x>> \o q)[i] = q[i - 1])
  BY <1>1
<1>5. ToSet(<<x>> \o q) \subseteq {x} \cup ToSet(q)
  BY <1>1, <1>2, <1>3, <1>4
<1>6. {x} \cup ToSet(q) \subseteq ToSet(<<x>> \o q)
  BY <1>1, <1>2, <1>3
<1> QED BY <1>1, <1>5, <1>6

\* A channel holds transactions, a deque entries.
LEMMA SetOfSeq ==
  ASSUME NEW S, NEW q \in Seq(S)
  PROVE  ToSet(q) \subseteq S /\ ToSet(<<>>) = {}
BY DEF ToSet

-----------------------------------------------------------------------------
(* Types and hands                                                         *)

\* The initial state has its types.
LEMMA InitTypes == Init => Types /\ Hands
BY SessionsAssumption, BoundsAssumption, KeysAssumption
DEF Init, Types, Hands, Idle, Watching, NoEntry, Entries, SenderState, ResenderState, Injecting

\* The steps of a sender.  It takes the next transaction, to send it or to skip it;
Takes(s, x) ==
  /\ sender[s].pc = "recv" /\ queue[s] # <<>>
  /\ queue' = [queue EXCEPT ![s] = Tail(@)]
  /\ \/ x.pc = "loop" /\ x.txn = Head(queue[s]) /\ ~x.update_nonce /\ UNCHANGED refused
     \/ x = Idle /\ refused' = refused \cup {Head(queue[s])}
  /\ UNCHANGED <<nonce_to_send, pending, pool, lost>>

\* gives one up;
GivesUp(s, x) ==
  /\ sender[s].pc \notin {"recv", "sent"} /\ x = Idle
  /\ refused' \in {refused, refused \cup {sender[s].txn}}
  /\ sender[s].txn \in expired \cup refused'
  /\ UNCHANGED <<nonce_to_send, queue, pending, pool, lost>>

\* goes on with it, which may fetch the nonce and may send it without an answer;
GoesOn(s, x) ==
  /\ sender[s].pc \notin {"recv", "sent"} /\ x.pc \notin {"recv", "sent"}
  /\ x.txn = sender[s].txn
  /\ x.pc # "loop" => x.key = IF sender[s].pc = "loop" THEN key ELSE sender[s].key
  /\ x.pc = "send" => x.nonce = nonce_to_send'
  /\ x.update_nonce => \/ sender[s].update_nonce
                       \/ sender[s].pc = "send" /\ sender[s].nonce < Count(sender[s].key)
  /\ \/ UNCHANGED nonce_to_send
     \/ /\ sender[s].pc = "count" /\ x.pc = "nonce" /\ ~x.update_nonce
        /\ nonce_to_send' = Count(sender[s].key)
  /\ \/ UNCHANGED <<pool, lost>>
     \/ /\ sender[s].pc = "send" /\ sender[s].nonce >= Count(sender[s].key)
        /\ Accepted(sender[s].txn, sender[s].key, sender[s].nonce) /\ lost' = lost + 1
  /\ UNCHANGED <<queue, pending, refused>>

\* sends it;
Sends(s, x) ==
  /\ sender[s].pc = "send" /\ sender[s].nonce >= Count(sender[s].key)
  /\ x.pc = "sent" /\ x.txn = sender[s].txn /\ x.key = sender[s].key /\ x.nonce = sender[s].nonce
  /\ x.update_nonce => sender[s].update_nonce
  /\ Accepted(sender[s].txn, sender[s].key, sender[s].nonce)
  /\ UNCHANGED <<nonce_to_send, queue, pending, refused, lost>>

\* and puts it on the pending list.
Records(s, x) ==
  /\ sender[s].pc = "sent" /\ x = Idle
  /\ pending' = [pending EXCEPT ![s] =
                    Append(@, Entry(sender[s].txn, sender[s].key, sender[s].nonce))]
  /\ nonce_to_send' = nonce_to_send + 1
  /\ UNCHANGED <<queue, pool, refused, lost>>

SenderMove(s, x) ==
  /\ sender' = [sender EXCEPT ![s] = x]
  /\ x.pc # "recv" => x.txn \in Txns
  /\ x.pc = "recv" => x = Idle
  /\ x.pc = "count" => x.update_nonce
  /\ s \in live
  /\ UnchangedBySender
  /\ Takes(s, x) \/ GivesUp(s, x) \/ GoesOn(s, x) \/ Sends(s, x) \/ Records(s, x)

\* Every step of a sender is one of these.
LEMMA SenderMoves ==
  ASSUME Types, Hands, NEW s \in Sessions, SenderStep(s)
  PROVE  \E x \in SenderState : SenderMove(s, x)
<1> USE DEF SenderMove, SenderTo
<1> DEFINE st == sender[s]
<1>1. st \in SenderState /\ (st.pc # "recv" => st.txn \in Txns /\ s \in live)
  BY DEF Types, Hands
<1>2. Idle \in SenderState /\ Idle.pc = "recv"
  BY DEF Idle, SenderState
<1>3. CASE Receive(s)
  <2>1. queue[s] # <<>> /\ s \in live
    BY <1>3 DEF Receive, Hands
  <2>2. Head(queue[s]) \in Txns
    BY <2>1, SetOfTail DEF Types
  <2>3. CASE SenderTo(s, Idle) /\ refused' = refused \cup {Head(queue[s])}
    BY <1>2, <1>3, <2>1, <2>3 DEF Receive, Takes
  <2>4. CASE SenderTo(s, [Idle EXCEPT !.pc = "loop", !.txn = Head(queue[s])]) /\ UNCHANGED refused
    <3> DEFINE x == [Idle EXCEPT !.pc = "loop", !.txn = Head(queue[s])]
    <3>1. x \in SenderState /\ x.pc = "loop" /\ x.txn = Head(queue[s]) /\ ~x.update_nonce
      BY <2>2 DEF Idle, SenderState
    <3> QED BY <1>3, <2>1, <2>2, <2>4, <3>1 DEF Receive, Takes
  <2> QED BY <1>3, <2>3, <2>4 DEF Receive
<1>4. CASE ReadClient(s)
  <2>1. CASE st.txn \in expired
    BY <1>1, <1>2, <1>4, <2>1 DEF ReadClient, GivesUp
  <2>2. CASE st.txn \notin expired
    <3> DEFINE x == [st EXCEPT !.key = key, !.pc = IF st.update_nonce THEN "count" ELSE "nonce"]
    <3>1. x \in SenderState /\ x.txn = st.txn /\ x.key = key /\ x.pc \in {"count", "nonce"}
          /\ (x.update_nonce <=> st.update_nonce) /\ (x.pc = "count" => x.update_nonce)
      BY <1>1 DEF SenderState, Types
    <3>2. sender' = [sender EXCEPT ![s] = x] /\ st.pc # "recv"
      BY <1>4, <2>2 DEF ReadClient, SenderTo
    <3> QED BY <1>1, <1>4, <3>1, <3>2 DEF ReadClient, GoesOn
  <2> QED BY <2>1, <2>2
<1>5. CASE UpdateNonce(s)
  <2> DEFINE x == [st EXCEPT !.pc = "nonce", !.update_nonce = FALSE]
             y == Loop(s)
  <2>1. x \in SenderState /\ x.txn = st.txn /\ x.key = st.key /\ x.pc = "nonce" /\ ~x.update_nonce
    BY <1>1 DEF SenderState
  <2>2. y \in SenderState /\ y.txn = st.txn /\ y.pc = "loop" /\ (y.update_nonce <=> st.update_nonce)
    BY <1>1 DEF SenderState, Loop
  <2>3. st.pc # "recv"
    BY <1>5 DEF UpdateNonce
  <2>4. CASE nonce_to_send' = Count(st.key) /\ sender' = [sender EXCEPT ![s] = x]
    BY <1>1, <1>5, <2>1, <2>3, <2>4 DEF UpdateNonce, GoesOn
  <2>5. CASE UNCHANGED nonce_to_send /\ sender' = [sender EXCEPT ![s] = y]
    <3> HIDE DEF y
    <3> QED BY <1>1, <1>5, <2>2, <2>3, <2>5 DEF UpdateNonce, GoesOn
  <2> QED BY <1>5, <2>4, <2>5 DEF UpdateNonce, SenderTo
<1>6. CASE ReadNonce(s)
  <2> DEFINE x == [st EXCEPT !.pc = "send", !.nonce = nonce_to_send]
  <2>1. x \in SenderState /\ x.txn = st.txn /\ x.key = st.key /\ x.pc = "send"
        /\ x.nonce = nonce_to_send /\ (x.update_nonce <=> st.update_nonce)
    BY <1>1 DEF SenderState, Types
  <2>2. st.pc # "recv" /\ sender' = [sender EXCEPT ![s] = x]
    BY <1>6 DEF ReadNonce, SenderTo
  <2> QED BY <1>1, <1>6, <2>1, <2>2 DEF ReadNonce, GoesOn
<1>7. CASE SendOk(s)
  <2> DEFINE x == [st EXCEPT !.pc = "sent"]
  <2>1. x \in SenderState /\ x.txn = st.txn /\ x.key = st.key /\ x.pc = "sent"
        /\ x.nonce = st.nonce /\ (x.update_nonce <=> st.update_nonce)
    BY <1>1 DEF SenderState
  <2>2. st.pc # "recv" /\ sender' = [sender EXCEPT ![s] = x]
    BY <1>7 DEF SendOk, SenderTo
  <2> QED BY <1>1, <1>7, <2>1, <2>2 DEF SendOk, Sends
<1>8. CASE SendErr(s)
  <2> DEFINE x == [Loop(s) EXCEPT !.update_nonce = TRUE]
             y == Loop(s)
  <2>1. x \in SenderState /\ x.txn = st.txn /\ x.pc = "loop"
    BY <1>1 DEF SenderState, Loop
  <2>2. y \in SenderState /\ y.txn = st.txn /\ y.pc = "loop" /\ (y.update_nonce <=> st.update_nonce)
    BY <1>1 DEF SenderState, Loop
  <2>3. st.pc # "recv"
    BY <1>8 DEF SendErr
  <2>4. CASE /\ st.nonce < Count(st.key) /\ sender' = [sender EXCEPT ![s] = x]
             /\ UNCHANGED <<pool, refused, lost>>
    <3> HIDE DEF x
    <3> QED BY <1>1, <1>8, <2>1, <2>3, <2>4 DEF SendErr, GoesOn
  <2>5. CASE sender' = [sender EXCEPT ![s] = y] /\ UNCHANGED <<pool, refused, lost>>
    <3> HIDE DEF y
    <3> QED BY <1>1, <1>8, <2>2, <2>3, <2>5 DEF SendErr, GoesOn
  <2>6. CASE /\ sender' = [sender EXCEPT ![s] = y] /\ st.nonce >= Count(st.key)
             /\ lost' = lost + 1 /\ Accepted(st.txn, st.key, st.nonce) /\ UNCHANGED refused
    <3> HIDE DEF y
    <3> QED BY <1>1, <1>8, <2>2, <2>3, <2>6 DEF SendErr, GoesOn
  <2>7. CASE sender' = [sender EXCEPT ![s] = Idle] /\ refused' = refused \cup {st.txn}
             /\ UNCHANGED <<pool, lost>>
    BY <1>1, <1>2, <1>8, <2>3, <2>7 DEF SendErr, GivesUp
  <2> QED BY <1>8, <2>4, <2>5, <2>6, <2>7 DEF SendErr, SenderTo
<1>9. CASE Record(s)
  BY <1>1, <1>2, <1>9 DEF Record, Records
<1> QED BY <1>3, <1>4, <1>5, <1>6, <1>7, <1>8, <1>9 DEF SenderStep

\* The pool takes a transaction, mined or not before, in place of another.
LEMMA PoolTakes ==
  ASSUME Types, NEW t \in Txns \cup {Dummy}, NEW k \in Keys, NEW n \in Nat, Accepted(t, k, n)
  PROVE  pool' \subseteq [txn : Txns \cup {Dummy}, key : Keys, nonce : Nat]
BY DEF Types, Accepted, Entry, InPool

\* A sender that holds a client holds the current key.
LEMMA SenderHas ==
  ASSUME IInv, NEW s \in Sessions
  PROVE  /\ sender[s] \in SenderState
         /\ sender[s].pc # "recv" => sender[s].txn \in Txns /\ s \in live
         /\ sender[s].pc \in {"count", "nonce", "send", "sent"} =>
              sender[s].key = key /\ key \in Keys /\ injector.pc # "client"
         /\ sender[s].pc \in {"send", "sent"} => sender[s].nonce = nonce_to_send
         /\ sender[s].pc # "recv" => \A u \in Sessions \ {s} : sender[u] = Idle /\ sender[u].pc = "recv"
         /\ sender[s].pc = "recv" => sender[s] = Idle
         /\ sender[s].pc \in {"recv", "loop", "count", "nonce", "send", "sent"}
         /\ sender[s].nonce \in Nat
         /\ nonce_to_send \in Nat /\ \A k \in Keys : Count(k) \in Nat
<1>1. /\ sender[s] \in SenderState /\ nonce_to_send \in Nat /\ key \in Keys
      /\ \A k \in Keys : Count(k) \in Nat
  BY DEF IInv, Types, Count
<1>2. /\ sender[s].pc # "recv" => sender[s].txn \in Txns /\ s \in live
      /\ \A u \in Sessions : sender[u].pc = "recv" => sender[u] = Idle
  BY DEF IInv, Hands
<1>3. /\ sender[s].pc # "recv" => \A u \in Sessions \ {s} : sender[u].pc = "recv"
      /\ sender[s].pc \in {"count", "nonce", "send", "sent"} => injector.pc # "client"
  BY DEF IInv, Overlapping, HasClient
<1>4. /\ sender[s].pc \in {"count", "nonce", "send", "sent"} => sender[s].key = key
      /\ sender[s].pc \in {"send", "sent"} => sender[s].nonce = nonce_to_send
  BY DEF IInv, Current, HasClient
<1>5. /\ sender[s].pc \in {"recv", "loop", "count", "nonce", "send", "sent"}
      /\ sender[s].nonce \in Nat
  BY <1>1 DEF SenderState
<1> QED BY <1>1, <1>2, <1>3, <1>4, <1>5

\* The steps of a sender keep the types.
LEMMA SenderTypes ==
  ASSUME IInv, NEW s \in Sessions, NEW x \in SenderState, SenderMove(s, x)
  PROVE  Types' /\ Hands'
<1>1. Types /\ Hands
  BY DEF IInv
<1>2. /\ sender' \in [Sessions -> SenderState] /\ sender'[s] = x
      /\ \A u \in Sessions \ {s} : sender'[u] = sender[u]
  BY <1>1 DEF SenderMove, Types
<1>3. queue' \in [Sessions -> Seq(Txns)] /\ \A u \in Sessions \ live : queue'[u] = <<>>
  <2>1. CASE UNCHANGED queue
    BY <1>1, <2>1 DEF Types, Hands
  <2>2. CASE queue[s] # <<>> /\ queue' = [queue EXCEPT ![s] = Tail(@)]
    BY <1>1, <2>2, SetOfTail DEF Types, Hands, SenderMove
  <2> QED BY <2>1, <2>2 DEF SenderMove, Takes, GivesUp, GoesOn, Sends, Records
<1>4. pending' \in [Sessions -> Seq(Entries)] /\ \A u \in Sessions \ live : pending'[u] = <<>>
  <2>1. CASE UNCHANGED pending
    BY <1>1, <2>1 DEF Types, Hands
  <2>2. CASE Records(s, x)
    <3>1. Entry(sender[s].txn, sender[s].key, sender[s].nonce) \in Entries
      BY <2>2, SenderHas DEF Records, Entry, Entries
    <3> QED BY <1>1, <2>2, <3>1, SetOfAppend DEF Types, Hands, Records, SenderMove
  <2> QED BY <2>1, <2>2 DEF SenderMove, Takes, GivesUp, GoesOn, Sends, Records
<1>5. pool' \subseteq [txn : Txns \cup {Dummy}, key : Keys, nonce : Nat]
  <2>1. CASE UNCHANGED pool
    BY <1>1, <2>1 DEF Types
  <2>2. CASE sender[s].pc = "send" /\ Accepted(sender[s].txn, sender[s].key, sender[s].nonce)
    BY <1>1, <2>2, SenderHas, PoolTakes
  <2> QED BY <2>1, <2>2 DEF SenderMove, Takes, GivesUp, GoesOn, Sends, Records
<1>6. nonce_to_send' \in Nat
  BY SenderHas DEF SenderMove, Takes, GivesUp, GoesOn, Sends, Records
<1>7. refused \subseteq refused' /\ refused' \subseteq Txns
  <2>1. refused \subseteq Txns
    BY <1>1 DEF Types
  <2>2. CASE Takes(s, x)
    <3>1. Head(queue[s]) \in Txns
      BY <1>1, <2>2, SetOfTail DEF Takes, Types
    <3> QED BY <2>1, <2>2, <3>1 DEF Takes
  <2> QED BY <2>1, <2>2, SenderHas DEF SenderMove, GivesUp, GoesOn, Sends, Records
<1>8. lost' \in Nat
  BY <1>1 DEF SenderMove, Takes, GivesUp, GoesOn, Sends, Records, Types
<1>9. UNCHANGED <<key, resender, injector, registered, live, mined, expired, submitted, injected>>
  BY DEF SenderMove, UnchangedBySender
<1>10. Types'
  BY <1>1, <1>2, <1>3, <1>4, <1>5, <1>6, <1>7, <1>8, <1>9 DEF Types
<1>11. Hands'
  <2>1. ASSUME NEW u \in Sessions
        PROVE  /\ IF sender'[u].pc = "recv" THEN sender'[u] = Idle ELSE sender'[u].txn \in Txns
               /\ sender'[u].pc = "count" => sender'[u].update_nonce
               /\ u \notin live => sender'[u].pc = "recv"
    <3>1. CASE u = s
      BY <1>2, <3>1 DEF SenderMove
    <3>2. CASE u # s
      BY <1>1, <1>2, <3>2 DEF Hands
    <3> QED BY <3>1, <3>2
  <2> QED BY <1>1, <1>3, <1>4, <1>7, <1>9, <2>1 DEF Hands
<1> QED BY <1>10, <1>11

\* The entry in a resender's hand.
InResender(r) == IF r.pc \in {"pop", "stopped"} THEN {} ELSE {r.entry}

\* The front of a deque is held, and a step changes the hands of one session.
LEMMA HeldBy ==
  ASSUME Types, Hands, NEW s \in Sessions, NEW p \in Seq(Entries), NEW r \in ResenderState,
         r.pc \notin {"pop", "stopped"} => r.entry \in Entries,
         r.pc \in {"dummy", "filling", "confirm"} => r.entry.txn \in expired' \cup refused',
         pending' = [pending EXCEPT ![s] = p], resender' = [resender EXCEPT ![s] = r],
         s \in live, UNCHANGED <<live, sender>>, refused \subseteq refused', expired \subseteq expired',
         \A u \in Sessions \ live : queue'[u] = queue[u]
  PROVE  /\ Held(s) = ToSet(pending[s]) \cup InResender(resender[s])
         /\ Held(s)' = ToSet(p) \cup InResender(r)
         /\ \A u \in Sessions \ {s} : Held(u)' = Held(u)
         /\ pending' \in [Sessions -> Seq(Entries)] /\ resender' \in [Sessions -> ResenderState]
         /\ Hands'
<1>1. /\ pending' \in [Sessions -> Seq(Entries)] /\ resender' \in [Sessions -> ResenderState]
      /\ pending'[s] = p /\ resender'[s] = r
      /\ \A u \in Sessions \ {s} : pending'[u] = pending[u] /\ resender'[u] = resender[u]
  BY DEF Types
<1>2. /\ Held(s) = ToSet(pending[s]) \cup InResender(resender[s])
      /\ Held(s)' = ToSet(p) \cup InResender(r)
      /\ \A u \in Sessions \ {s} : Held(u)' = Held(u)
  BY <1>1 DEF Held, InResender
<1>3. ASSUME NEW u \in Sessions
      PROVE  /\ resender'[u].pc \notin {"pop", "stopped"} => resender'[u].entry \in Entries
             /\ resender'[u].pc \in {"dummy", "filling", "confirm"} =>
                  resender'[u].entry.txn \in expired' \cup refused'
             /\ u \notin live => pending'[u] = <<>> /\ resender'[u].pc = "pop"
  <2>1. CASE u = s
    BY <1>1, <2>1
  <2>2. CASE u # s
    BY <1>1, <2>2 DEF Hands
  <2> QED BY <2>1, <2>2
<1>4. Hands'
  BY <1>3 DEF Hands
<1> QED BY <1>1, <1>2, <1>4

\* The steps of a resender.  It lets go of an entry whose nonce is mined, or one of another
\* key after handing its transaction back or after its deadline; it sends only what it holds.
LetsGo(s, e) ==
  \/ e.nonce < Count(e.key)
  \/ e.key # key /\ (e.txn \in expired \cup refused \/ e.txn \in ToSet(queue'[s]))

ResenderMove(s) ==
  /\ s \in live /\ UnchangedByResender
  /\ \A u \in Sessions \ {s} : Held(u)' = Held(u)
  /\ Held(s)' \subseteq Held(s)
  /\ \A e \in Held(s) : e \in Held(s)' \/ LetsGo(s, e)
  /\ refused \subseteq refused'
  /\ \/ UNCHANGED pool
     \/ \E e \in Held(s)' : \E x \in {e.txn, Dummy} :
          /\ e.nonce >= Count(e.key) /\ Accepted(x, e.key, e.nonce)
          /\ x = Dummy => e.txn \in expired \cup refused'
  /\ lost' \in {lost, lost + 1}
  /\ \/ UNCHANGED queue
     \/ \E e \in Held(s) : key # e.key /\ queue' = [queue EXCEPT ![s] = Append(@, e.txn)]

\* ResenderTo keeps the entry unless the resender goes back to the deque.
LEMMA ResenderGoesTo ==
  ASSUME Types, NEW s \in Sessions, NEW q \in {"pop", "stopped", "resend", "resending", "dummy", "filling", "confirm"},
         ResenderTo(s, q)
  PROVE  \E r \in ResenderState :
           /\ resender' = [resender EXCEPT ![s] = r] /\ r.pc = q
           /\ q # "pop" => r.entry = resender[s].entry
<1>1. resender[s] \in ResenderState
  BY DEF Types
<1>2. CASE q = "pop"
  <2>1. Watching \in ResenderState /\ Watching.pc = "pop"
    BY DEF Watching, ResenderState
  <2> QED BY <1>2, <2>1 DEF ResenderTo
<1>3. CASE q # "pop"
  <2> DEFINE r == [resender[s] EXCEPT !.pc = q]
  <2>1. r \in ResenderState /\ r.pc = q /\ r.entry = resender[s].entry
    BY <1>1 DEF ResenderState
  <2> QED BY <1>3, <2>1 DEF ResenderTo
<1> QED BY <1>2, <1>3

\* A resender that works on an entry keeps it, or lets it go.
LEMMA ResenderHand ==
  ASSUME Types, Hands, NEW s \in Sessions, resender[s].pc \notin {"pop", "stopped"},
         NEW q \in {"pop", "resend", "resending", "dummy", "filling", "confirm"},
         ResenderTo(s, q), UNCHANGED <<pending, live, sender>>,
         refused \subseteq refused', expired \subseteq expired',
         \A u \in Sessions \ live : queue'[u] = queue[u],
         q \in {"dummy", "filling", "confirm"} =>
           resender[s].entry.txn \in expired' \cup refused'
  PROVE  LET e == resender[s].entry IN
         /\ s \in live /\ e \in Entries
         /\ Held(s) = ToSet(pending[s]) \cup {e}
         /\ Held(s)' = ToSet(pending[s]) \cup (IF q = "pop" THEN {} ELSE {e})
         /\ \A u \in Sessions \ {s} : Held(u)' = Held(u)
         /\ pending' \in [Sessions -> Seq(Entries)] /\ resender' \in [Sessions -> ResenderState]
         /\ Hands'
<1> DEFINE e == resender[s].entry
<1>1. s \in live /\ e \in Entries
  BY DEF Hands
<1>2. PICK r \in ResenderState : /\ resender' = [resender EXCEPT ![s] = r] /\ r.pc = q
                                 /\ q # "pop" => r.entry = e
  BY ResenderGoesTo
<1>3. pending[s] \in Seq(Entries) /\ pending' = [pending EXCEPT ![s] = pending[s]]
  BY DEF Types
<1>4. /\ Held(s) = ToSet(pending[s]) \cup InResender(resender[s])
      /\ Held(s)' = ToSet(pending[s]) \cup InResender(r)
      /\ \A u \in Sessions \ {s} : Held(u)' = Held(u)
      /\ pending' \in [Sessions -> Seq(Entries)] /\ resender' \in [Sessions -> ResenderState]
      /\ Hands'
  BY <1>1, <1>2, <1>3, HeldBy
<1> QED BY <1>1, <1>2, <1>4 DEF InResender

\* Every step of a resender is one of these, and keeps the types.
LEMMA ResenderMoves ==
  ASSUME Types, Hands, NEW s \in Sessions, ResenderStep(s)
  PROVE  ResenderMove(s) /\ Types' /\ Hands'
<1> DEFINE e == resender[s].entry
<1>1. /\ UnchangedByResender
      /\ UNCHANGED <<live, sender, key, expired, mined>>
  BY DEF ResenderStep, Pop, Stop, Resend, ResendOk, ResendErr, DummyHead, DummyOk, DummyTooLow,
         DummyErr, Confirm, UnchangedByResender
<1>2. /\ pending[s] \in Seq(Entries) /\ lost \in Nat /\ refused \subseteq Txns
      /\ \A k \in Keys : Count(k) \in Nat
  BY DEF Types, Count
<1>3. ASSUME pending' \in [Sessions -> Seq(Entries)], resender' \in [Sessions -> ResenderState],
             queue' \in [Sessions -> Seq(Txns)], refused' \subseteq Txns,
             pool' \subseteq [txn : Txns \cup {Dummy}, key : Keys, nonce : Nat],
             lost' \in {lost, lost + 1}
      PROVE  Types'
  BY <1>1, <1>2, <1>3 DEF Types, UnchangedByResender
<1>4. ASSUME UNCHANGED pool PROVE pool' \subseteq [txn : Txns \cup {Dummy}, key : Keys, nonce : Nat]
  BY <1>4 DEF Types
<1>5. ASSUME UNCHANGED queue PROVE queue' \in [Sessions -> Seq(Txns)]
  BY <1>5 DEF Types
<1>6. CASE Pop(s)
  <2> DEFINE h == Head(pending[s])
  <2>1. /\ resender[s].pc = "pop" /\ pending[s] # <<>> /\ s \in live
        /\ pending' = [pending EXCEPT ![s] = Tail(pending[s])] /\ UNCHANGED <<queue, pool, refused, lost>>
    BY <1>6 DEF Pop, Hands
  <2>2. h \in Entries /\ Tail(pending[s]) \in Seq(Entries)
        /\ ToSet(pending[s]) = {h} \cup ToSet(Tail(pending[s]))
    BY <1>2, <2>1, SetOfTail
  <2>3. CASE Count(h.key) > h.nonce /\ UNCHANGED resender
    <3>1. resender' = [resender EXCEPT ![s] = resender[s]] /\ resender[s] \in ResenderState
      BY <2>3 DEF Types
    <3>2. /\ Held(s) = ToSet(pending[s]) \cup InResender(resender[s])
          /\ Held(s)' = ToSet(Tail(pending[s])) \cup InResender(resender[s])
          /\ \A u \in Sessions \ {s} : Held(u)' = Held(u)
          /\ pending' \in [Sessions -> Seq(Entries)] /\ resender' \in [Sessions -> ResenderState]
          /\ Hands'
      BY <1>1, <2>1, <2>2, <3>1, HeldBy
    <3>3. h.nonce < Count(h.key)
      BY <1>2, <2>2, <2>3 DEF Entries
    <3>4. Types'
      BY <1>2, <1>3, <1>4, <1>5, <2>1, <3>2
    <3> QED BY <1>1, <2>1, <2>2, <3>2, <3>3, <3>4 DEF ResenderMove, LetsGo
  <2>4. CASE resender' = [resender EXCEPT ![s] = [pc |-> "resend", entry |-> h]]
    <3> DEFINE r == [pc |-> "resend", entry |-> h]
    <3>1. r \in ResenderState /\ r.pc = "resend" /\ r.entry = h
      BY <2>2 DEF ResenderState
    <3> HIDE DEF r, h
    <3>2. /\ Held(s) = ToSet(pending[s]) \cup InResender(resender[s])
          /\ Held(s)' = ToSet(Tail(pending[s])) \cup InResender(r)
          /\ \A u \in Sessions \ {s} : Held(u)' = Held(u)
          /\ pending' \in [Sessions -> Seq(Entries)] /\ resender' \in [Sessions -> ResenderState]
          /\ Hands'
      <4>1. resender' = [resender EXCEPT ![s] = r]
        BY <2>4 DEF r, h
      <4> QED BY <1>1, <2>1, <2>2, <3>1, <4>1, HeldBy
    <3>3. Types'
      BY <1>2, <1>3, <1>4, <1>5, <2>1, <3>2
    <3>4. Held(s)' = Held(s)
      BY <2>1, <2>2, <3>1, <3>2 DEF InResender
    <3> QED BY <1>1, <2>1, <3>2, <3>3, <3>4 DEF ResenderMove
  <2> QED BY <1>6, <2>3, <2>4 DEF Pop
<1>7. CASE Stop(s)
  <2>1. /\ resender[s].pc = "pop" /\ s \in live /\ ResenderTo(s, "stopped")
        /\ UNCHANGED <<queue, pending, pool, refused, lost>>
    BY <1>7 DEF Stop
  <2>2. PICK r \in ResenderState : resender' = [resender EXCEPT ![s] = r] /\ r.pc = "stopped"
    BY <2>1, ResenderGoesTo
  <2>3. pending' = [pending EXCEPT ![s] = pending[s]]
    BY <2>1 DEF Types
  <2>4. /\ Held(s) = ToSet(pending[s]) \cup InResender(resender[s])
        /\ Held(s)' = ToSet(pending[s]) \cup InResender(r)
        /\ \A u \in Sessions \ {s} : Held(u)' = Held(u)
        /\ pending' \in [Sessions -> Seq(Entries)] /\ resender' \in [Sessions -> ResenderState]
        /\ Hands'
    BY <1>1, <1>2, <2>1, <2>2, <2>3, HeldBy
  <2>5. Types'
    BY <1>2, <1>3, <1>4, <1>5, <2>1, <2>4
  <2> QED BY <1>1, <2>1, <2>2, <2>4, <2>5 DEF ResenderMove, InResender
\* A step with an entry in the hand.
<1>8. ASSUME resender[s].pc \notin {"pop", "stopped"}, UNCHANGED <<queue, pending>>,
             NEW q \in {"pop", "resend", "resending", "dummy", "filling", "confirm"},
             ResenderTo(s, q),
             refused' \in {refused, refused \cup {e.txn}}, lost' \in {lost, lost + 1},
             q \in {"dummy", "filling", "confirm"} => e.txn \in expired \cup refused',
             q = "pop" => LetsGo(s, e),
             \/ UNCHANGED pool
             \/ /\ q # "pop" /\ e.nonce >= Count(e.key)
                /\ \E x \in {e.txn, Dummy} : /\ Accepted(x, e.key, e.nonce)
                                             /\ x = Dummy => e.txn \in expired \cup refused'
      PROVE  ResenderMove(s) /\ Types' /\ Hands'
  <2>1. /\ s \in live /\ e \in Entries
        /\ Held(s) = ToSet(pending[s]) \cup {e} /\ Hands'
        /\ Held(s)' = ToSet(pending[s]) \cup (IF q = "pop" THEN {} ELSE {e})
        /\ \A u \in Sessions \ {s} : Held(u)' = Held(u)
        /\ pending' \in [Sessions -> Seq(Entries)] /\ resender' \in [Sessions -> ResenderState]
    BY <1>1, <1>8, ResenderHand
  <2>2. e.txn \in Txns /\ e.key \in Keys /\ e.nonce \in Nat
    BY <2>1 DEF Entries
  <2>3. refused \subseteq refused' /\ refused' \subseteq Txns
    BY <1>2, <1>8, <2>2
  <2>4. pool' \subseteq [txn : Txns \cup {Dummy}, key : Keys, nonce : Nat]
    BY <1>4, <1>8, <2>2, PoolTakes
  <2>5. Types'
    BY <1>3, <1>5, <1>8, <2>1, <2>3, <2>4
  <2> HIDE DEF e
  <2>6. \/ UNCHANGED pool
        \/ \E f \in Held(s)' : \E x \in {f.txn, Dummy} :
             /\ f.nonce >= Count(f.key) /\ Accepted(x, f.key, f.nonce)
             /\ x = Dummy => f.txn \in expired \cup refused'
    BY <1>8, <2>1
  <2> QED BY <1>1, <1>8, <2>1, <2>3, <2>5, <2>6 DEF ResenderMove
<1>9. CASE Resend(s)
  <2>1. resender[s].pc = "resend" /\ UNCHANGED <<pending, pool, refused, lost>>
    BY <1>9 DEF Resend
  <2>2. CASE e.txn \in expired
    <3>1. ResenderTo(s, "dummy") /\ UNCHANGED queue
      BY <1>9, <2>2 DEF Resend
    <3> QED BY <1>8, <2>1, <2>2, <3>1
  <2>3. CASE e.txn \notin expired /\ key # e.key
    <3>1. ResenderTo(s, "pop") /\ queue' = [queue EXCEPT ![s] = Append(@, e.txn)]
      BY <1>9, <2>3 DEF Resend
    <3>2. s \in live /\ e \in Entries
      BY <2>1 DEF Hands
    <3>3. e.txn \in Txns
      BY <3>2 DEF Entries
    <3>4. /\ queue' \in [Sessions -> Seq(Txns)] /\ e.txn \in ToSet(queue'[s])
          /\ \A u \in Sessions \ live : queue'[u] = queue[u]
      BY <3>1, <3>2, <3>3, SetOfAppend DEF Types
    <3>5. /\ Held(s) = ToSet(pending[s]) \cup {e} /\ Held(s)' = ToSet(pending[s]) /\ Hands'
          /\ \A u \in Sessions \ {s} : Held(u)' = Held(u)
          /\ pending' \in [Sessions -> Seq(Entries)] /\ resender' \in [Sessions -> ResenderState]
      BY <1>1, <2>1, <3>1, <3>4, ResenderHand
    <3>6. Types'
      BY <1>2, <1>3, <1>4, <2>1, <3>4, <3>5
    <3> HIDE DEF e
    <3> QED BY <1>1, <2>1, <2>3, <3>1, <3>2, <3>4, <3>5, <3>6 DEF ResenderMove, LetsGo
  <2>4. CASE e.txn \notin expired /\ key = e.key
    <3>1. ResenderTo(s, "resending") /\ UNCHANGED queue
      BY <1>9, <2>4 DEF Resend
    <3> QED BY <1>8, <2>1, <3>1
  <2> QED BY <2>2, <2>3, <2>4
<1>10. CASE ResendOk(s)
  <2>1. /\ resender[s].pc = "resending" /\ UNCHANGED <<queue, refused, lost>> /\ e.nonce >= Count(e.key)
        /\ Accepted(e.txn, e.key, e.nonce) /\ pending' = [pending EXCEPT ![s] = <<e>> \o pending[s]]
        /\ ResenderTo(s, "pop")
    BY <1>10 DEF ResendOk
  <2>2. s \in live /\ e \in Entries
    BY <2>1 DEF Hands
  <2>3. PICK r \in ResenderState : resender' = [resender EXCEPT ![s] = r] /\ r.pc = "pop"
    BY <2>1, ResenderGoesTo
  <2>4. <<e>> \o pending[s] \in Seq(Entries) /\ ToSet(<<e>> \o pending[s]) = {e} \cup ToSet(pending[s])
    BY <1>2, <2>2, SetOfFront
  <2>5. /\ Held(s) = ToSet(pending[s]) \cup InResender(resender[s])
        /\ Held(s)' = ToSet(<<e>> \o pending[s]) \cup InResender(r)
        /\ \A u \in Sessions \ {s} : Held(u)' = Held(u)
        /\ pending' \in [Sessions -> Seq(Entries)] /\ resender' \in [Sessions -> ResenderState]
        /\ Hands'
    BY <1>1, <2>1, <2>2, <2>3, <2>4, HeldBy
  <2>6. pool' \subseteq [txn : Txns \cup {Dummy}, key : Keys, nonce : Nat]
    BY <2>1, <2>2, PoolTakes DEF Entries
  <2>7. Types'
    BY <1>2, <1>3, <1>5, <2>1, <2>5, <2>6
  <2>8. Held(s)' = Held(s) /\ e \in Held(s)'
    BY <2>1, <2>3, <2>4, <2>5 DEF InResender
  <2>9. e.txn # Dummy
    BY <2>2, BoundsAssumption DEF Entries, Txns, Dummy
  <2> HIDE DEF e
  <2> QED BY <1>1, <2>1, <2>2, <2>5, <2>7, <2>8, <2>9 DEF ResenderMove
<1>11. CASE ResendErr(s)
  <2>1. resender[s].pc = "resending" /\ UNCHANGED <<queue, pending>>
    BY <1>11 DEF ResendErr
  <2>2. CASE e.nonce < Count(e.key) /\ ResenderTo(s, "pop") /\ UNCHANGED <<pool, refused, lost>>
    BY <1>8, <2>1, <2>2 DEF LetsGo
  <2>3. CASE ResenderTo(s, "resend") /\ UNCHANGED <<pool, refused, lost>>
    BY <1>8, <2>1, <2>3
  <2>4. CASE /\ e.nonce >= Count(e.key) /\ lost' = lost + 1 /\ Accepted(e.txn, e.key, e.nonce)
             /\ ResenderTo(s, "resend") /\ UNCHANGED refused
    <3>1. e.txn # Dummy
      BY <2>1, BoundsAssumption DEF Hands, Entries, Txns, Dummy
    <3> QED BY <1>8, <2>1, <2>4, <3>1
  <2>5. CASE ResenderTo(s, "dummy") /\ refused' = refused \cup {e.txn} /\ UNCHANGED <<pool, lost>>
    BY <1>8, <2>1, <2>5
  <2> QED BY <1>11, <2>2, <2>3, <2>4, <2>5 DEF ResendErr
<1>12. ASSUME resender[s].pc \in {"dummy", "filling", "confirm"} PROVE e.txn \in expired \cup refused
  BY <1>12 DEF Hands
<1>13. CASE DummyHead(s)
  <2>1. /\ resender[s].pc = "dummy" /\ UNCHANGED <<queue, pending, pool, refused, lost>>
        /\ ResenderTo(s, IF key # e.key THEN "pop" ELSE "filling")
    BY <1>13 DEF DummyHead
  <2>2. e.txn \in expired \cup refused
    BY <1>12, <2>1
  <2>3. CASE key # e.key
    BY <1>8, <2>1, <2>2, <2>3 DEF LetsGo
  <2>4. CASE key = e.key
    BY <1>8, <2>1, <2>2, <2>4
  <2> QED BY <2>3, <2>4
<1>14. CASE DummyOk(s)
  <2>1. /\ resender[s].pc = "filling" /\ UNCHANGED <<queue, pending, refused, lost>>
        /\ e.nonce >= Count(e.key) /\ Accepted(Dummy, e.key, e.nonce) /\ ResenderTo(s, "confirm")
    BY <1>14 DEF DummyOk
  <2>2. e.txn \in expired \cup refused
    BY <1>12, <2>1
  <2> QED BY <1>8, <2>1, <2>2
<1>15. CASE DummyTooLow(s)
  BY <1>8, <1>15 DEF DummyTooLow, LetsGo
<1>16. CASE DummyErr(s)
  <2>1. /\ resender[s].pc = "filling" /\ UNCHANGED <<queue, pending, refused>>
        /\ ResenderTo(s, "dummy")
    BY <1>16 DEF DummyErr
  <2>2. e.txn \in expired \cup refused
    BY <1>12, <2>1
  <2>3. CASE UNCHANGED <<pool, lost>>
    BY <1>8, <2>1, <2>2, <2>3
  <2>4. CASE e.nonce >= Count(e.key) /\ lost' = lost + 1 /\ Accepted(Dummy, e.key, e.nonce)
    BY <1>8, <2>1, <2>2, <2>4
  <2> QED BY <1>16, <2>3, <2>4 DEF DummyErr
<1>17. CASE Confirm(s)
  <2>1. resender[s].pc = "confirm" /\ UNCHANGED <<queue, pending, pool, refused, lost>>
    BY <1>17 DEF Confirm
  <2>2. e.txn \in expired \cup refused
    BY <1>12, <2>1
  <2>3. CASE Count(e.key) > e.nonce /\ ResenderTo(s, "pop")
    <3>1. e.nonce < Count(e.key)
      BY <1>2, <2>1, <2>3 DEF Hands, Entries
    <3> QED BY <1>8, <2>1, <2>3, <3>1 DEF LetsGo
  <2>4. CASE ResenderTo(s, "dummy")
    BY <1>8, <2>1, <2>2, <2>4
  <2> QED BY <1>17, <2>3, <2>4 DEF Confirm
<1> QED BY <1>6, <1>7, <1>9, <1>10, <1>11, <1>13, <1>14, <1>15, <1>16, <1>17 DEF ResenderStep

-----------------------------------------------------------------------------
(* The chain                                                               *)

\* A nonce has the transaction accepted last, and no other changes.
LEMMA ChainAccepts ==
  ASSUME Types, NEW t \in Txns \cup {Dummy}, NEW k \in Keys, NEW n \in Nat,
         Accepted(t, k, n), n >= Count(k), UNCHANGED mined,
         NEW x \in Txns \cup {Dummy}, NEW l \in Keys, NEW m \in Nat, OnChain(x, l, m)'
  PROVE  (x = t /\ l = k /\ m = n) \/ (~(l = k /\ m = n) /\ OnChain(x, l, m))
<1>1. Count(k) \in Nat /\ Count(k)' = Count(k) /\ Count(l)' = Count(l)
  BY DEF Types, Count
<1>2. CASE Entry(x, l, m) \in pool'
  BY <1>2 DEF Accepted, InPool, Entry, OnChain
<1>3. CASE m < Count(l) /\ mined[l][m + 1] = x
  BY <1>1, <1>3 DEF OnChain
<1> QED BY <1>1, <1>2, <1>3 DEF OnChain

\* Without a new transaction the chain only moves what it has.
LEMMA ChainKeeps ==
  ASSUME Types, pool' \subseteq pool, UNCHANGED mined,
         NEW x \in Txns \cup {Dummy}, NEW l \in Keys, NEW m \in Nat, OnChain(x, l, m)'
  PROVE  OnChain(x, l, m)
BY DEF OnChain, Count

\* Mining moves a transaction from the pool to the end of the ledger.
LEMMA ChainMines ==
  ASSUME Types, NEW k \in Keys, Mine(k)
  PROVE  /\ mined' \in [Keys -> Seq(Txns \cup {Dummy})] /\ pool' \subseteq pool
         /\ \A l \in Keys : Count(l) \in Nat /\ Count(l)' \in Nat /\ Count(l)' >= Count(l)
         /\ \A l \in Keys : ToSet(mined[l]) \subseteq ToSet(mined'[l])
         /\ \A x \in Txns \cup {Dummy}, l \in Keys, m \in Nat :
              OnChain(x, l, m)' => OnChain(x, l, m)
<1>1. PICK r \in pool : /\ r.key = k /\ r.nonce = Count(k) /\ pool' = pool \ {r}
                        /\ mined' = [mined EXCEPT ![k] = Append(@, r.txn)]
  BY DEF Mine, InPool
<1>2. r \in [txn : Txns \cup {Dummy}, key : Keys, nonce : Nat] /\ r.txn \in Txns \cup {Dummy}
  BY <1>1 DEF Types
<1>3. /\ mined[k] \in Seq(Txns \cup {Dummy}) /\ Len(mined[k]) \in Nat /\ DOMAIN mined = Keys
      /\ mined'[k] = Append(mined[k], r.txn)
      /\ \A l \in Keys \ {k} : mined'[l] = mined[l]
  BY <1>1 DEF Types
<1>4. /\ Append(mined[k], r.txn) \in Seq(Txns \cup {Dummy})
      /\ ToSet(Append(mined[k], r.txn)) = ToSet(mined[k]) \cup {r.txn}
  BY <1>2, <1>3, SetOfAppend
<1>5. mined' \in [Keys -> Seq(Txns \cup {Dummy})]
  BY <1>1, <1>4 DEF Types
<1>6. ASSUME NEW l \in Keys
      PROVE  /\ Count(l) \in Nat /\ Count(l)' \in Nat /\ Count(l)' >= Count(l)
             /\ ToSet(mined[l]) \subseteq ToSet(mined'[l])
  <2>1. mined[l] \in Seq(Txns \cup {Dummy}) /\ mined'[l] \in Seq(Txns \cup {Dummy})
    BY <1>5 DEF Types
  <2>2. CASE l = k
    <3>1. Len(Append(mined[k], r.txn)) = Len(mined[k]) + 1
      BY <1>2, <1>3
    <3>2. Count(l) = Len(mined[k]) /\ Count(l)' = Len(mined[k]) + 1
      BY <1>3, <2>2, <3>1 DEF Count
    <3>3. ToSet(mined[l]) \subseteq ToSet(mined'[l])
      BY <1>3, <1>4, <2>2
    <3>4. Count(l) \in Nat /\ Count(l)' \in Nat /\ Count(l)' >= Count(l)
      BY <1>3, <3>2
    <3> QED BY <3>3, <3>4
  <2>3. CASE l # k
    BY <1>3, <2>1, <2>3 DEF Count
  <2> QED BY <2>2, <2>3
<1>7. ASSUME NEW x \in Txns \cup {Dummy}, NEW l \in Keys, NEW m \in Nat, OnChain(x, l, m)'
      PROVE  OnChain(x, l, m)
  <2>1. CASE Entry(x, l, m) \in pool'
    BY <1>1, <2>1 DEF OnChain
  <2>2. CASE m < Count(l)' /\ mined'[l][m + 1] = x
    <3>1. CASE l # k
      BY <1>3, <2>2, <3>1 DEF Count, OnChain
    <3>2. CASE l = k /\ m < Count(k)
      BY <1>2, <1>3, <2>2, <3>2 DEF Count, OnChain
    <3>3. CASE l = k /\ m = Count(k)
      <4>1. x = r.txn
        BY <1>2, <1>3, <2>2, <3>3 DEF Count
      <4>2. Entry(x, l, m) = r
        BY <1>1, <1>2, <3>3, <4>1 DEF Entry
      <4> QED BY <1>1, <4>2 DEF OnChain
    <3>4. Count(k)' = Count(k) + 1 /\ Count(k) \in Nat
      BY <1>2, <1>3 DEF Count
    <3> QED BY <2>2, <3>1, <3>2, <3>3, <3>4
  <2> QED BY <1>7, <2>1, <2>2 DEF OnChain
<1> QED BY <1>1, <1>5, <1>6, <1>7

-----------------------------------------------------------------------------
(* What the steps of a sender preserve                                     *)

\* What a session holds are entries.
LEMMA HeldEntries ==
  ASSUME Types, Hands, NEW s \in Sessions
  PROVE  Held(s) \subseteq Entries
<1>1. ToSet(pending[s]) \subseteq Entries
  BY SetOfSeq DEF Types
<1> QED BY <1>1 DEF Held, Hands

\* The transaction a sender is sending, as an entry.
Sending(s) == Entry(sender[s].txn, sender[s].key, sender[s].nonce)

\* Only a send and its record change what the sessions hold and own.
LEMMA SenderHands ==
  ASSUME IInv, NEW s \in Sessions, NEW x \in SenderState, SenderMove(s, x)
  PROVE  /\ \A u \in Sessions : sender'[u] = IF u = s THEN x ELSE sender[u]
         /\ \A u \in Sessions : Held(u)' = Held(u) \cup (IF u = s /\ Records(s, x) THEN {Sending(s)} ELSE {})
         /\ \A u \in Sessions : Owned(u)' = Owned(u) \cup (IF u = s /\ Sends(s, x) THEN {Sending(s)} ELSE {})
<1>1. \A u \in Sessions : sender'[u] = IF u = s THEN x ELSE sender[u]
  BY DEF SenderMove, IInv, Types
<1>2. /\ UNCHANGED resender /\ Idle.pc = "recv"
      /\ UNCHANGED pending \/ Records(s, x)
  BY DEF SenderMove, UnchangedBySender, Takes, GivesUp, GoesOn, Sends, Records, Idle
<1>3. ASSUME NEW u \in Sessions
      PROVE  Held(u)' = Held(u) \cup (IF u = s /\ Records(s, x) THEN {Sending(s)} ELSE {})
  <2>1. CASE ~Records(s, x)
    BY <1>2, <2>1 DEF Held
  <2>2. CASE Records(s, x) /\ u # s
    <3>1. pending'[u] = pending[u]
      BY <2>2 DEF Records, IInv, Types
    <3> QED BY <1>2, <2>2, <3>1 DEF Held
  <2>3. CASE Records(s, x) /\ u = s
    <3>1. Sending(s) \in Entries
      BY <2>3, SenderHas DEF Records, Sending, Entry, Entries
    <3>2. pending'[u] = Append(pending[u], Sending(s)) /\ pending[u] \in Seq(Entries)
      BY <2>3 DEF Records, Sending, IInv, Types
    <3>3. ToSet(pending'[u]) = ToSet(pending[u]) \cup {Sending(s)}
      BY <3>1, <3>2, SetOfAppend
    <3> QED BY <1>2, <2>3, <3>3 DEF Held
  <2> QED BY <2>1, <2>2, <2>3
<1>4. ASSUME NEW u \in Sessions
      PROVE  Owned(u)' = Owned(u) \cup (IF u = s /\ Sends(s, x) THEN {Sending(s)} ELSE {})
  <2>1. CASE u # s
    <3>1. Held(u)' = Held(u) /\ Sent(u)' = Sent(u)
      BY <1>1, <1>3, <2>1 DEF Sent, Entry
    <3> QED BY <2>1, <3>1 DEF Owned
  <2>2. CASE u = s /\ Records(s, x)
    <3>1. Held(u)' = Held(u) \cup {Sending(s)} /\ Sent(u)' = {} /\ Sent(u) = {Sending(s)} /\ ~Sends(s, x)
      BY <1>1, <1>2, <1>3, <2>2 DEF Sent, Sending, Records, Sends
    <3> QED BY <2>2, <3>1 DEF Owned
  <2>3. CASE u = s /\ Sends(s, x)
    <3>1. Held(u)' = Held(u) /\ Sent(u)' = {Sending(s)} /\ Sent(u) = {}
      BY <1>1, <1>3, <2>3 DEF Sent, Sending, Records, Sends, Entry
    <3> QED BY <2>3, <3>1 DEF Owned
  <2>4. CASE u = s /\ ~Records(s, x) /\ ~Sends(s, x)
    <3>1. Held(u)' = Held(u)
      BY <1>3, <2>4
    <3>2. Sent(u)' = {} /\ Sent(u) = {}
      BY <1>1, <1>2, <2>4 DEF Sent, SenderMove, Takes, GivesUp, GoesOn
    <3> QED BY <2>4, <3>1, <3>2 DEF Owned
  <2> QED BY <2>1, <2>2, <2>3, <2>4
<1> QED BY <1>1, <1>3, <1>4

\* A sender works with the current key and nonce.
LEMMA SenderKeepsCurrent ==
  ASSUME IInv, ~Overlapping', NEW s \in Sessions, NEW x \in SenderState, SenderMove(s, x)
  PROVE  Current' /\ InjectionFresh'
<1>1. \A u \in Sessions : sender'[u] = IF u = s THEN x ELSE sender[u]
  BY SenderHands
<1>2. UNCHANGED <<key, injector, mined, injected>>
  BY DEF SenderMove, UnchangedBySender
<1>3. ASSUME NEW u \in Sessions
      PROVE  /\ HasClient(u)' => sender'[u].key = key'
             /\ sender'[u].pc \in {"send", "sent"} => sender'[u].nonce = nonce_to_send'
  <2>1. CASE u = s
    <3>1. HasClient(u)' <=> x.pc \in {"count", "nonce", "send", "sent"}
      BY <1>1, <2>1 DEF HasClient
    <3>2. Idle.pc = "recv"
      BY DEF Idle
    <3>3. x.pc \in {"count", "nonce", "send", "sent"} => x.key = key
      BY <3>2, SenderHas DEF SenderMove, Takes, GivesUp, GoesOn, Sends, Records
    <3>4. x.pc \in {"send", "sent"} => x.nonce = nonce_to_send'
      BY <3>2, SenderHas DEF SenderMove, Takes, GivesUp, GoesOn, Sends, Records
    <3> QED BY <1>1, <1>2, <2>1, <3>1, <3>3, <3>4
  <2>2. CASE u # s
    <3>1. sender'[u] = sender[u] /\ (HasClient(u)' <=> HasClient(u))
      BY <1>1, <2>2 DEF HasClient
    <3>2. sender[u].pc \in {"send", "sent"} => UNCHANGED nonce_to_send
      BY <2>2, SenderHas DEF SenderMove, Takes, GivesUp, GoesOn, Sends, Records, Idle
    <3> QED BY <1>2, <3>1, <3>2 DEF IInv, Current
  <2> QED BY <2>1, <2>2
<1>4. injector.pc = "client" => UNCHANGED nonce_to_send
  BY SenderHas DEF SenderMove, Takes, GivesUp, GoesOn, Sends, Records
<1>5. InjectionFresh'
  BY <1>2, <1>4 DEF IInv, InjectionFresh, Count
<1> QED BY <1>3, <1>5 DEF Current

\* A nonce is watched before nonce_to_send passes it.
LEMMA SenderKeepsNonces ==
  ASSUME IInv, NEW s \in Sessions, NEW x \in SenderState, SenderMove(s, x)
  PROVE  NoncesWatched' /\ Beyond'
<1>1. /\ \A u \in Sessions : sender'[u] = IF u = s THEN x ELSE sender[u]
      /\ \A u \in Sessions : Held(u)' = Held(u) \cup (IF u = s /\ Records(s, x) THEN {Sending(s)} ELSE {})
  BY SenderHands
<1>2. UNCHANGED <<key, injector, mined, registered, live>> /\ s \in live /\ live \subseteq Sessions
  BY DEF SenderMove, UnchangedBySender, IInv, Types
<1>3. Count(key)' = Count(key) /\ Count(key) \in Nat /\ nonce_to_send \in Nat
  BY <1>2, SenderHas DEF Count, IInv, Types
<1>4. \/ UNCHANGED nonce_to_send /\ ~Records(s, x)
      \/ nonce_to_send' = Count(key) /\ sender[s].update_nonce /\ ~Records(s, x)
      \/ nonce_to_send' = nonce_to_send + 1 /\ Records(s, x)
  <2>1. sender[s].pc = "count" => sender[s].update_nonce /\ sender[s].key = key
    BY SenderHas DEF IInv, Hands
  <2> QED BY <2>1 DEF SenderMove, Takes, GivesUp, GoesOn, Sends, Records
<1>5. NoncesWatched'
  <2> SUFFICES ASSUME registered, injector.pc # "client", NEW n \in Count(key)..(nonce_to_send' - 1)
               PROVE  Watched(key, n)'
    BY <1>2, <1>3 DEF NoncesWatched
  <2>1. ASSUME n \in Count(key)..(nonce_to_send - 1) PROVE Watched(key, n)'
    <3>1. PICK u \in live : \E e \in Held(u) : e.key = key /\ e.nonce = n
      BY <2>1 DEF IInv, NoncesWatched, Watched
    <3> QED BY <1>1, <1>2, <3>1 DEF Watched
  <2>2. ASSUME Records(s, x), n = nonce_to_send PROVE Watched(key, n)'
    <3>1. Sending(s).key = key /\ Sending(s).nonce = nonce_to_send
      BY <2>2, SenderHas DEF Records, Sending, Entry
    <3>2. Sending(s) \in Held(s)'
      BY <1>1, <2>2
    <3> QED BY <1>2, <2>2, <3>1, <3>2 DEF Watched
  <2>3. n \in Count(key)..(nonce_to_send - 1) \/ (Records(s, x) /\ n = nonce_to_send)
    BY <1>3, <1>4
  <2> QED BY <2>1, <2>2, <2>3
<1>6. Beyond'
  <2> SUFFICES ASSUME NEW u \in live, NEW e \in Held(u)', e.key = key
               PROVE  /\ injector.pc # "client" => e.nonce < nonce_to_send'
                      /\ \A v \in Sessions : sender'[v].update_nonce => e.nonce < Count(key)
    BY <1>2, <1>3 DEF Beyond
  <2>1. CASE e \in Held(u)
    <3>1. /\ injector.pc # "client" => e.nonce < nonce_to_send
          /\ \A v \in Sessions : sender[v].update_nonce => e.nonce < Count(key)
      BY <2>1 DEF IInv, Beyond
    <3>2. e.nonce \in Nat
      BY <1>2, <2>1, HeldEntries DEF IInv, Entries
    <3>3. x.update_nonce => \/ sender[s].update_nonce
                            \/ nonce_to_send < Count(key) /\ injector.pc # "client"
      BY SenderHas DEF SenderMove, Takes, GivesUp, GoesOn, Sends, Records, Idle
    <3>4. ASSUME NEW v \in Sessions, sender'[v].update_nonce PROVE e.nonce < Count(key)
      BY <1>1, <1>3, <3>1, <3>2, <3>3, <3>4
    <3>5. injector.pc # "client" => e.nonce < nonce_to_send'
      BY <1>3, <1>4, <3>1, <3>2
    <3> QED BY <3>4, <3>5
  <2>2. CASE Records(s, x) /\ e = Sending(s)
    <3>1. e.nonce = nonce_to_send /\ nonce_to_send' = nonce_to_send + 1
      BY <2>2, SenderHas DEF Records, Sending, Entry
    <3>2. \A v \in Sessions : sender'[v] = Idle
      BY <1>1, <2>2, SenderHas DEF Records
    <3>3. ~Idle.update_nonce
      BY DEF Idle
    <3> QED BY <1>3, <3>1, <3>2, <3>3
  <2> QED BY <1>1, <1>2, <2>1, <2>2
<1> QED BY <1>5, <1>6

\* What a session owns are entries.
LEMMA OwnedEntries ==
  ASSUME IInv, NEW s \in Sessions
  PROVE  Owned(s) \subseteq Entries
<1>1. Held(s) \subseteq Entries
  BY HeldEntries DEF IInv
<1>2. Sent(s) \subseteq Entries
  BY SenderHas DEF Sent, Entry, Entries
<1> QED BY <1>1, <1>2 DEF Owned

\* The nonce a sender is about to use is nobody's.
LEMMA NonceIsFree ==
  ASSUME IInv, NEW s \in Sessions, sender[s].pc = "send",
         NEW u \in live, NEW e \in Owned(u)
  PROVE  ~(e.key = sender[s].key /\ e.nonce = sender[s].nonce)
<1>1. sender[s].key = key /\ sender[s].nonce = nonce_to_send /\ injector.pc # "client"
  BY SenderHas
<1>2. u \in Sessions
  BY DEF IInv, Types
<1>3. Sent(u) = {}
  BY <1>2, SenderHas DEF Sent
<1>4. e \in Held(u) /\ e.nonce \in Nat
  BY <1>2, <1>3, OwnedEntries DEF Owned, Entries
<1>5. e.key = key => e.nonce < nonce_to_send
  BY <1>1, <1>4 DEF IInv, Beyond
<1> QED BY <1>1, <1>4, <1>5, SenderHas

\* Nobody's nonce is taken.
LEMMA SenderKeepsOwners ==
  ASSUME IInv, NEW s \in Sessions, NEW x \in SenderState, SenderMove(s, x)
  PROVE  Owners'
<1>1. \A u \in Sessions : Owned(u)' = Owned(u) \cup (IF u = s /\ Sends(s, x) THEN {Sending(s)} ELSE {})
  BY SenderHands
<1>2. /\ UNCHANGED <<mined, live, expired>> /\ live \subseteq Sessions
      /\ refused \subseteq refused' /\ s \in live
  BY DEF SenderMove, UnchangedBySender, IInv, Types, Takes, GivesUp, GoesOn, Sends, Records
<1>3. /\ UNCHANGED pool /\ ~Sends(s, x)
      \/ /\ sender[s].pc = "send" /\ sender[s].nonce >= Count(sender[s].key)
         /\ Accepted(sender[s].txn, sender[s].key, sender[s].nonce)
  BY DEF SenderMove, Takes, GivesUp, GoesOn, Sends, Records
<1>4. ASSUME sender[s].pc = "send"
      PROVE  /\ sender[s].txn \in Txns /\ sender[s].key \in Keys /\ sender[s].nonce \in Nat
             /\ Sending(s) \in Entries /\ Sending(s).txn = sender[s].txn
             /\ Sending(s).key = sender[s].key /\ Sending(s).nonce = sender[s].nonce
  BY <1>4, SenderHas DEF Sending, Entry, Entries
<1>5. ASSUME NEW u \in live, NEW v \in live, NEW e \in Owned(u)', NEW f \in Owned(v)',
             e.key = f.key, e.nonce = f.nonce
      PROVE  e = f
  <2>1. ASSUME NEW w \in live, NEW g \in Owned(w)'
        PROVE  g \in Owned(w) \/ (Sends(s, x) /\ g = Sending(s))
    BY <1>1, <1>2
  <2>2. Sends(s, x) => sender[s].pc = "send"
    BY DEF Sends
  <2>3. CASE e \in Owned(u) /\ f \in Owned(v)
    BY <1>5, <2>3 DEF IInv, Owners
  <2>4. CASE Sends(s, x) /\ e = Sending(s) /\ f \in Owned(v)
    BY <1>4, <1>5, <2>2, <2>4, NonceIsFree
  <2>5. CASE Sends(s, x) /\ f = Sending(s) /\ e \in Owned(u)
    BY <1>4, <1>5, <2>2, <2>5, NonceIsFree
  <2> QED BY <2>1, <2>3, <2>4, <2>5
<1>6. ASSUME NEW u \in live, NEW e \in Owned(u)', NEW y \in Txns \cup {Dummy},
             OnChain(y, e.key, e.nonce)'
      PROVE  y = e.txn \/ (y = Dummy /\ e.txn \in expired' \cup refused')
  <2>1. CASE e \in Owned(u)
    <3>1. e.key \in Keys /\ e.nonce \in Nat
      BY <1>2, <2>1, OwnedEntries DEF Entries
    <3>2. OnChain(y, e.key, e.nonce)
      <4>1. CASE UNCHANGED pool
        BY <1>2, <1>6, <3>1, <4>1, ChainKeeps DEF IInv
      <4>2. CASE /\ sender[s].pc = "send" /\ sender[s].nonce >= Count(sender[s].key)
                 /\ Accepted(sender[s].txn, sender[s].key, sender[s].nonce)
        <5>1. ~(e.key = sender[s].key /\ e.nonce = sender[s].nonce)
          BY <2>1, <4>2, NonceIsFree
        <5> QED BY <1>2, <1>4, <1>6, <3>1, <4>2, <5>1, ChainAccepts DEF IInv
      <4> QED BY <1>3, <4>1, <4>2
    <3> QED BY <1>2, <2>1, <3>2 DEF IInv, Owners
  <2>2. CASE Sends(s, x) /\ e = Sending(s)
    <3>1. /\ sender[s].pc = "send" /\ sender[s].nonce >= Count(sender[s].key)
          /\ Accepted(sender[s].txn, sender[s].key, sender[s].nonce)
      BY <2>2 DEF Sends
    <3>2. e.key = sender[s].key /\ e.nonce = sender[s].nonce /\ e.key \in Keys /\ e.nonce \in Nat
      BY <1>4, <2>2, <3>1
    <3>3. y = sender[s].txn
      BY <1>2, <1>4, <1>6, <3>1, <3>2, ChainAccepts DEF IInv
    <3> QED BY <1>4, <2>2, <3>1, <3>3
  <2> QED BY <1>1, <1>2, <2>1, <2>2
<1> QED BY <1>2, <1>5, <1>6 DEF Owners

\* A sender drops a transaction only after its deadline or when it is refused.
LEMMA SenderKeepsNotLost ==
  ASSUME IInv, NEW s \in Sessions, NEW x \in SenderState, SenderMove(s, x)
  PROVE  NotLost'
<1>1. /\ \A u \in Sessions : sender'[u] = IF u = s THEN x ELSE sender[u]
      /\ \A u \in Sessions : Held(u) \subseteq Held(u)'
      /\ Records(s, x) => Sending(s) \in Held(s)'
  BY SenderHands
<1>2. /\ UNCHANGED <<mined, live, expired, submitted>> /\ live \subseteq Sessions
      /\ refused \subseteq refused' /\ s \in live
  BY DEF SenderMove, UnchangedBySender, IInv, Types, Takes, GivesUp, GoesOn, Sends, Records
<1> SUFFICES ASSUME NEW t \in 1..submitted, InHand(t)
             PROVE  t \in expired' \cup refused' \/ InHand(t)'
  BY <1>2 DEF IInv, NotLost
<1>3. t # NoTxn /\ Idle.txn = NoTxn
  BY DEF NoTxn, Idle
<1>4. PICK u \in live : \/ t \in ToSet(queue[u])
                        \/ sender[u].txn = t
                        \/ \E e \in Held(u) : e.txn = t
  BY DEF InHand
<1>5. CASE t \in ToSet(queue[u])
  <2>1. CASE Takes(s, x) /\ u = s
    <3>1. ToSet(queue[s]) = {Head(queue[s])} \cup ToSet(queue'[s])
      BY <2>1, SetOfTail DEF Takes, IInv, Types
    <3>2. CASE t = Head(queue[s])
      <4>1. sender'[s].txn = t \/ t \in refused'
        BY <1>1, <2>1, <3>2 DEF Takes
      <4> QED BY <1>2, <4>1 DEF InHand
    <3>3. CASE t \in ToSet(queue'[s])
      BY <1>2, <3>3 DEF InHand
    <3> QED BY <1>5, <2>1, <3>1, <3>2, <3>3
  <2>2. CASE ~(Takes(s, x) /\ u = s)
    <3>1. queue'[u] = queue[u]
      BY <1>2, <2>2 DEF SenderMove, Takes, GivesUp, GoesOn, Sends, Records, IInv, Types
    <3> QED BY <1>2, <1>5, <3>1 DEF InHand
  <2> QED BY <2>1, <2>2
<1>6. CASE sender[u].txn = t
  <2>1. CASE u # s \/ x.txn = t
    <3>1. sender'[u].txn = t
      BY <1>1, <1>2, <1>6, <2>1
    <3> QED BY <1>2, <3>1 DEF InHand
  <2>2. CASE u = s /\ x.txn # t
    <3>1. sender[s].pc # "recv"
      BY <1>3, <1>6, <2>2, SenderHas
    <3>2. GivesUp(s, x) \/ Records(s, x)
      BY <1>6, <2>2, <3>1 DEF SenderMove, Takes, GoesOn, Sends
    <3>3. CASE Records(s, x)
      <4>1. Sending(s).txn = t
        BY <1>6, <2>2 DEF Sending, Entry
      <4> QED BY <1>1, <1>2, <3>3, <4>1 DEF InHand
    <3> QED BY <1>2, <1>6, <2>2, <3>2, <3>3 DEF GivesUp
  <2> QED BY <2>1, <2>2
<1>7. CASE \E e \in Held(u) : e.txn = t
  BY <1>1, <1>2, <1>7 DEF InHand
<1> QED BY <1>4, <1>5, <1>6, <1>7

\* A transaction is sent once.
LEMMA SenderKeepsOnePlace ==
  ASSUME IInv, NEW s \in Sessions, NEW x \in SenderState, SenderMove(s, x)
  PROVE  OnePlace'
<1> SUFFICES ASSUME lost' = 0, injected' = 0
             PROVE  /\ \A u \in live' : \A e \in Held(u)' : e.key = key'
                    /\ \A u, v \in Sessions : \A i \in DOMAIN queue'[u], j \in DOMAIN queue'[v] :
                         queue'[u][i] = queue'[v][j] => u = v /\ i = j
                    /\ \A u \in Sessions : \A i \in DOMAIN queue'[u] : \A t \in Txns : queue'[u][i] = t =>
                         t <= submitted' /\ Unsent(t)' /\ \A v \in Sessions : t # sender'[v].txn
                    /\ \A u \in Sessions : \A t \in Txns : sender'[u].txn = t =>
                         t <= submitted' /\ (sender'[u].pc \notin {"recv", "sent"} => Unsent(t)')
                    /\ \A t \in Txns, k, l \in Keys, m, n \in Nat :
                         /\ Placed(t, k, m)' => t <= submitted'
                         /\ Placed(t, k, m)' /\ Placed(t, l, n)' => k = l /\ m = n
  BY DEF OnePlace
<1>1. /\ \A u \in Sessions : sender'[u] = IF u = s THEN x ELSE sender[u]
      /\ \A u \in Sessions : Held(u)' = Held(u) \cup (IF u = s /\ Records(s, x) THEN {Sending(s)} ELSE {})
      /\ \A u \in Sessions : Owned(u)' = Owned(u) \cup (IF u = s /\ Sends(s, x) THEN {Sending(s)} ELSE {})
  BY SenderHands
<1>2. UNCHANGED <<key, mined, live, injected, submitted>> /\ live \subseteq Sessions /\ s \in live
  BY DEF SenderMove, UnchangedBySender, IInv, Types
<1>3. lost = 0 /\ injected = 0 /\ (UNCHANGED pool \/ Sends(s, x))
  BY <1>2 DEF SenderMove, Takes, GivesUp, GoesOn, Sends, Records, IInv, Types
<1>4. /\ \A u \in live : \A e \in Held(u) : e.key = key
      /\ \A u, v \in Sessions : \A i \in DOMAIN queue[u], j \in DOMAIN queue[v] :
           queue[u][i] = queue[v][j] => u = v /\ i = j
      /\ \A u \in Sessions : \A i \in DOMAIN queue[u] : \A t \in Txns : queue[u][i] = t =>
           t <= submitted /\ Unsent(t) /\ \A v \in Sessions : t # sender[v].txn
      /\ \A u \in Sessions : \A t \in Txns : sender[u].txn = t =>
           t <= submitted /\ (sender[u].pc \notin {"recv", "sent"} => Unsent(t))
      /\ \A t \in Txns, k, l \in Keys, m, n \in Nat :
           /\ Placed(t, k, m) => t <= submitted
           /\ Placed(t, k, m) /\ Placed(t, l, n) => k = l /\ m = n
  BY <1>3 DEF IInv, OnePlace
<1>5. ASSUME Sends(s, x)
      PROVE  /\ sender[s].pc = "send" /\ sender[s].txn \in Txns /\ sender[s].key = key /\ key \in Keys
             /\ sender[s].nonce \in Nat /\ sender[s].nonce >= Count(key)
             /\ Accepted(sender[s].txn, key, sender[s].nonce)
  BY <1>5, SenderHas DEF Sends
\* The only new place is the one of a transaction that had none.
<1>6. ASSUME NEW t \in Txns, NEW k \in Keys, NEW n \in Nat, Placed(t, k, n)'
      PROVE  \/ Placed(t, k, n)
             \/ Sends(s, x) /\ t = sender[s].txn /\ k = sender[s].key /\ n = sender[s].nonce
  <2>1. CASE OnChain(t, k, n)'
    <3>1. CASE UNCHANGED pool
      BY <1>2, <2>1, <3>1, ChainKeeps DEF IInv, Placed
    <3>2. CASE Sends(s, x)
      <4>1. (t = sender[s].txn /\ k = key /\ n = sender[s].nonce) \/ OnChain(t, k, n)
        BY <1>2, <1>5, <2>1, <3>2, ChainAccepts DEF IInv
      <4> QED BY <1>5, <3>2, <4>1 DEF Placed
    <3> QED BY <1>3, <3>1, <3>2
  <2>2. CASE \E u \in live : Entry(t, k, n) \in Owned(u)'
    <3>1. PICK u \in live : Entry(t, k, n) \in Owned(u)'
      BY <2>2
    <3>2. CASE Entry(t, k, n) \in Owned(u)
      BY <3>2 DEF Placed
    <3>3. CASE Sends(s, x) /\ Entry(t, k, n) = Sending(s)
      BY <3>3 DEF Entry, Sending
    <3> QED BY <1>1, <1>2, <3>1, <3>2, <3>3
  <2> QED BY <1>2, <1>6, <2>1, <2>2 DEF Placed
<1>7. ASSUME NEW t \in Txns, Unsent(t), ~(Sends(s, x) /\ t = sender[s].txn)
      PROVE  Unsent(t)'
  BY <1>6, <1>7 DEF Unsent
\* A channel only loses its head.
<1>8. ASSUME NEW u \in Sessions, NEW i \in DOMAIN queue'[u]
      PROVE  LET j == IF Takes(s, x) /\ u = s THEN i + 1 ELSE i
             IN  j \in DOMAIN queue[u] /\ queue'[u][i] = queue[u][j] /\ i \in Nat \ {0}
  <2>1. CASE Takes(s, x) /\ u = s
    <3>1. queue'[s] = Tail(queue[s]) /\ queue[s] \in Seq(Txns) /\ queue[s] # <<>>
      BY <2>1 DEF Takes, IInv, Types
    <3>2. DOMAIN Tail(queue[s]) = 1..(Len(queue[s]) - 1)
          /\ \A k \in DOMAIN Tail(queue[s]) : k + 1 \in DOMAIN queue[s] /\ Tail(queue[s])[k] = queue[s][k + 1]
      BY <3>1, SetOfTail
    <3> QED BY <1>8, <2>1, <3>1, <3>2
  <2>2. CASE ~(Takes(s, x) /\ u = s)
    <3>1. queue'[u] = queue[u] /\ queue[u] \in Seq(Txns)
      BY <2>2 DEF SenderMove, Takes, GivesUp, GoesOn, Sends, Records, IInv, Types
    <3> QED BY <1>8, <2>2, <3>1
  <2> QED BY <2>1, <2>2
<1>9. ASSUME Takes(s, x)
      PROVE  /\ sender[s].pc = "recv" /\ ~Sends(s, x)
             /\ 1 \in DOMAIN queue[s] /\ queue[s][1] \in Txns /\ Head(queue[s]) = queue[s][1]
             /\ x = Idle \/ x.txn = queue[s][1]
  <2>1. queue[s] \in Seq(Txns) /\ queue[s] # <<>>
    BY <1>9 DEF Takes, IInv, Types
  <2>2. 1 \in DOMAIN queue[s] /\ queue[s][1] \in Txns /\ Head(queue[s]) = queue[s][1]
    BY <2>1
  <2> QED BY <1>9, <2>2 DEF Takes, Sends
<1>10. Idle.txn \notin Txns /\ Idle.pc = "recv"
  BY BoundsAssumption DEF Idle, NoTxn, Txns
<1>11. \A u \in live' : \A e \in Held(u)' : e.key = key'
  <2>1. Records(s, x) => Sending(s).key = key
    BY SenderHas DEF Records, Sending, Entry
  <2> QED BY <1>1, <1>2, <1>4, <2>1
<1>12. ASSUME NEW u \in Sessions, NEW v \in Sessions, NEW i \in DOMAIN queue'[u],
              NEW j \in DOMAIN queue'[v], queue'[u][i] = queue'[v][j]
       PROVE  u = v /\ i = j
  BY <1>4, <1>8, <1>12
<1>13. ASSUME NEW u \in Sessions, NEW i \in DOMAIN queue'[u], NEW t \in Txns, queue'[u][i] = t
       PROVE  t <= submitted' /\ Unsent(t)' /\ \A v \in Sessions : t # sender'[v].txn
  <2>1. PICK j \in DOMAIN queue[u] : /\ queue[u][j] = t
                                     /\ Takes(s, x) => ~(u = s /\ j = 1)
    BY <1>8, <1>13
  <2>2. t <= submitted /\ Unsent(t) /\ \A v \in Sessions : t # sender[v].txn
    BY <1>4, <2>1
  <2>3. Unsent(t)'
    BY <1>7, <2>2
  <2>4. t # x.txn
    <3>1. CASE Takes(s, x)
      <4>1. t # queue[s][1]
        BY <1>4, <1>9, <2>1, <3>1
      <4> QED BY <1>9, <1>10, <3>1, <4>1
    <3>2. CASE ~Takes(s, x)
      BY <1>10, <2>2, <3>2 DEF SenderMove, GivesUp, GoesOn, Sends, Records
    <3> QED BY <3>1, <3>2
  <2> QED BY <1>1, <1>2, <2>2, <2>3, <2>4
<1>14. ASSUME NEW u \in Sessions, NEW t \in Txns, sender'[u].txn = t
       PROVE  t <= submitted' /\ (sender'[u].pc \notin {"recv", "sent"} => Unsent(t)')
  <2>1. CASE u # s
    <3>1. sender'[u] = sender[u]
      BY <1>1, <2>1
    <3>2. sender[u].pc # "recv" => ~Sends(s, x)
      BY <2>1, SenderHas DEF Sends
    <3> QED BY <1>2, <1>4, <1>7, <1>14, <3>1, <3>2
  <2>2. CASE u = s /\ Takes(s, x)
    <3>1. t = queue[s][1]
      BY <1>1, <1>9, <1>10, <1>14, <2>2
    <3>2. t <= submitted /\ Unsent(t)
      BY <1>4, <1>9, <2>2, <3>1
    <3> QED BY <1>2, <1>7, <1>9, <2>2, <3>2
  <2>3. CASE u = s /\ ~Takes(s, x)
    <3>1. x.txn = t /\ sender'[u] = x
      BY <1>1, <1>14, <2>3
    <3>2. sender[s].txn = t /\ (x.pc \in {"recv", "sent"} \/ (~Sends(s, x) /\ sender[s].pc \notin {"recv", "sent"}))
      BY <1>10, <2>3, <3>1 DEF SenderMove, GivesUp, GoesOn, Sends, Records
    <3> QED BY <1>2, <1>4, <1>7, <3>1, <3>2
  <2> QED BY <2>1, <2>2, <2>3
<1>15. ASSUME NEW t \in Txns, NEW k \in Keys, NEW l \in Keys, NEW m \in Nat, NEW n \in Nat
       PROVE  /\ Placed(t, k, m)' => t <= submitted'
              /\ Placed(t, k, m)' /\ Placed(t, l, n)' => k = l /\ m = n
  <2>1. ASSUME Sends(s, x), t = sender[s].txn
        PROVE  t <= submitted /\ ~Placed(t, k, m) /\ ~Placed(t, l, n)
    BY <1>4, <1>5, <2>1 DEF Unsent
  <2> QED BY <1>2, <1>4, <1>6, <2>1
<1> QED BY <1>11, <1>12, <1>13, <1>14, <1>15

\* The steps of a sender keep the invariant.
LEMMA SenderKeeps ==
  ASSUME IInv, ~Overlapping', NEW s \in Sessions, SenderStep(s)
  PROVE  IInv'
<1>1. PICK x \in SenderState : SenderMove(s, x)
  BY SenderMoves DEF IInv
<1> QED BY <1>1, SenderTypes, SenderKeepsCurrent, SenderKeepsNonces, SenderKeepsOwners,
           SenderKeepsNotLost, SenderKeepsOnePlace DEF IInv

-----------------------------------------------------------------------------
(* What the steps of a resender preserve                                   *)

\* A step that hands nothing over and uses no new nonce leaves every transaction its place.
LEMMA PlacesKept ==
  ASSUME OnePlace,
         lost' = 0 /\ injected' = 0 =>
           /\ lost = 0 /\ injected = 0 /\ UNCHANGED <<queue, sender, submitted>>
           /\ \A s \in live' : \A e \in Held(s)' : e.key = key'
           /\ \A t \in Txns, k \in Keys, n \in Nat : Placed(t, k, n)' => Placed(t, k, n)
  PROVE  OnePlace'
<1> SUFFICES ASSUME lost' = 0, injected' = 0
             PROVE  /\ \A s, u \in Sessions : \A i \in DOMAIN queue[s], j \in DOMAIN queue[u] :
                         queue[s][i] = queue[u][j] => s = u /\ i = j
                    /\ \A s \in Sessions : \A i \in DOMAIN queue[s] : \A t \in Txns : queue[s][i] = t =>
                         t <= submitted /\ Unsent(t)' /\ \A u \in Sessions : t # sender[u].txn
                    /\ \A s \in Sessions : \A t \in Txns : sender[s].txn = t =>
                         t <= submitted /\ (sender[s].pc \notin {"recv", "sent"} => Unsent(t)')
                    /\ \A t \in Txns, k, l \in Keys, m, n \in Nat :
                         /\ Placed(t, k, m)' => t <= submitted
                         /\ Placed(t, k, m)' /\ Placed(t, l, n)' => k = l /\ m = n
  BY DEF OnePlace
<1>1. \A t \in Txns : Unsent(t) => Unsent(t)'
  BY DEF Unsent
<1> QED BY <1>1 DEF OnePlace

\* A resender takes nothing over.
LEMMA ResenderOwns ==
  ASSUME IInv, NEW s \in Sessions, ResenderMove(s)
  PROVE  \A u \in Sessions : Held(u)' \subseteq Held(u) /\ Owned(u)' \subseteq Owned(u)
<1>1. UNCHANGED sender
  BY DEF ResenderMove, UnchangedByResender
<1>2. ASSUME NEW u \in Sessions PROVE Held(u)' \subseteq Held(u)
  BY DEF ResenderMove
<1>3. ASSUME NEW u \in Sessions PROVE Sent(u)' = Sent(u)
  BY <1>1 DEF Sent, Entry
<1> QED BY <1>2, <1>3 DEF Owned

\* An entry is let go only when its nonce is mined or its key is replaced.
LEMMA ResenderKeepsNonces ==
  ASSUME IInv, NEW s \in Sessions, ResenderMove(s)
  PROVE  Current' /\ InjectionFresh' /\ NoncesWatched' /\ Beyond'
<1>1. UNCHANGED <<key, nonce_to_send, sender, injector, registered, live, mined, injected>>
  BY DEF ResenderMove, UnchangedByResender
<1>2. Current'
  BY <1>1 DEF IInv, Current, HasClient
<1>3. InjectionFresh'
  BY <1>1 DEF IInv, InjectionFresh, Count
<1>4. live \subseteq Sessions /\ Count(key)' = Count(key) /\ Count(key) \in Nat /\ nonce_to_send \in Nat
  BY <1>1 DEF IInv, Types, Count
<1>5. NoncesWatched'
  <2> SUFFICES ASSUME registered, injector.pc # "client", NEW n \in Count(key)..(nonce_to_send - 1)
               PROVE  Watched(key, n)'
    BY <1>1, <1>4 DEF NoncesWatched
  <2>1. PICK u \in live : \E e \in Held(u) : e.key = key /\ e.nonce = n
    BY DEF IInv, NoncesWatched, Watched
  <2>2. PICK e \in Held(u) : e.key = key /\ e.nonce = n
    BY <2>1
  <2>3. e \in Held(u)'
    <3>1. CASE u = s
      BY <1>4, <2>2, <3>1 DEF ResenderMove, LetsGo
    <3>2. CASE u # s
      BY <1>4, <3>2 DEF ResenderMove
    <3> QED BY <3>1, <3>2
  <2> QED BY <1>1, <2>2, <2>3 DEF Watched
<1>6. Beyond'
  BY <1>1, <1>4, ResenderOwns DEF IInv, Beyond
<1> QED BY <1>2, <1>3, <1>5, <1>6

\* What a resender sends goes to a nonce it owns.
LEMMA ResenderSends ==
  ASSUME IInv, NEW s \in Sessions, ResenderMove(s),
         NEW y \in Txns \cup {Dummy}, NEW k \in Keys, NEW n \in Nat, OnChain(y, k, n)'
  PROVE  \/ OnChain(y, k, n)
         \/ \E e \in Owned(s) : /\ e \in Entries /\ e.key = k /\ e.nonce = n
                                /\ y = e.txn \/ (y = Dummy /\ e.txn \in expired' \cup refused')
<1>1. UNCHANGED <<mined, expired>> /\ Types
  BY DEF ResenderMove, UnchangedByResender, IInv
<1>2. CASE UNCHANGED pool
  BY <1>1, <1>2, ChainKeeps
<1>3. CASE \E e \in Held(s)' : \E x \in {e.txn, Dummy} :
              /\ e.nonce >= Count(e.key) /\ Accepted(x, e.key, e.nonce)
              /\ x = Dummy => e.txn \in expired \cup refused'
  <2>1. PICK e \in Held(s)' : \E x \in {e.txn, Dummy} :
              /\ e.nonce >= Count(e.key) /\ Accepted(x, e.key, e.nonce)
              /\ x = Dummy => e.txn \in expired \cup refused'
    BY <1>3
  <2>2. PICK x \in {e.txn, Dummy} :
              /\ e.nonce >= Count(e.key) /\ Accepted(x, e.key, e.nonce)
              /\ x = Dummy => e.txn \in expired \cup refused'
    BY <2>1
  <2>3. e \in Owned(s) /\ e \in Entries
    BY ResenderOwns, OwnedEntries DEF Owned
  <2>4. e.txn \in Txns /\ e.key \in Keys /\ e.nonce \in Nat /\ x \in Txns \cup {Dummy}
    BY <2>3 DEF Entries
  <2>5. (y = x /\ k = e.key /\ n = e.nonce) \/ OnChain(y, k, n)
    BY <1>1, <2>2, <2>4, ChainAccepts
  <2> QED BY <1>1, <2>2, <2>3, <2>5
<1> QED BY <1>2, <1>3 DEF ResenderMove

\* Nobody's nonce is taken.
LEMMA ResenderKeepsOwners ==
  ASSUME IInv, NEW s \in Sessions, ResenderMove(s)
  PROVE  Owners'
<1>1. /\ UNCHANGED <<live, expired>> /\ live \subseteq Sessions /\ s \in live
      /\ refused \subseteq refused'
  BY DEF ResenderMove, UnchangedByResender, IInv, Types
<1>2. ASSUME NEW u \in live, NEW v \in live, NEW e \in Owned(u)', NEW f \in Owned(v)',
             e.key = f.key, e.nonce = f.nonce
      PROVE  e = f
  BY <1>1, <1>2, ResenderOwns DEF IInv, Owners
<1>3. ASSUME NEW u \in live, NEW e \in Owned(u)', NEW y \in Txns \cup {Dummy},
             OnChain(y, e.key, e.nonce)'
      PROVE  y = e.txn \/ (y = Dummy /\ e.txn \in expired' \cup refused')
  <2>1. e \in Owned(u) /\ e.key \in Keys /\ e.nonce \in Nat
    BY <1>1, ResenderOwns, OwnedEntries DEF Entries
  <2>2. CASE OnChain(y, e.key, e.nonce)
    BY <1>1, <2>1, <2>2 DEF IInv, Owners
  <2>3. CASE \E f \in Owned(s) : /\ f \in Entries /\ f.key = e.key /\ f.nonce = e.nonce
                                 /\ y = f.txn \/ (y = Dummy /\ f.txn \in expired' \cup refused')
    <3>1. PICK f \in Owned(s) : /\ f.key = e.key /\ f.nonce = e.nonce
                                /\ y = f.txn \/ (y = Dummy /\ f.txn \in expired' \cup refused')
      BY <2>3
    <3>2. e = f
      BY <1>1, <2>1, <3>1 DEF IInv, Owners
    <3> QED BY <3>1, <3>2
  <2> QED BY <1>3, <2>1, <2>2, <2>3, ResenderSends
<1> QED BY <1>1, <1>2, <1>3 DEF Owners

\* An entry that is let go is mined, given up, or handed back.
LEMMA ResenderKeepsNotLost ==
  ASSUME IInv, NEW s \in Sessions, ResenderMove(s)
  PROVE  NotLost'
<1>1. /\ UNCHANGED <<key, mined, live, expired, submitted, sender>> /\ live \subseteq Sessions
      /\ refused \subseteq refused' /\ s \in live
  BY DEF ResenderMove, UnchangedByResender, IInv, Types
<1>2. \A u \in Sessions : ToSet(queue[u]) \subseteq ToSet(queue'[u])
  <2>1. CASE UNCHANGED queue
    BY <2>1
  <2>2. CASE \E e \in Held(s) : key # e.key /\ queue' = [queue EXCEPT ![s] = Append(@, e.txn)]
    <3>1. PICK e \in Held(s) : queue' = [queue EXCEPT ![s] = Append(@, e.txn)]
      BY <2>2
    <3>2. e.txn \in Txns
      BY <3>1, HeldEntries DEF IInv, Entries
    <3>3. ToSet(Append(queue[s], e.txn)) = ToSet(queue[s]) \cup {e.txn}
      BY <3>2, SetOfAppend DEF IInv, Types
    <3>4. \A u \in Sessions : queue'[u] = IF u = s THEN Append(queue[s], e.txn) ELSE queue[u]
      BY <3>1 DEF IInv, Types
    <3> QED BY <3>3, <3>4
  <2> QED BY <2>1, <2>2 DEF ResenderMove
<1> SUFFICES ASSUME NEW t \in 1..submitted, InHand(t)
             PROVE  \/ t \in expired' \cup refused'
                    \/ \E k \in Keys : t \in ToSet(mined[k])
                    \/ InHand(t)'
  BY <1>1 DEF IInv, NotLost
<1>3. PICK u \in live : \/ t \in ToSet(queue[u])
                        \/ sender[u].txn = t
                        \/ \E e \in Held(u) : e.txn = t
  BY DEF InHand
<1>4. CASE t \in ToSet(queue[u]) \/ sender[u].txn = t
  BY <1>1, <1>2, <1>4 DEF InHand
<1>5. CASE \E e \in Held(u) : e.txn = t
  <2>1. PICK e \in Held(u) : e.txn = t
    BY <1>5
  <2>2. CASE e \in Held(u)'
    BY <1>1, <2>1, <2>2 DEF InHand
  <2>3. CASE u = s /\ LetsGo(s, e)
    <3>1. CASE e.nonce < Count(e.key)
      <4>1. e \in Owned(u) /\ e.key \in Keys /\ e.nonce \in Nat
        BY <1>1, <2>1, OwnedEntries DEF Owned, Entries
      <4> DEFINE y == mined[e.key][e.nonce + 1]
      <4>2. /\ mined[e.key] \in Seq(Txns \cup {Dummy}) /\ e.nonce + 1 \in 1..Len(mined[e.key])
            /\ DOMAIN mined[e.key] = 1..Len(mined[e.key])
        BY <3>1, <4>1 DEF IInv, Types, Count
      <4>3. y \in Txns \cup {Dummy} /\ y \in ToSet(mined[e.key])
        BY <4>2 DEF ToSet
      <4>4. OnChain(y, e.key, e.nonce)
        BY <3>1 DEF OnChain
      <4> HIDE DEF y
      <4>5. y = t \/ t \in expired \cup refused
        BY <2>1, <4>1, <4>3, <4>4 DEF IInv, Owners
      <4> QED BY <1>1, <4>1, <4>3, <4>5
    <3>2. CASE e.txn \in expired \cup refused \/ e.txn \in ToSet(queue'[s])
      BY <1>1, <2>1, <3>2 DEF InHand
    <3> QED BY <2>3, <3>1, <3>2 DEF LetsGo
  <2> QED BY <1>1, <2>1, <2>2, <2>3 DEF ResenderMove
<1> QED BY <1>3, <1>4, <1>5

\* A transaction is replaced at its own nonce.
LEMMA ResenderKeepsOnePlace ==
  ASSUME IInv, NEW s \in Sessions, ResenderMove(s)
  PROVE  OnePlace'
<1>1. /\ UNCHANGED <<key, mined, live, submitted, sender, injected>> /\ live \subseteq Sessions
      /\ s \in live
  BY DEF ResenderMove, UnchangedByResender, IInv, Types
<1> SUFFICES ASSUME lost' = 0, injected' = 0
             PROVE  /\ lost = 0 /\ injected = 0 /\ UNCHANGED <<queue, sender, submitted>>
                    /\ \A u \in live' : \A e \in Held(u)' : e.key = key'
                    /\ \A t \in Txns, k \in Keys, n \in Nat : Placed(t, k, n)' => Placed(t, k, n)
  BY PlacesKept DEF IInv
<1>2. lost = 0 /\ injected = 0
  BY <1>1 DEF ResenderMove, IInv, Types
<1>3. \A u \in live : \A e \in Held(u) : e.key = key
  BY <1>2 DEF IInv, OnePlace
<1>4. UNCHANGED queue
  BY <1>1, <1>3 DEF ResenderMove
<1>5. \A u \in live' : \A e \in Held(u)' : e.key = key'
  BY <1>1, <1>3, ResenderOwns
<1>6. ASSUME NEW t \in Txns, NEW k \in Keys, NEW n \in Nat, Placed(t, k, n)'
      PROVE  Placed(t, k, n)
  <2>1. CASE \E u \in live : Entry(t, k, n) \in Owned(u)'
    BY <1>1, <2>1, ResenderOwns DEF Placed
  <2>2. CASE OnChain(t, k, n)'
    <3>1. CASE OnChain(t, k, n)
      BY <3>1 DEF Placed
    <3>2. CASE \E e \in Owned(s) : /\ e \in Entries /\ e.key = k /\ e.nonce = n
                                   /\ t = e.txn \/ (t = Dummy /\ e.txn \in expired' \cup refused')
      <4>1. t # Dummy
        BY BoundsAssumption DEF Txns, Dummy
      <4>2. PICK e \in Owned(s) : e \in Entries /\ e.key = k /\ e.nonce = n /\ e.txn = t
        BY <3>2, <4>1
      <4>3. e = Entry(t, k, n)
        BY <4>2 DEF Entry, Entries
      <4> QED BY <1>1, <4>2, <4>3 DEF Placed
    <3> QED BY <2>2, <3>1, <3>2, ResenderSends
  <2> QED BY <1>1, <1>6, <2>1, <2>2 DEF Placed
<1> QED BY <1>1, <1>2, <1>4, <1>5, <1>6

\* The steps of a resender keep the invariant.
LEMMA ResenderKeeps ==
  ASSUME IInv, ~Overlapping', NEW s \in Sessions, ResenderStep(s)
  PROVE  IInv'
<1>1. ResenderMove(s) /\ Types' /\ Hands'
  BY ResenderMoves DEF IInv
<1> QED BY <1>1, ResenderKeepsNonces, ResenderKeepsOwners, ResenderKeepsNotLost,
           ResenderKeepsOnePlace DEF IInv

-----------------------------------------------------------------------------
(* What the other steps preserve                                           *)

\* What a session holds and owns is in its deque and with its two tasks.
LEMMA SameHands ==
  ASSUME UNCHANGED <<sender, pending, resender>>
  PROVE  \A u \in Sessions : Held(u)' = Held(u) /\ Owned(u)' = Owned(u)
<1>1. ASSUME NEW u \in Sessions PROVE Held(u)' = Held(u) /\ Sent(u)' = Sent(u)
  BY DEF Held, Sent, Entry
<1> QED BY <1>1 DEF Owned

\* Mining, a transaction that leaves the pool, a deadline, a deregistration.
LEMMA OutsideKeeps ==
  ASSUME IInv, ~Overlapping',
         UNCHANGED <<key, nonce_to_send, sessionVars, injector, live, submitted, refused, lost, injected>>,
         registered' \in BOOLEAN, registered' => registered,
         expired \subseteq expired', expired' \subseteq Txns,
         mined' \in [Keys -> Seq(Txns \cup {Dummy})], pool' \subseteq pool,
         \A l \in Keys : Count(l)' \in Nat /\ Count(l)' >= Count(l),
         \A l \in Keys : ToSet(mined[l]) \subseteq ToSet(mined'[l]),
         \A x \in Txns \cup {Dummy}, l \in Keys, m \in Nat : OnChain(x, l, m)' => OnChain(x, l, m)
  PROVE  IInv'
<1>1. /\ Types /\ Hands /\ Current /\ InjectionFresh /\ NoncesWatched /\ Beyond /\ Owners
      /\ NotLost /\ OnePlace
  BY DEF IInv
<1>2. UNCHANGED <<queue, sender, pending, resender>>
  BY DEF sessionVars
<1>3. /\ \A u \in Sessions : Held(u)' = Held(u) /\ Owned(u)' = Owned(u)
      /\ \A u \in Sessions : Owned(u) \subseteq Entries
  BY <1>2, SameHands, OwnedEntries
<1>4. Types'
  BY <1>1, <1>2 DEF Types
<1>5. Hands'
  BY <1>1, <1>2 DEF Hands
<1>6. Current'
  BY <1>1, <1>2 DEF Current, HasClient
<1>7. live \subseteq Sessions /\ key \in Keys /\ nonce_to_send \in Nat /\ \A l \in Keys : Count(l) \in Nat
  BY <1>1 DEF Types, Count
<1>8. Count(key)' \in Nat /\ Count(key)' >= Count(key)
  BY <1>7
<1>9. InjectionFresh'
  <2>1. injector.pc # "idle" => injector.key \in Keys /\ injector.nonce <= Count(injector.key)
                                /\ injector.nonce \in Nat
    BY <1>1 DEF InjectionFresh, Types, Injecting
  <2>2. injector.key \in Keys => /\ Count(injector.key)' >= Count(injector.key)
                                 /\ Count(injector.key)' \in Nat /\ Count(injector.key) \in Nat
    BY <1>7
  <2>3. injector.pc # "idle" => injector.nonce <= Count(injector.key)'
    BY <2>1, <2>2
  <2> QED BY <1>1, <2>1, <2>3 DEF InjectionFresh
<1>10. NoncesWatched'
  <2> SUFFICES ASSUME registered, injector.pc # "client", NEW n \in Count(key)'..(nonce_to_send - 1)
               PROVE  Watched(key, n)'
    BY DEF NoncesWatched
  <2>1. n \in Count(key)..(nonce_to_send - 1)
    BY <1>7, <1>8
  <2>2. Watched(key, n)
    BY <1>1, <2>1 DEF NoncesWatched
  <2> QED BY <1>3, <1>7, <2>2 DEF Watched
<1>11. Beyond'
  <2> SUFFICES ASSUME NEW u \in live, NEW e \in Held(u)', e.key = key
               PROVE  /\ injector.pc # "client" => e.nonce < nonce_to_send
                      /\ \A v \in Sessions : sender[v].update_nonce => e.nonce < Count(key)'
    BY <1>2 DEF Beyond
  <2>1. e \in Held(u) /\ e.nonce \in Nat
    BY <1>3, <1>7 DEF Owned, Entries
  <2>2. /\ injector.pc # "client" => e.nonce < nonce_to_send
        /\ \A v \in Sessions : sender[v].update_nonce => e.nonce < Count(key)
    BY <1>1, <2>1 DEF Beyond
  <2> QED BY <1>7, <1>8, <2>1, <2>2
<1>12. Owners'
  <2>1. ASSUME NEW u \in live, NEW e \in Owned(u)', NEW y \in Txns \cup {Dummy},
               OnChain(y, e.key, e.nonce)'
        PROVE  y = e.txn \/ (y = Dummy /\ e.txn \in expired' \cup refused')
    <3>1. e \in Owned(u) /\ e.key \in Keys /\ e.nonce \in Nat
      BY <1>3, <1>7 DEF Entries
    <3>2. OnChain(y, e.key, e.nonce)
      BY <2>1, <3>1
    <3> QED BY <1>1, <3>1, <3>2 DEF Owners
  <2>2. ASSUME NEW u \in live, NEW v \in live, NEW e \in Owned(u)', NEW f \in Owned(v)',
               e.key = f.key, e.nonce = f.nonce
        PROVE  e = f
    BY <1>1, <1>3, <1>7, <2>2 DEF Owners
  <2> QED BY <2>1, <2>2 DEF Owners
<1>13. NotLost'
  <2>1. \A t \in 1..submitted : InHand(t) => InHand(t)'
    BY <1>2, <1>3, <1>7 DEF InHand
  <2> QED BY <1>1, <2>1 DEF NotLost
<1>14. OnePlace'
  <2>1. ASSUME NEW t \in Txns, NEW k \in Keys, NEW n \in Nat, Placed(t, k, n)'
        PROVE  Placed(t, k, n)
    BY <1>3, <1>7, <2>1 DEF Placed
  <2>2. lost = 0 /\ injected = 0 => \A u \in live : \A e \in Held(u)' : e.key = key
    BY <1>1, <1>3, <1>7 DEF OnePlace
  <2> QED BY <1>1, <1>2, <2>1, <2>2, PlacesKept
<1> QED BY <1>4, <1>5, <1>6, <1>9, <1>10, <1>11, <1>12, <1>13, <1>14 DEF IInv

\* The steps of the chain and of time, and a deregistration, keep the invariant.
LEMMA ChainAndTimeKeep ==
  ASSUME IInv, ~Overlapping',
         \/ \E k \in Keys : Mine(k)
         \/ DropFromPool
         \/ \E t \in Txns : Expire(t)
         \/ Deregister
         \/ UNCHANGED vars
  PROVE  IInv'
<1>1. Types /\ registered \in BOOLEAN /\ expired \subseteq Txns /\ mined \in [Keys -> Seq(Txns \cup {Dummy})]
  BY DEF IInv, Types
<1>2. CASE \E k \in Keys : Mine(k)
  <2>1. PICK k \in Keys : Mine(k)
    BY <1>2
  <2>2. UNCHANGED <<key, nonce_to_send, sessionVars, injector, registered, live, expired, submitted,
                    refused, lost, injected>>
    BY <2>1 DEF Mine
  <2>3. /\ mined' \in [Keys -> Seq(Txns \cup {Dummy})] /\ pool' \subseteq pool
        /\ \A l \in Keys : Count(l) \in Nat /\ Count(l)' \in Nat /\ Count(l)' >= Count(l)
        /\ \A l \in Keys : ToSet(mined[l]) \subseteq ToSet(mined'[l])
        /\ \A x \in Txns \cup {Dummy}, l \in Keys, m \in Nat : OnChain(x, l, m)' => OnChain(x, l, m)
    BY <1>1, <2>1, ChainMines
  <2> QED BY <1>1, <2>2, <2>3, OutsideKeeps
<1>3. ASSUME UNCHANGED mined, pool' \subseteq pool,
             UNCHANGED <<key, nonce_to_send, sessionVars, injector, live, submitted, refused, lost, injected>>,
             registered' \in BOOLEAN, registered' => registered,
             expired \subseteq expired', expired' \subseteq Txns
      PROVE  IInv'
  <2>1. \A l \in Keys : Count(l)' \in Nat /\ Count(l)' >= Count(l)
    BY <1>1, <1>3 DEF Count
  <2>2. \A x \in Txns \cup {Dummy}, l \in Keys, m \in Nat : OnChain(x, l, m)' => OnChain(x, l, m)
    BY <1>1, <1>3, ChainKeeps
  <2> QED BY <1>1, <1>3, <2>1, <2>2, OutsideKeeps
<1>4. CASE DropFromPool
  <2>1. /\ UNCHANGED <<mined, key, nonce_to_send, sessionVars, injector, registered, live, expired,
                       submitted, refused, lost, injected>>
        /\ pool' \subseteq pool
    BY <1>4 DEF DropFromPool
  <2> QED BY <1>1, <1>3, <2>1
<1>5. CASE \E t \in Txns : Expire(t)
  <2>1. /\ UNCHANGED <<mined, pool, key, nonce_to_send, sessionVars, injector, registered, live,
                       submitted, refused, lost, injected>>
        /\ \E t \in Txns : expired' = expired \cup {t}
    BY <1>5 DEF Expire, chainVars
  <2>2. expired \subseteq expired' /\ expired' \subseteq Txns
    BY <1>1, <2>1
  <2> QED BY <1>1, <1>3, <2>1, <2>2
<1>6. CASE Deregister
  <2>1. /\ UNCHANGED <<mined, pool, key, nonce_to_send, sessionVars, injector, live, expired,
                       submitted, refused, lost, injected>>
        /\ registered' = FALSE
    BY <1>6 DEF Deregister, chainVars
  <2> QED BY <1>1, <1>3, <2>1
<1>7. CASE UNCHANGED vars
  <2>1. UNCHANGED <<mined, pool, key, nonce_to_send, sessionVars, injector, registered, live, expired,
                    submitted, refused, lost, injected>>
    BY <1>7 DEF vars, sessionVars
  <2> QED BY <1>1, <1>3, <2>1
<1> QED BY <1>2, <1>4, <1>5, <1>6, <1>7

\* A transaction is handed over under a new number.
LEMMA SubmitKeeps ==
  ASSUME IInv, ~Overlapping', NEW s \in Sessions, Submit(s)
  PROVE  IInv'
<1> DEFINE new == submitted + 1
<1>1. /\ Types /\ Hands /\ Current /\ InjectionFresh /\ NoncesWatched /\ Beyond /\ Owners
      /\ NotLost /\ OnePlace
  BY DEF IInv
<1>2. /\ UNCHANGED <<key, nonce_to_send, sender, pending, resender, injector, registered, live,
                     mined, pool, expired, refused, lost, injected>>
      /\ submitted' = new /\ s \in live /\ queue' = [queue EXCEPT ![s] = Append(@, new)]
  BY DEF Submit, chainVars
<1>3. new \in Txns /\ new \in 0..MaxTxns /\ submitted \in Nat
  BY <1>1, BoundsAssumption DEF Submit, Types, Txns
<1> HIDE DEF new
<1>4. /\ \A u \in Sessions : Held(u)' = Held(u) /\ Owned(u)' = Owned(u)
      /\ live \subseteq Sessions
  BY <1>1, <1>2, SameHands DEF Types
<1>5. /\ Append(queue[s], new) \in Seq(Txns)
      /\ ToSet(Append(queue[s], new)) = ToSet(queue[s]) \cup {new}
  BY <1>1, <1>3, SetOfAppend DEF Types
<1>6. /\ queue' \in [Sessions -> Seq(Txns)]
      /\ \A u \in Sessions : queue'[u] = IF u = s THEN Append(queue[s], new) ELSE queue[u]
  BY <1>1, <1>2, <1>5 DEF Types
<1>7. Types'
  BY <1>1, <1>2, <1>3, <1>6 DEF Types
<1>8. Hands'
  BY <1>1, <1>2, <1>6 DEF Hands
<1>9. Current' /\ InjectionFresh'
  BY <1>1, <1>2 DEF Current, HasClient, InjectionFresh, Count
<1>10. NoncesWatched'
  BY <1>1, <1>2, <1>4 DEF NoncesWatched, Watched, Count
<1>11. Beyond'
  BY <1>1, <1>2, <1>4 DEF Beyond, Count
<1>12. ASSUME NEW x \in Txns \cup {Dummy}, NEW k \in Keys, NEW n \in Nat, OnChain(x, k, n)'
       PROVE  OnChain(x, k, n)
  BY <1>1, <1>2, <1>12, ChainKeeps
<1>13. Owners'
  <2>1. ASSUME NEW u \in live, NEW e \in Owned(u)', NEW y \in Txns \cup {Dummy},
               OnChain(y, e.key, e.nonce)'
        PROVE  y = e.txn \/ (y = Dummy /\ e.txn \in expired' \cup refused')
    <3>1. e \in Owned(u) /\ e.key \in Keys /\ e.nonce \in Nat
      BY <1>4, OwnedEntries DEF Entries
    <3>2. OnChain(y, e.key, e.nonce)
      BY <1>12, <2>1, <3>1
    <3> QED BY <1>1, <1>2, <3>1, <3>2 DEF Owners
  <2>2. ASSUME NEW u \in live, NEW v \in live, NEW e \in Owned(u)', NEW f \in Owned(v)',
               e.key = f.key, e.nonce = f.nonce
        PROVE  e = f
    BY <1>1, <1>4, <2>2 DEF Owners
  <2> QED BY <1>2, <2>1, <2>2 DEF Owners
<1>14. NotLost'
  <2>1. ASSUME NEW t \in 1..new
        PROVE  \/ t \in expired' \cup refused'
               \/ \E k \in Keys : t \in ToSet(mined'[k])
               \/ InHand(t)'
    <3>1. CASE t = new
      <4>1. t \in ToSet(queue'[s])
        BY <1>5, <1>6, <3>1
      <4> QED BY <1>2, <4>1 DEF InHand
    <3>2. CASE t # new
      <4>1. t \in 1..submitted
        BY <1>3, <3>2 DEF new
      <4>2. \A u \in Sessions : ToSet(queue[u]) \subseteq ToSet(queue'[u])
        BY <1>5, <1>6
      <4>3. InHand(t) => InHand(t)'
        BY <1>2, <1>4, <4>2 DEF InHand
      <4> QED BY <1>1, <1>2, <4>1, <4>3 DEF NotLost
    <3> QED BY <3>1, <3>2
  <2> QED BY <1>2, <2>1 DEF NotLost
<1>15. OnePlace'
  <2> SUFFICES ASSUME lost = 0, injected = 0
               PROVE  /\ \A u \in live : \A e \in Held(u)' : e.key = key
                      /\ \A u, v \in Sessions : \A i \in DOMAIN queue'[u], j \in DOMAIN queue'[v] :
                           queue'[u][i] = queue'[v][j] => u = v /\ i = j
                      /\ \A u \in Sessions : \A i \in DOMAIN queue'[u] : \A t \in Txns : queue'[u][i] = t =>
                           t <= new /\ Unsent(t)' /\ \A v \in Sessions : t # sender[v].txn
                      /\ \A u \in Sessions : \A t \in Txns : sender[u].txn = t =>
                           t <= new /\ (sender[u].pc \notin {"recv", "sent"} => Unsent(t)')
                      /\ \A t \in Txns, k, l \in Keys, m, n \in Nat :
                           /\ Placed(t, k, m)' => t <= new
                           /\ Placed(t, k, m)' /\ Placed(t, l, n)' => k = l /\ m = n
    BY <1>2 DEF OnePlace
  <2>1. /\ \A u \in live : \A e \in Held(u) : e.key = key
        /\ \A u, v \in Sessions : \A i \in DOMAIN queue[u], j \in DOMAIN queue[v] :
             queue[u][i] = queue[v][j] => u = v /\ i = j
        /\ \A u \in Sessions : \A i \in DOMAIN queue[u] : \A t \in Txns : queue[u][i] = t =>
             t <= submitted /\ Unsent(t) /\ \A v \in Sessions : t # sender[v].txn
        /\ \A u \in Sessions : \A t \in Txns : sender[u].txn = t =>
             t <= submitted /\ (sender[u].pc \notin {"recv", "sent"} => Unsent(t))
        /\ \A t \in Txns, k, l \in Keys, m, n \in Nat :
             /\ Placed(t, k, m) => t <= submitted
             /\ Placed(t, k, m) /\ Placed(t, l, n) => k = l /\ m = n
    BY <1>1 DEF OnePlace
  <2>2. ASSUME NEW t \in Txns, NEW k \in Keys, NEW n \in Nat, Placed(t, k, n)' PROVE Placed(t, k, n)
    BY <1>2, <1>4, <1>12, <2>2 DEF Placed
  <2>3. \A t \in Txns : Unsent(t) => Unsent(t)'
    BY <2>2 DEF Unsent
  <2>4. ASSUME NEW t \in Txns PROVE t \in Nat /\ (t <= submitted => t <= new /\ t # new)
    BY <1>3 DEF new, Txns
  <2>5. Unsent(new) /\ \A v \in Sessions : new # sender[v].txn
    BY <1>3, <2>1, <2>4 DEF Unsent
  <2>6. ASSUME NEW u \in Sessions, NEW i \in DOMAIN queue'[u]
        PROVE  \/ i \in DOMAIN queue[u] /\ queue'[u][i] = queue[u][i] /\ queue[u][i] \in Txns
               \/ u = s /\ i = Len(queue[s]) + 1 /\ queue'[u][i] = new
    <3>1. queue[u] \in Seq(Txns) /\ queue[s] \in Seq(Txns)
      BY <1>1 DEF Types
    <3>2. CASE u = s
      BY <1>3, <1>6, <2>6, <3>1, <3>2
    <3>3. CASE u # s
      BY <1>6, <2>6, <3>1, <3>3
    <3> QED BY <3>2, <3>3
  <2>7. ASSUME NEW u \in Sessions, NEW v \in Sessions, NEW i \in DOMAIN queue'[u],
               NEW j \in DOMAIN queue'[v], queue'[u][i] = queue'[v][j]
        PROVE  u = v /\ i = j
    <3>1. ASSUME NEW w \in Sessions, NEW m \in DOMAIN queue[w], queue[w][m] \in Txns PROVE queue[w][m] # new
      BY <2>1, <2>4, <3>1
    <3> QED BY <2>1, <2>6, <2>7, <3>1
  <2>8. ASSUME NEW u \in Sessions, NEW i \in DOMAIN queue'[u], NEW t \in Txns, queue'[u][i] = t
        PROVE  t <= new /\ Unsent(t)' /\ \A v \in Sessions : t # sender[v].txn
    <3>1. CASE t = new
      BY <1>3, <2>3, <2>4, <2>5, <3>1
    <3>2. CASE t # new
      BY <2>1, <2>3, <2>4, <2>6, <2>8, <3>2
    <3> QED BY <3>1, <3>2
  <2>9. \A u \in live : \A e \in Held(u)' : e.key = key
    BY <1>4, <2>1
  <2>10. \A u \in Sessions : \A t \in Txns : sender[u].txn = t =>
           t <= new /\ (sender[u].pc \notin {"recv", "sent"} => Unsent(t)')
    BY <2>1, <2>3, <2>4
  <2>11. \A t \in Txns, k, l \in Keys, m, n \in Nat :
           /\ Placed(t, k, m)' => t <= new
           /\ Placed(t, k, m)' /\ Placed(t, l, n)' => k = l /\ m = n
    BY <2>1, <2>2, <2>4
  <2> QED BY <2>7, <2>8, <2>9, <2>10, <2>11
<1> QED BY <1>7, <1>8, <1>9, <1>10, <1>11, <1>13, <1>14, <1>15 DEF IInv

\* A new session starts with empty hands.
LEMMA ReconnectKeeps ==
  ASSUME IInv, ~Overlapping', Reconnect
  PROVE  IInv'
<1>1. /\ Types /\ Hands /\ Current /\ InjectionFresh /\ NoncesWatched /\ Beyond /\ Owners
      /\ NotLost /\ OnePlace
  BY DEF IInv
<1>2. UNCHANGED <<key, nonce_to_send, queue, sender, pending, resender, injector, registered,
                  mined, pool, expired, submitted, refused, lost, injected>>
  BY DEF Reconnect, chainVars, sessionVars
<1>3. PICK s \in Sessions \ live : live' = live \cup {s}
  BY DEF Reconnect
<1>4. /\ \A u \in Sessions : Held(u)' = Held(u) /\ Owned(u)' = Owned(u)
      /\ live \subseteq Sessions /\ live' \subseteq Sessions
  BY <1>1, <1>2, <1>3, SameHands DEF Types
<1>5. Held(s) = {} /\ Owned(s) = {}
  <2>1. pending[s] = <<>> /\ sender[s].pc = "recv" /\ resender[s].pc = "pop"
    BY <1>1 DEF Hands
  <2>2. ToSet(pending[s]) = {}
    BY <2>1 DEF ToSet
  <2> QED BY <2>1, <2>2 DEF Held, Owned, Sent
<1>6. Types'
  BY <1>1, <1>2, <1>4 DEF Types
<1>7. Hands'
  BY <1>1, <1>2, <1>3 DEF Hands
<1>8. Current' /\ InjectionFresh'
  BY <1>1, <1>2 DEF Current, HasClient, InjectionFresh, Count
<1>9. NoncesWatched'
  BY <1>1, <1>2, <1>3, <1>4 DEF NoncesWatched, Watched, Count
<1>10. Beyond'
  BY <1>1, <1>2, <1>3, <1>4, <1>5 DEF Beyond, Count
<1>11. ASSUME NEW x \in Txns \cup {Dummy}, NEW k \in Keys, NEW n \in Nat, OnChain(x, k, n)'
       PROVE  OnChain(x, k, n)
  BY <1>1, <1>2, <1>11, ChainKeeps
<1>12. \A u \in live' : \A e \in Owned(u)' : u \in live /\ e \in Owned(u)
  BY <1>3, <1>4, <1>5
<1>13. Owners'
  <2>1. ASSUME NEW u \in live', NEW e \in Owned(u)', NEW y \in Txns \cup {Dummy},
               OnChain(y, e.key, e.nonce)'
        PROVE  y = e.txn \/ (y = Dummy /\ e.txn \in expired' \cup refused')
    <3>1. u \in live /\ e \in Owned(u) /\ e.key \in Keys /\ e.nonce \in Nat
      BY <1>4, <1>12, OwnedEntries DEF Entries
    <3>2. OnChain(y, e.key, e.nonce)
      BY <1>11, <2>1, <3>1
    <3> QED BY <1>1, <1>2, <3>1, <3>2 DEF Owners
  <2>2. ASSUME NEW u \in live', NEW v \in live', NEW e \in Owned(u)', NEW f \in Owned(v)',
               e.key = f.key, e.nonce = f.nonce
        PROVE  e = f
    BY <1>1, <1>12, <2>2 DEF Owners
  <2> QED BY <2>1, <2>2 DEF Owners
<1>14. NotLost'
  <2>1. \A t \in 1..submitted : InHand(t) => InHand(t)'
    BY <1>2, <1>3, <1>4 DEF InHand
  <2> QED BY <1>1, <1>2, <2>1 DEF NotLost
<1>15. OnePlace'
  <2>1. ASSUME NEW t \in Txns, NEW k \in Keys, NEW n \in Nat, Placed(t, k, n)'
        PROVE  Placed(t, k, n)
    BY <1>11, <1>12, <2>1 DEF Placed
  <2>2. lost = 0 /\ injected = 0 => \A u \in live' : \A e \in Held(u)' : e.key = key
    BY <1>1, <1>3, <1>4, <1>5 DEF OnePlace
  <2> QED BY <1>1, <1>2, <2>1, <2>2, PlacesKept
<1> QED BY <1>6, <1>7, <1>8, <1>9, <1>10, <1>13, <1>14, <1>15 DEF IInv

\* An injection fetches the nonce, writes it while no sender is at work, and replaces
\* the key when nothing of the new one is left.
LEMMA InjectionKeeps ==
  ASSUME IInv, ~Overlapping', (\E k \in Keys : InjectFetch(k)) \/ InjectNonce \/ InjectClient
  PROVE  IInv'
<1>1. /\ Types /\ Hands /\ Current /\ InjectionFresh /\ NoncesWatched /\ Beyond /\ Owners
      /\ NotLost /\ ~Overlapping
  BY DEF IInv
<1>2. UNCHANGED <<queue, sender, pending, resender, registered, live, mined, pool, expired, submitted,
                  refused, lost>>
  BY DEF InjectFetch, InjectNonce, InjectClient, UnchangedByInjector, sessionVars, chainVars
<1>3. /\ \A u \in Sessions : Held(u)' = Held(u) /\ Owned(u)' = Owned(u)
      /\ live \subseteq Sessions /\ injected \in Nat /\ injector \in Injecting
      /\ \A k \in Keys : Count(k)' = Count(k) /\ Count(k) \in Nat
  BY <1>1, <1>2, SameHands DEF Types, Count
<1>4. Hands'
  BY <1>1, <1>2 DEF Hands
<1>5. Owners'
  <2>1. ASSUME NEW u \in live, NEW e \in Owned(u)', NEW y \in Txns \cup {Dummy},
               OnChain(y, e.key, e.nonce)'
        PROVE  y = e.txn \/ (y = Dummy /\ e.txn \in expired' \cup refused')
    <3>1. e \in Owned(u) /\ e.key \in Keys /\ e.nonce \in Nat
      BY <1>3, OwnedEntries DEF Entries
    <3>2. OnChain(y, e.key, e.nonce)
      BY <1>1, <1>2, <2>1, <3>1, ChainKeeps
    <3> QED BY <1>1, <1>2, <3>1, <3>2 DEF Owners
  <2>2. ASSUME NEW u \in live, NEW v \in live, NEW e \in Owned(u)', NEW f \in Owned(v)',
               e.key = f.key, e.nonce = f.nonce
        PROVE  e = f
    BY <1>1, <1>3, <2>2 DEF Owners
  <2> QED BY <1>2, <2>1, <2>2 DEF Owners
<1>6. NotLost'
  <2>1. \A t \in 1..submitted : InHand(t) => InHand(t)'
    BY <1>2, <1>3 DEF InHand
  <2> QED BY <1>1, <1>2, <2>1 DEF NotLost
<1>7. CASE \E k \in Keys : InjectFetch(k)
  <2>1. PICK k \in Keys : InjectFetch(k)
    BY <1>7
  <2>2. /\ injector.pc = "idle" /\ injected' = injected + 1 /\ UNCHANGED <<key, nonce_to_send>>
        /\ injector' = [pc |-> "nonce", key |-> k, nonce |-> Count(k)]
    BY <2>1 DEF InjectFetch
  <2>3. /\ injector'.pc = "nonce" /\ injector'.key = k /\ injector'.nonce = Count(k)
        /\ injector' \in Injecting /\ injected' \in Nat \ {0} /\ Count(k) \in Nat
    BY <1>3, <2>2 DEF Injecting
  <2>4. Types'
    BY <1>1, <1>2, <2>2, <2>3 DEF Types
  <2>5. Current'
    BY <1>1, <1>2, <2>2 DEF Current, HasClient
  <2>6. InjectionFresh'
    <3>1. injector'.nonce <= Count(injector.key)'
      BY <1>2, <2>3 DEF Count
    <3> QED BY <2>3, <3>1 DEF InjectionFresh
  <2>7. NoncesWatched'
    BY <1>1, <1>2, <1>3, <2>2 DEF NoncesWatched, Watched, Count
  <2>8. Beyond'
    BY <1>1, <1>2, <1>3, <2>2 DEF Beyond, Count
  <2>9. OnePlace'
    BY <2>3 DEF OnePlace
  <2> QED BY <1>4, <1>5, <1>6, <2>4, <2>5, <2>6, <2>7, <2>8, <2>9 DEF IInv
<1>8. CASE InjectNonce
  <2>1. /\ injector.pc = "nonce" /\ nonce_to_send' = injector.nonce /\ UNCHANGED <<key, injected>>
        /\ injector' = [injector EXCEPT !.pc = "client"]
    BY <1>8 DEF InjectNonce
  <2>2. /\ injector'.pc = "client" /\ injector'.key = injector.key /\ injector'.nonce = injector.nonce
        /\ injector' \in Injecting /\ injector.nonce \in Nat
    BY <1>3, <2>1 DEF Injecting
  <2>3. injected # 0 /\ injector.key \in Keys /\ injector.nonce <= Count(injector.key)
    BY <1>1, <2>1 DEF InjectionFresh
  <2>4. Types'
    BY <1>1, <1>2, <2>1, <2>2 DEF Types
  <2>5. \A s \in Sessions : sender[s].pc \notin {"count", "nonce", "send", "sent"}
    BY <1>2, <2>2 DEF Overlapping, HasClient
  <2>6. Current'
    BY <1>2, <2>5 DEF Current, HasClient
  <2>7. InjectionFresh'
    <3>1. Count(injector.key)' = Count(injector.key)
      BY <1>2, <2>2 DEF Count
    <3> QED BY <2>1, <2>2, <2>3, <3>1 DEF InjectionFresh
  <2>8. NoncesWatched'
    BY <2>2 DEF NoncesWatched
  <2>9. Beyond'
    BY <1>1, <1>2, <1>3, <2>1, <2>2 DEF Beyond, Count
  <2>10. OnePlace'
    BY <2>1, <2>3 DEF OnePlace
  <2> QED BY <1>4, <1>5, <1>6, <2>4, <2>6, <2>7, <2>8, <2>9, <2>10 DEF IInv
<1>9. CASE InjectClient
  <2>1. /\ injector.pc = "client" /\ key' = injector.key /\ UNCHANGED <<nonce_to_send, injected>>
        /\ injector' = [pc |-> "idle", key |-> NoKey, nonce |-> 0]
    BY <1>9 DEF InjectClient
  <2>2. injector'.pc = "idle" /\ injector' \in Injecting
    BY <2>1 DEF Injecting
  <2>3. /\ injected # 0 /\ injector.key \in Keys /\ injector.nonce <= Count(injector.key)
        /\ nonce_to_send = injector.nonce /\ nonce_to_send \in Nat
    BY <1>1, <2>1 DEF InjectionFresh, Types
  <2>4. Types'
    BY <1>1, <1>2, <2>1, <2>2, <2>3 DEF Types
  <2>5. \A s \in Sessions : sender[s].pc \notin {"count", "nonce", "send", "sent"}
    BY <1>1, <2>1 DEF Overlapping, HasClient
  <2>6. \A s \in live : \A e \in Held(s) : e.key # injector.key
    BY <1>1, <2>1 DEF Overlapping
  <2>7. Current'
    BY <1>2, <2>5 DEF Current, HasClient
  <2>8. InjectionFresh'
    BY <2>1, <2>2, <2>3 DEF InjectionFresh
  <2>9. NoncesWatched'
    <3>1. Count(key)' = Count(injector.key) /\ Count(injector.key) \in Nat
      BY <1>2, <1>3, <2>1, <2>3 DEF Count
    <3>2. Count(key)'..(nonce_to_send' - 1) = {}
      BY <2>1, <2>3, <3>1
    <3> QED BY <3>2 DEF NoncesWatched
  <2>10. Beyond'
    BY <1>2, <1>3, <2>1, <2>6 DEF Beyond
  <2>11. OnePlace'
    BY <2>1, <2>3 DEF OnePlace
  <2> QED BY <1>4, <1>5, <1>6, <2>4, <2>7, <2>8, <2>9, <2>10, <2>11 DEF IInv
<1> QED BY <1>7, <1>8, <1>9

-----------------------------------------------------------------------------
(* The theorems                                                            *)

\* At first nothing is handed over and no nonce is used.
LEMMA Initially == Init => IInv
<1> SUFFICES ASSUME Init PROVE IInv
  OBVIOUS
<1>1. Types /\ Hands
  BY InitTypes
<1>2. /\ \A s \in Sessions : sender[s].pc = "recv" /\ sender[s].txn = NoTxn
      /\ \A s \in Sessions : ~sender[s].update_nonce
      /\ \A s \in Sessions : pending[s] = <<>> /\ resender[s].pc = "pop" /\ queue[s] = <<>>
      /\ injector.pc = "idle" /\ nonce_to_send = 0 /\ submitted = 0 /\ pool = {}
      /\ \A k \in Keys : mined[k] = <<>>
  BY DEF Init, Idle, Watching
<1>3. /\ live \subseteq Sessions /\ key \in Keys /\ NoTxn \notin Txns
      /\ \A k \in Keys : Count(k) = 0
  BY <1>1, <1>2, BoundsAssumption DEF Types, Count, NoTxn, Txns
<1>4. \A s \in Sessions : Held(s) = {} /\ Owned(s) = {}
  <2>1. ASSUME NEW s \in Sessions PROVE Held(s) = {} /\ Sent(s) = {}
    <3>1. ToSet(pending[s]) = {}
      BY <1>2 DEF ToSet
    <3> QED BY <1>2, <3>1 DEF Held, Sent
  <2> QED BY <2>1 DEF Owned
<1>5. ~Overlapping
  BY <1>2 DEF Overlapping
<1>6. Current /\ InjectionFresh
  BY <1>2 DEF Current, HasClient, InjectionFresh
<1>7. NoncesWatched
  BY <1>2, <1>3 DEF NoncesWatched
<1>8. Beyond /\ Owners
  BY <1>3, <1>4 DEF Beyond, Owners
<1>9. NotLost
  BY <1>2 DEF NotLost
<1>10. \A t \in Txns, k \in Keys, n \in Nat : ~Placed(t, k, n)
  BY <1>2, <1>3, <1>4 DEF Placed, OnChain
<1>11. OnePlace
  BY <1>2, <1>3, <1>4, <1>10 DEF OnePlace
<1> QED BY <1>1, <1>5, <1>6, <1>7, <1>8, <1>9, <1>11 DEF IInv

\* The inductive invariant: the senders and the resenders keep who owns which nonce, and
\* what becomes of each transaction, as long as no send overlaps a key injection or
\* another send (event_handler.rs 218-308, 521-731; node_handler.rs inject_mutable_config).
THEOREM Invariance ==
  ASSUME ~Overlap
  PROVE  Spec => []IInv
<1>1. Init => IInv
  BY Initially
<1>2. IInv /\ [Next]_vars => IInv'
  <2> SUFFICES ASSUME IInv, [Next]_vars PROVE IInv'
    OBVIOUS
  <2>1. CASE UNCHANGED vars
    <3>1. \A s \in Sessions : Held(s)' = Held(s)
      BY <2>1, SameHands DEF vars
    <3>2. live \subseteq Sessions
      BY DEF IInv, Types
    <3>3. ~Overlapping'
      BY <2>1, <3>1, <3>2 DEF vars, Overlapping, HasClient, IInv
    <3> QED BY <2>1, <3>3, ChainAndTimeKeep
  <2>2. CASE Next
    <3>1. ~Overlapping'
      BY <2>2 DEF Next
    <3> QED BY <2>2, <3>1, ChainAndTimeKeep, SubmitKeeps, ReconnectKeeps, InjectionKeeps,
               SenderKeeps, ResenderKeeps DEF Next
  <2> QED BY <2>1, <2>2
<1> QED BY <1>1, <1>2, PTL DEF Spec

\* Every nonce of the gas key that is used and not mined is watched by a resender, for any
\* number of sessions, keys, transactions and faults (event_handler.rs 291-303, 549-564,
\* 617-621, 642-651).
THEOREM UsedNoncesAreWatched ==
  ASSUME ~Overlap
  PROVE  Spec => []NoncesWatched
<1>1. IInv => NoncesWatched
  BY DEF IInv
<1> QED BY <1>1, Invariance, PTL

\* A transaction that was handed over is mined, in somebody's hands, or given up; with one
\* gas key and every response it is mined at most once (event_handler.rs 584-605).
THEOREM SentExactlyOnce ==
  ASSUME ~Overlap
  PROVE  Spec => []NeitherLostNorDoubled
<1>1. IInv => NeitherLostNorDoubled
  <2> SUFFICES ASSUME IInv PROVE NeitherLostNorDoubled
    OBVIOUS
  <2>1. ASSUME lost = 0, injected = 0, NEW k \in Keys, NEW i \in DOMAIN mined[k], NEW j \in DOMAIN mined[k],
               mined[k][i] = mined[k][j], mined[k][i] # Dummy
        PROVE  i = j
    <3>1. mined[k] \in Seq(Txns \cup {Dummy})
      BY DEF IInv, Types
    <3>2. /\ i \in Nat /\ j \in Nat /\ i - 1 \in Nat /\ j - 1 \in Nat
          /\ i - 1 < Count(k) /\ j - 1 < Count(k) /\ (i - 1) + 1 = i /\ (j - 1) + 1 = j
      BY <3>1 DEF Count
    <3>3. mined[k][i] \in Txns
      BY <2>1, <3>1
    <3>4. PICK t \in Txns : t = mined[k][i]
      BY <3>3
    <3>5. Placed(t, k, i - 1) /\ Placed(t, k, j - 1)
      BY <2>1, <3>2, <3>4 DEF Placed, OnChain
    <3>6. i - 1 = j - 1
      BY <2>1, <3>2, <3>5 DEF IInv, OnePlace
    <3> QED BY <3>2, <3>6
  <2> QED BY <2>1 DEF NeitherLostNorDoubled, IInv, NotLost
<1> QED BY <1>1, Invariance, PTL
=============================================================================
