------------------------------ MODULE RawProxy ------------------------------
(***************************************************************************)
(* One path of the raw proxies (networking/raw-proxy): a sender takes IP   *)
(* packets from an nfqueue and writes them to a vsock connection; a        *)
(* receiver cuts the stream into packets again, filters them and sends     *)
(* them on an IP socket.  On the incoming path the sender runs on the host *)
(* and the receiver in the enclave, on the outgoing path the reverse.      *)
(*                                                                         *)
(* The kernel is external: the nfqueue, the vsock connections (a write may *)
(* take a part of the buffer, a connection may be reset with any part of   *)
(* what is on its way lost, one connection may wait to be accepted), and   *)
(* the raw IP socket, which takes a packet whole or not at all.  A packet  *)
(* is a sequence of pieces; the first holds the bytes read before the size *)
(* is known.                                                               *)
(***************************************************************************)
EXTENDS Integers, Sequences, FiniteSets

CONSTANTS
    Packets,        \* the packets that arrive, in order: [src, dst, port, pieces]
    OwnIp,          \* the enclave's address, as octets
    VsockCap,       \* how many pieces a connection holds before a write waits
    MaxRawFaults    \* how many errors of sockets and queues there are

Octets == [1..4 -> 0..255]

ASSUME RawAssumption ==
    /\ Packets \in Seq([src : Octets, dst : Octets, port : Nat, pieces : Nat \ {0}])
    /\ OwnIp \in Octets
    /\ VsockCap \in Nat \ {0} /\ MaxRawFaults \in Nat

Ids == 1..Len(Packets)
MaxConns == MaxRawFaults + 1

VARIABLES
    path,           \* "incoming" or "outgoing"
    arrived,        \* how many packets have arrived
    nfqueue,        \* the packets waiting in the kernel
    sender,         \* where the sender is: "nfq", "vsock", "recv", "send", "verdict" or "rebind"
    inHand,         \* what is left to send of the packet it has
    sconn,          \* its connection, 0 before the first
    receiver,       \* where the receiver is: "ip", "accept", "read" or "down"
    rconn,          \* its connection, 0 before the first
    buf,            \* the pieces it has read of a packet
    conns,          \* the connections: what is on its way, and whether each end has it open
    waiting,        \* the connection that waits to be accepted, 0 if none does
    out,            \* what went out on the IP socket
    rawFaults,      \* how many errors there were
    exposed         \* observation: the packets a fault has met on their way

senderVars == <<sender, inHand, sconn>>
receiverVars == <<receiver, rconn, buf>>
rawVars == <<path, arrived, nfqueue, sender, inHand, sconn, receiver, rconn, buf, conns, waiting, out, rawFaults, exposed>>

RawInit ==
    /\ path \in {"incoming", "outgoing"}
    /\ arrived = 0 /\ nfqueue = <<>>
    /\ sender = "nfq" /\ inHand = <<>> /\ sconn = 0
    /\ receiver = "ip" /\ rconn = 0 /\ buf = <<>>
    /\ conns = <<>> /\ waiting = 0
    /\ out = <<>> /\ rawFaults = 0 /\ exposed = {}

\* The packets that wait in the kernel's queue.
Queued == {nfqueue[n] : n \in DOMAIN nfqueue}

\* The pieces of packet i, and the packets some pieces belong to.
Frame(i) == [n \in 1..Packets[i].pieces |-> <<i, n>>]
Of(pieces) == {pieces[n][1] : n \in 1..Len(pieces)}

Listening == receiver # "down" /\ ~(receiver = "ip" /\ rconn = 0)

\* A fault that meets the packets ps.
RawFault(ps) ==
    /\ rawFaults < MaxRawFaults
    /\ rawFaults' = rawFaults + 1
    /\ exposed' = exposed \cup ps

-----------------------------------------------------------------------------
(* The sender: handle_conn and main of ip_to_vsock_raw_incoming and _outgoing. *)

\* The kernel puts a packet into the queue, which it keeps for as long as the sender holds it;
\* before there is one the packet is gone.
Arrive ==
    /\ arrived < Len(Packets)
    /\ arrived' = arrived + 1
    /\ IF sender = "nfq" THEN exposed' = exposed \cup {arrived'} /\ UNCHANGED nfqueue
                         ELSE nfqueue' = Append(nfqueue, arrived') /\ UNCHANGED exposed
    /\ UNCHANGED <<path, senderVars, receiverVars, conns, waiting, out, rawFaults>>

\* The first new_nfq_with_backoff of main succeeds.
NewNfq ==
    /\ sender = "nfq"
    /\ sender' = "vsock"
    /\ UNCHANGED <<path, arrived, nfqueue, inHand, sconn, receiverVars, conns, waiting, out, rawFaults, exposed>>

\* new_vsock_socket_with_backoff succeeds; the old connection is dropped only then.
ConnectVsock ==
    /\ sender = "vsock"
    /\ Listening
    /\ waiting = 0
    /\ Len(conns) < MaxConns
    /\ conns' = Append([c \in DOMAIN conns |-> [conns[c] EXCEPT !.writer = FALSE]],
                       [data |-> <<>>, writer |-> TRUE, reader |-> TRUE])
    /\ sconn' = Len(conns')
    /\ waiting' = Len(conns')
    /\ sender' = "recv"
    /\ UNCHANGED <<path, arrived, nfqueue, inHand, receiverVars, out, rawFaults, exposed>>

\* queue.recv
QueueRecv ==
    /\ sender = "recv"
    /\ nfqueue # <<>>
    /\ inHand' = Frame(Head(nfqueue))
    /\ nfqueue' = Tail(nfqueue)
    /\ sender' = "send"
    /\ UNCHANGED <<path, arrived, sconn, receiverVars, conns, waiting, out, rawFaults, exposed>>

\* conn_socket.send takes a part of what is left.
SendPart ==
    /\ sender = "send"
    /\ conns[sconn].reader
    /\ \E k \in 1..Len(inHand) :
          /\ Len(conns[sconn].data) + k <= VsockCap
          /\ conns' = [conns EXCEPT ![sconn].data = @ \o SubSeq(inHand, 1, k)]
          /\ inHand' = SubSeq(inHand, k + 1, Len(inHand))
          /\ sender' = IF k = Len(inHand) THEN "verdict" ELSE "send"
    /\ UNCHANGED <<path, arrived, nfqueue, sconn, receiverVars, waiting, out, rawFaults, exposed>>

\* Mutated: what is left of the packet is sent on the next connection.
SendErr_Resumes ==
    /\ sender = "send"
    /\ ~conns[sconn].reader
    /\ sender' = "vsock"
    /\ UNCHANGED <<path, arrived, nfqueue, inHand, sconn, receiverVars, conns, waiting, out, rawFaults, exposed>>

\* send fails: the packet is given up, with no verdict, and the sender connects again.
SendErr ==
    /\ sender = "send"
    /\ ~conns[sconn].reader
    /\ exposed' = exposed \cup Of(inHand)
    /\ inHand' = <<>>
    /\ sender' = "vsock"
    /\ UNCHANGED <<path, arrived, nfqueue, sconn, receiverVars, conns, waiting, out, rawFaults>>

\* queue.verdict, always Drop: the kernel does not route the packet itself.
SendVerdict ==
    /\ sender = "verdict"
    /\ sender' = "recv"
    /\ UNCHANGED <<path, arrived, nfqueue, inHand, sconn, receiverVars, conns, waiting, out, rawFaults, exposed>>

\* queue.recv or queue.verdict fails.  main assigns the new queue to the variable that holds the
\* old one, which is therefore still bound to the same number while new_nfq_with_backoff binds
\* it: the kernel refuses, and the sender tries for ever.  What was on its way to it may be gone.
NfqErr ==
    /\ sender \in {"recv", "verdict"}
    /\ RawFault(Queued)
    /\ sender' = "rebind"
    /\ UNCHANGED <<path, arrived, nfqueue, inHand, sconn, receiverVars, conns, waiting, out>>

-----------------------------------------------------------------------------
(* The receiver: handle_conn and main of vsock_to_ip_raw_incoming and _outgoing. *)

\* The masks of the destinations the outgoing path ignores, and their values.
Reserved == {
    <<<<255, 0, 0, 0>>, <<0, 0, 0, 0>>>>, <<<<255, 0, 0, 0>>, <<10, 0, 0, 0>>>>,
    <<<<255, 192, 0, 0>>, <<100, 64, 0, 0>>>>, <<<<255, 0, 0, 0>>, <<127, 0, 0, 0>>>>,
    <<<<255, 255, 0, 0>>, <<169, 254, 0, 0>>>>, <<<<255, 240, 0, 0>>, <<172, 16, 0, 0>>>>,
    <<<<255, 255, 255, 0>>, <<192, 0, 0, 0>>>>, <<<<255, 255, 255, 0>>, <<192, 0, 2, 0>>>>,
    <<<<255, 255, 255, 0>>, <<192, 88, 99, 0>>>>, <<<<255, 255, 0, 0>>, <<192, 168, 0, 0>>>>,
    <<<<255, 254, 0, 0>>, <<198, 18, 0, 0>>>>, <<<<255, 255, 255, 0>>, <<198, 51, 100, 0>>>>,
    <<<<255, 255, 255, 0>>, <<203, 0, 113, 0>>>>, <<<<240, 0, 0, 0>>, <<224, 0, 0, 0>>>>,
    <<<<255, 255, 255, 0>>, <<233, 252, 0, 0>>>>, <<<<240, 0, 0, 0>>, <<240, 0, 0, 0>>>>,
    <<<<255, 255, 255, 255>>, <<255, 255, 255, 255>>>> }

\* x & m, for a mask m whose ones come first.
Masked(x, m) == x - (x % (256 - m))

IgnoredDst(dst) == \E r \in Reserved : \A o \in 1..4 : Masked(dst[o], r[1][o]) = r[2][o]

\* The ports beside 80 and 443 that are mapped.
HighPorts == 1024..61439

\* Whether the packet is sent on: only to the enclave's address on the incoming path; only
\* from it, to a public address and from a port that is mapped on the outgoing path.
Passes(p) ==
    CASE path = "incoming" -> p.dst = OwnIp
      [] path = "outgoing" -> /\ p.src = OwnIp
                              /\ ~IgnoredDst(p.dst)
                              /\ p.port = 80 \/ p.port = 443 \/ p.port \in HighPorts

\* The IP socket is opened, for the first time before the vsock server, or after an error.
NewIpSocket ==
    /\ receiver = "ip"
    /\ receiver' = IF rconn = 0 THEN "accept" ELSE "read"
    /\ UNCHANGED <<path, arrived, nfqueue, senderVars, rconn, buf, conns, waiting, out, rawFaults, exposed>>

\* accept_vsock_conn_with_backoff; the old connection is dropped only then.
AcceptVsock ==
    /\ receiver = "accept"
    /\ waiting # 0
    /\ conns' = IF rconn = 0 THEN conns ELSE [conns EXCEPT ![rconn].reader = FALSE]
    /\ rconn' = waiting
    /\ waiting' = 0
    /\ receiver' = "read"
    /\ UNCHANGED <<path, arrived, nfqueue, senderVars, buf, out, rawFaults, exposed>>

\* The size is in the first piece: that of another piece is anything.
Complete(b) == b # <<>> /\ (b[1][2] = 1 => Len(b) = Packets[b[1][1]].pieces)

\* read_exact gets another piece.
ReadPart ==
    /\ receiver = "read"
    /\ ~Complete(buf)
    /\ conns[rconn].data # <<>>
    /\ buf' = Append(buf, Head(conns[rconn].data))
    /\ conns' = [conns EXCEPT ![rconn].data = Tail(@)]
    /\ UNCHANGED <<path, arrived, nfqueue, senderVars, receiver, rconn, waiting, out, rawFaults, exposed>>

\* Mutated: the receiver reads on from the connection that has ended.
ReadErr_KeepsConn ==
    /\ receiver = "read"
    /\ ~Complete(buf)
    /\ conns[rconn].data = <<>> /\ ~conns[rconn].writer
    /\ buf' = <<>>
    /\ UNCHANGED <<path, arrived, nfqueue, senderVars, receiver, rconn, conns, waiting, out, rawFaults, exposed>>

\* read_exact meets the end of the connection: the part of a packet is given up.
ReadErr ==
    /\ receiver = "read"
    /\ ~Complete(buf)
    /\ conns[rconn].data = <<>> /\ ~conns[rconn].writer
    /\ receiver' = "accept"
    /\ buf' = <<>>
    /\ UNCHANGED <<path, arrived, nfqueue, senderVars, rconn, conns, waiting, out, rawFaults, exposed>>

Ignore ==
    /\ receiver = "read"
    /\ Complete(buf)
    /\ ~Passes(Packets[buf[1][1]])
    /\ buf' = <<>>
    /\ UNCHANGED <<path, arrived, nfqueue, senderVars, receiver, rconn, conns, waiting, out, rawFaults, exposed>>

SendTo ==
    /\ receiver = "read"
    /\ Complete(buf)
    /\ Passes(Packets[buf[1][1]])
    /\ out' = Append(out, buf)
    /\ buf' = <<>>
    /\ UNCHANGED <<path, arrived, nfqueue, senderVars, receiver, rconn, conns, waiting, rawFaults, exposed>>

\* What the packets lose when the receiver's process ends: its connection and the waiting one.
ConnsOfReceiver == {rconn, waiting} \ {0}

\* send_to fails.  On the incoming path the packet is given up and the socket opened again; on
\* the outgoing path the error is an NfqError, which main does not expect: the process panics.
SendToErr ==
    /\ receiver = "read"
    /\ Complete(buf)
    /\ Passes(Packets[buf[1][1]])
    /\ buf' = <<>>
    /\ IF path = "incoming"
       THEN /\ RawFault(Of(buf))
            /\ receiver' = "ip"
            /\ UNCHANGED <<rconn, conns, waiting>>
       ELSE /\ RawFault(Of(buf) \cup UNION {Of(conns[c].data) : c \in ConnsOfReceiver})
            /\ receiver' = "down"
            /\ rconn' = 0
            /\ waiting' = 0
            /\ conns' = [c \in DOMAIN conns |-> IF c \in ConnsOfReceiver THEN [conns[c] EXCEPT !.reader = FALSE, !.data = <<>>]
                                                                         ELSE conns[c]]
    /\ UNCHANGED <<path, arrived, nfqueue, senderVars, out>>

\* supervisord starts the process again.
RestartReceiver ==
    /\ receiver = "down"
    /\ receiver' = "ip"
    /\ UNCHANGED <<path, arrived, nfqueue, senderVars, rconn, buf, conns, waiting, out, rawFaults, exposed>>

-----------------------------------------------------------------------------

\* The sender's connection is reset; both ends find out when they use it.
ResetVsock ==
    /\ sconn # 0
    /\ conns[sconn].writer /\ conns[sconn].reader
    /\ RawFault(Of(conns[sconn].data) \cup IF rconn = sconn /\ ~Complete(buf) THEN Of(buf) ELSE {})
    /\ \E k \in 0..Len(conns[sconn].data) :
          conns' = [conns EXCEPT ![sconn] = [data |-> SubSeq(@.data, 1, k), writer |-> FALSE, reader |-> FALSE]]
    /\ UNCHANGED <<path, arrived, nfqueue, senderVars, receiverVars, waiting, out>>

SenderStep == NewNfq \/ ConnectVsock \/ QueueRecv \/ SendPart \/ SendErr \/ SendVerdict
ReceiverStep == NewIpSocket \/ AcceptVsock \/ ReadPart \/ ReadErr \/ Ignore \/ SendTo \/ RestartReceiver

RawNext ==
    \/ SenderStep \/ ReceiverStep
    \/ Arrive \/ NfqErr \/ SendToErr \/ ResetVsock

\* A path by itself; Networking adds the fairness.
RawSpec == RawInit /\ [][RawNext]_rawVars

-----------------------------------------------------------------------------

RawTypeOK ==
    /\ path \in {"incoming", "outgoing"} /\ arrived \in 0..Len(Packets)
    /\ sender \in {"nfq", "vsock", "recv", "send", "verdict", "rebind"} /\ sconn \in 0..Len(conns)
    /\ receiver \in {"ip", "accept", "read", "down"} /\ rconn \in 0..Len(conns)
    /\ waiting \in 0..Len(conns) /\ rawFaults \in 0..MaxRawFaults /\ exposed \subseteq Ids

\* The packets that are somewhere on the path.
InTransit == Queued \cup Of(inHand) \cup Of(buf) \cup UNION {Of(conns[c].data) : c \in DOMAIN conns}

\* The blocks of addresses as the comments of the outgoing filter name them: CIDR.
ReservedBlocks == {
    <<<<0, 0, 0, 0>>, 8>>, <<<<10, 0, 0, 0>>, 8>>, <<<<100, 64, 0, 0>>, 10>>, <<<<127, 0, 0, 0>>, 8>>,
    <<<<169, 254, 0, 0>>, 16>>, <<<<172, 16, 0, 0>>, 12>>, <<<<192, 0, 0, 0>>, 24>>, <<<<192, 0, 2, 0>>, 24>>,
    <<<<192, 88, 99, 0>>, 24>>, <<<<192, 168, 0, 0>>, 16>>, <<<<198, 18, 0, 0>>, 15>>, <<<<198, 51, 100, 0>>, 24>>,
    <<<<203, 0, 113, 0>>, 24>>, <<<<224, 0, 0, 0>>, 4>>, <<<<233, 252, 0, 0>>, 24>>, <<<<240, 0, 0, 0>>, 4>>,
    <<<<255, 255, 255, 255>>, 32>> }

\* How many octets agree in their first n bits.
Agreeing(n) == <<256, 128, 64, 32, 16, 8, 4, 2, 1>>[n + 1]

\* The octets of a and b agree in their first n bits.
SamePrefix(a, b, n) ==
    \A o \in 1..4 :
        LET bits == IF n >= 8 * o THEN 8 ELSE IF n <= 8 * (o - 1) THEN 0 ELSE n - 8 * (o - 1)
        IN  a[o] \div Agreeing(bits) = b[o] \div Agreeing(bits)

Blocked(dst) == \E b \in ReservedBlocks : SamePrefix(dst, b[1], b[2])

Allowed(p) ==
    IF path = "incoming" THEN p.dst = OwnIp
    ELSE /\ p.src = OwnIp /\ p.port \in {80, 443} \cup HighPorts
         /\ ~Blocked(p.dst)

\* Partial writes, resets and reconnects never mix packets up: what goes out on the IP socket
\* is whole packets that were queued and are allowed, in the order they were queued, none of
\* them twice; and one that is allowed is missing only if a fault has met it on its way
\* (total_sent and read_exact against the reconnects of main; the filter against its comments).
WholePackets ==
    /\ \A n \in DOMAIN out : out[n] # <<>> /\ out[n][1][1] \in 1..arrived /\ out[n] = Frame(out[n][1][1])
    /\ \A n \in DOMAIN out : Allowed(Packets[out[n][1][1]])
    /\ \A m, n \in DOMAIN out : m < n => out[m][1][1] < out[n][1][1]
    /\ \A i \in 1..arrived :
          Allowed(Packets[i]) /\ i \notin exposed => i \in InTransit \/ \E n \in DOMAIN out : out[n] = Frame(i)

\* No packet gets stuck: whatever fails in the receiver or on the connection, the other side
\* notices, the two find a connection again, and the path runs empty when no more packets arrive
\* (the loops of both mains).  A sender whose queue has failed never has one again, and only what
\* waits for it there stays behind: what it has sent still goes out.
Forwarded == []<>(InTransit \subseteq IF sender = "rebind" THEN Queued ELSE {})

=============================================================================
