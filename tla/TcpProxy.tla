------------------------------ MODULE TcpProxy ------------------------------
(***************************************************************************)
(* One TCP connection through a pair of the tcp proxies                    *)
(* (networking/tcp-proxy): client - relay A - vsock - relay B - server.    *)
(* Both relays are a transfer task that connects onwards and then copies   *)
(* in both directions.  The pair is one of                                 *)
(*   "transparent"  ip_to_vsock_transparent, vsock_to_ip_transparent,      *)
(*   "port"         port_to_vsock_transparent, vsock_to_ip,                *)
(*   "plain"        ip_to_vsock, vsock_to_ip.                              *)
(*                                                                         *)
(* The sockets are external.  A hop carries pieces in two directions, each *)
(* until the end of the stream is marked; a stream that is dropped with    *)
(* unread data resets the hop, and so does a write to a stream that was    *)
(* dropped.                                                                *)
(***************************************************************************)
EXTENDS Integers, Sequences, FiniteSets, SequencesExt

CONSTANTS
    Destinations,   \* original destinations: [family, ip (octets), port (high and low byte)]
    MaxSent,        \* how many bytes the client and the server send, by direction
    HopCap,         \* how many pieces a hop holds in a direction before a write waits
    MaxTcpFaults    \* how many resets and failed calls there are

ASSUME TcpBoundsAssumption == HopCap \in Nat \ {0, 1} /\ MaxTcpFaults \in Nat

ASSUME DestinationsAssumption ==
    Destinations \subseteq [family : {"v4", "v6", "none"}, ip : Seq(0..255), port : Seq(0..255)]

Dirs == {"up", "down"}
Relays == {"A", "B"}

VARIABLES
    chain,          \* the pair of proxies
    dst,            \* the original destination of the client's connection
    relay,          \* where each relay is: "accept", "header", "ip", "port", "connect", "copy", "done" or "error"
    copied,         \* the directions each relay has shut down after its copy
    hop,            \* by hop and direction: the pieces on their way, the end mark, the reader gone
    reset,          \* the hops that were reset
    addr,           \* the bytes of the header relay B has read
    reached,        \* the address relay B has connected to
    sent, got,      \* by direction, what one end has sent and the other received
    shut,           \* the directions that were ended by their sender
    ended,          \* the directions whose receiver has seen the end
    tcpFaults       \* how many faults there were

ends == <<sent, got, shut, ended>>
tcpVars == <<chain, dst, relay, copied, hop, reset, addr, reached, sent, got, shut, ended, tcpFaults>>

Stream == [data |-> <<>>, fin |-> FALSE, deaf |-> FALSE]

TcpInit ==
    /\ chain \in {"transparent", "port", "plain"}
    /\ dst \in Destinations
    /\ relay = [r \in Relays |-> "accept"]
    /\ copied = [r \in Relays |-> {}]
    /\ hop = [h \in 1..3 |-> [d \in Dirs |-> Stream]]
    /\ reset = {}
    /\ addr = <<>> /\ reached = <<>>
    /\ sent = [d \in Dirs |-> 0] /\ got = [d \in Dirs |-> <<>>]
    /\ shut = {} /\ ended = {}
    /\ tcpFaults = 0

\* The hop on the client's and on the server's side of a relay, and the hops it reads from
\* and writes to in a direction.
Near(r) == IF r = "A" THEN 1 ELSE 2
Far(r) == Near(r) + 1
From(r, d) == IF d = "up" THEN Near(r) ELSE Far(r)
To(r, d) == IF d = "up" THEN Far(r) ELSE Near(r)

TcpFault == tcpFaults < MaxTcpFaults /\ tcpFaults' = tcpFaults + 1

\* A relay drops its stream on each hop of hs: the other side reads to the end of what was
\* written, unless the stream had unread data.
Drop(r, hs) ==
    LET reads(h) == IF h = Near(r) THEN "up" ELSE "down"
        writes(h) == IF h = Near(r) THEN "down" ELSE "up"
        unread == {h \in hs : hop[h][reads(h)].data # <<>>}
    IN
    /\ hop' = [h \in 1..3 |-> IF h \notin hs THEN hop[h]
                              ELSE [hop[h] EXCEPT ![writes(h)].fin = TRUE,
                                                  ![reads(h)].deaf = TRUE, ![reads(h)].data = <<>>]]
    /\ reset' = reset \cup unread

\* The transfer task ends with an error and drops the streams it has.
TransferFails(r, hs) ==
    /\ relay' = [relay EXCEPT ![r] = "error"]
    /\ Drop(r, hs)
    /\ UNCHANGED <<chain, dst, copied, addr, reached, ends>>

-----------------------------------------------------------------------------
(* Relay A: proxy and transfer of the three ip_to_vsock variants. *)

\* The original destination as getsockopt gives it.  The plain proxy does not look at it.
NeedsOrigDst == chain \in {"transparent", "port"}

OrigDstErr ==
    /\ relay["A"] = "accept"
    /\ NeedsOrigDst
    /\ dst.family = "none"
    /\ TransferFails("A", {1})
    /\ UNCHANGED tcpFaults

\* The connection is accepted and the relay connects onwards.
ConnectA ==
    /\ relay["A"] = "accept"
    /\ NeedsOrigDst => dst.family # "none"
    /\ relay' = [relay EXCEPT !["A"] = IF chain = "transparent" THEN "header" ELSE "copy"]
    /\ UNCHANGED <<chain, dst, copied, hop, reset, addr, reached, ends, tcpFaults>>

\* write_u32_le of the address, whose value has its first octet highest, and write_u16_le of
\* the port; the error for an IPv6 address comes after the connection.
Header(a) == << Reverse(a.ip), Reverse(a.port) >>

SendHeader ==
    /\ relay["A"] = "header"
    /\ dst.family = "v4"
    /\ 2 \notin reset
    /\ hop' = [hop EXCEPT ![2]["up"].data = @ \o Header(dst)]
    /\ relay' = [relay EXCEPT !["A"] = "copy"]
    /\ UNCHANGED <<chain, dst, copied, reset, addr, reached, ends, tcpFaults>>

HeaderErr ==
    /\ relay["A"] = "header"
    /\ dst.family = "v6" \/ 2 \in reset
    /\ TransferFails("A", {1, 2})
    /\ UNCHANGED tcpFaults

-----------------------------------------------------------------------------
(* Relay B: proxy and transfer of vsock_to_ip and vsock_to_ip_transparent. *)

AcceptB ==
    /\ relay["B"] = "accept"
    /\ relay["A"] \notin {"accept", "error"} \/ hop[2]["up"].fin
    /\ relay' = [relay EXCEPT !["B"] = IF chain = "transparent" THEN "ip" ELSE "connect"]
    /\ UNCHANGED <<chain, dst, copied, hop, reset, addr, reached, ends, tcpFaults>>

\* read_u32_le, then read_u16_le.
ReadHeader ==
    /\ relay["B"] \in {"ip", "port"}
    /\ hop[2]["up"].data # <<>>
    /\ addr' = Append(addr, Head(hop[2]["up"].data))
    /\ hop' = [hop EXCEPT ![2]["up"].data = Tail(@)]
    /\ relay' = [relay EXCEPT !["B"] = IF relay["B"] = "ip" THEN "port" ELSE "connect"]
    /\ UNCHANGED <<chain, dst, copied, reset, reached, ends, tcpFaults>>

ReadHeaderErr ==
    /\ relay["B"] \in {"ip", "port"}
    /\ hop[2]["up"].data = <<>>
    /\ 2 \in reset \/ hop[2]["up"].fin
    /\ TransferFails("B", {2})
    /\ UNCHANGED tcpFaults

\* The address in the header; or the fixed one, the listener being picked by the vsock port,
\* which the port variant takes from the original destination.
Target ==
    CASE chain = "transparent" -> [ip |-> Reverse(addr[1]), port |-> Reverse(addr[2])]
      [] chain = "port" -> [ip |-> <<127, 0, 0, 1>>, port |-> dst.port]
      [] chain = "plain" -> [ip |-> <<127, 0, 0, 1>>, port |-> <<0, 80>>]

ConnectB ==
    /\ relay["B"] = "connect"
    /\ reached' = Target
    /\ relay' = [relay EXCEPT !["B"] = "copy"]
    /\ UNCHANGED <<chain, dst, copied, hop, reset, addr, ends, tcpFaults>>

\* connect fails, on either side.
ConnectErr(r) ==
    /\ \/ r = "A" /\ relay["A"] = "accept" /\ (NeedsOrigDst => dst.family # "none")
       \/ r = "B" /\ relay["B"] = "connect"
    /\ TransferFails(r, {Near(r)})
    /\ TcpFault

-----------------------------------------------------------------------------
(* Copying, the same in all five programs. *)

Copying(r, d) == relay[r] = "copy" /\ d \notin copied[r]

\* io::copy moves a piece.
CopyStep(r, d) ==
    LET f == From(r, d)  t == To(r, d) IN
    /\ Copying(r, d)
    /\ hop[f][d].data # <<>>
    /\ t \notin reset /\ ~hop[t][d].deaf
    /\ Len(hop[t][d].data) < HopCap
    /\ hop' = [hop EXCEPT ![t][d].data = Append(@, Head(hop[f][d].data)), ![f][d].data = Tail(@)]
    /\ UNCHANGED <<chain, dst, relay, copied, reset, addr, reached, ends, tcpFaults>>

\* Mutated: the end of one direction ends the transfer.
CopyEnd_Either(r, d) ==
    /\ Copying(r, d)
    /\ hop[From(r, d)][d].data = <<>> /\ hop[From(r, d)][d].fin /\ From(r, d) \notin reset
    /\ relay' = [relay EXCEPT ![r] = "done"]
    /\ Drop(r, {Near(r), Far(r)})
    /\ UNCHANGED <<chain, dst, copied, addr, reached, ends, tcpFaults>>

\* Mutated: no shutdown after the copy.
CopyEnd_NoShutdown(r, d) ==
    /\ Copying(r, d)
    /\ hop[From(r, d)][d].data = <<>> /\ hop[From(r, d)][d].fin /\ From(r, d) \notin reset
    /\ copied' = [copied EXCEPT ![r] = @ \cup {d}]
    /\ UNCHANGED <<chain, dst, relay, hop, reset, addr, reached, ends, tcpFaults>>

\* io::copy reads the end: the write half is shut down.  The task is done when both are.
CopyEnd(r, d) ==
    /\ Copying(r, d)
    /\ hop[From(r, d)][d].data = <<>> /\ hop[From(r, d)][d].fin /\ From(r, d) \notin reset
    /\ hop' = [hop EXCEPT ![To(r, d)][d].fin = TRUE]
    /\ copied' = [copied EXCEPT ![r] = @ \cup {d}]
    /\ relay' = [relay EXCEPT ![r] = IF copied'[r] = Dirs THEN "done" ELSE "copy"]
    /\ UNCHANGED <<chain, dst, reset, addr, reached, ends, tcpFaults>>

\* A read or a write fails, or the shutdown of a stream that was reset (which is no error for
\* every kind of stream): try_join drops the other direction too.
CopyErr(r, d) ==
    LET f == From(r, d)  t == To(r, d) IN
    /\ Copying(r, d)
    /\ \/ hop[f][d].data = <<>> /\ f \in reset
       \/ hop[f][d].data # <<>> /\ (t \in reset \/ hop[t][d].deaf)
       \/ hop[f][d].data = <<>> /\ hop[f][d].fin /\ t \in reset
    /\ TransferFails(r, {Near(r), Far(r)})
    /\ UNCHANGED tcpFaults

\* listener.accept fails: the process ends and all its transfers with it.
AcceptErr(r) ==
    /\ relay[r] \notin {"done", "error"}
    /\ r = "B" => relay["A"] # "accept"
    /\ TransferFails(r, IF relay[r] \in {"header", "copy"} THEN {Near(r), Far(r)} ELSE {Near(r)})
    /\ TcpFault

-----------------------------------------------------------------------------
(* The two ends, and the network. *)

EndHop(d) == IF d = "up" THEN 1 ELSE 3

\* The client, or the server once it is connected to, sends a byte or ends its direction.
EndSends(d) ==
    /\ d = "down" => reached # <<>>
    /\ d \notin shut
    /\ EndHop(d) \notin reset /\ ~hop[EndHop(d)][d].deaf
    /\ \/ /\ sent[d] < MaxSent[d]
          /\ Len(hop[EndHop(d)][d].data) < HopCap
          /\ sent' = [sent EXCEPT ![d] = @ + 1]
          /\ hop' = [hop EXCEPT ![EndHop(d)][d].data = Append(@, <<sent'[d]>>)]
          /\ UNCHANGED shut
       \/ /\ shut' = shut \cup {d}
          /\ hop' = [hop EXCEPT ![EndHop(d)][d].fin = TRUE]
          /\ UNCHANGED sent
    /\ UNCHANGED <<chain, dst, relay, copied, reset, addr, reached, got, ended, tcpFaults>>

\* The other end reads.
EndReads(d) ==
    LET h == 4 - EndHop(d) IN
    /\ d \notin ended
    /\ IF hop[h][d].data # <<>>
       THEN /\ got' = [got EXCEPT ![d] = Append(@, Head(hop[h][d].data))]
            /\ hop' = [hop EXCEPT ![h][d].data = Tail(@)]
            /\ UNCHANGED ended
       ELSE /\ hop[h][d].fin /\ h \notin reset
            /\ ended' = ended \cup {d}
            /\ UNCHANGED <<got, hop>>
    /\ UNCHANGED <<chain, dst, relay, copied, reset, addr, reached, sent, shut, tcpFaults>>

\* A hop is reset, with any part of what is on its way lost.
ResetHop(h) ==
    /\ h \notin reset
    /\ h = 2 => relay["A"] \notin {"accept", "error"}
    /\ h = 3 => reached # <<>>
    /\ TcpFault
    /\ reset' = reset \cup {h}
    /\ \E k \in [Dirs -> 0..HopCap] :
          /\ \A d \in Dirs : k[d] <= Len(hop[h][d].data)
          /\ hop' = [hop EXCEPT ![h] = [d \in Dirs |-> [hop[h][d] EXCEPT !.data = SubSeq(hop[h][d].data, 1, k[d])]]]
    /\ UNCHANGED <<chain, dst, relay, copied, addr, reached, ends>>

SetUpA == OrigDstErr \/ ConnectA \/ SendHeader \/ HeaderErr
SetUpB == AcceptB \/ ReadHeader \/ ReadHeaderErr \/ ConnectB
CopyAny(r, d) == CopyStep(r, d) \/ CopyEnd(r, d) \/ CopyErr(r, d)

TcpNext ==
    \/ SetUpA \/ SetUpB
    \/ \E r \in Relays : ConnectErr(r) \/ AcceptErr(r) \/ \E d \in Dirs : CopyAny(r, d)
    \/ \E d \in Dirs : EndSends(d) \/ EndReads(d)
    \/ \E h \in 1..3 : ResetHop(h)

\* The proxies by themselves; Networking adds the fairness.
TcpSpec == TcpInit /\ [][TcpNext]_tcpVars

-----------------------------------------------------------------------------

TcpTypeOK ==
    /\ relay \in [Relays -> {"accept", "header", "ip", "port", "connect", "copy", "done", "error"}]
    /\ copied \in [Relays -> SUBSET Dirs] /\ reset \subseteq 1..3
    /\ \A h \in 1..3, d \in Dirs : Len(hop[h][d].data) <= HopCap
    /\ shut \subseteq Dirs /\ ended \subseteq Dirs /\ tcpFaults \in 0..MaxTcpFaults

NoTransferFailed == \A r \in Relays : relay[r] # "error"

\* The client is connected to the destination it asked for, by address or by port, and each
\* end is given a prefix of what the other has sent, with nothing of the header in it; the end
\* of a stream is shown to a reader only after everything sent, unless a transfer has failed
\* (write_u32_le against read_u32_le, and io::copy with shutdown in both relays).
StreamsFaithful ==
    /\ reached # <<>> /\ chain = "transparent" => reached = [ip |-> dst.ip, port |-> dst.port]
    /\ reached # <<>> /\ chain = "port" => reached.port = dst.port
    /\ \A d \in Dirs : Len(got[d]) <= sent[d] /\ got[d] = [i \in 1..Len(got[d]) |-> <<i>>]
    /\ NoTransferFailed => \A d \in ended : d \in shut /\ Len(got[d]) = sent[d]

\* Unless something fails, all that one end sends reaches the other, and so does the end of
\* each direction by itself, while the other direction stays open for as long as it likes
\* (try_join of the two copies, each followed by its own shutdown).
HalfCloses ==
    []<>(tcpFaults > 0 \/ ~NoTransferFailed
            \/ \A d \in Dirs : Len(got[d]) = sent[d] /\ (d \in shut => d \in ended))

=============================================================================
