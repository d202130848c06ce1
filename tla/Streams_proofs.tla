--------------------------- MODULE Streams_proofs ---------------------------
(***************************************************************************)
(* Proofs about the three streams.  Scallop, for any number of bytes, any  *)
(* record size and any capacity of the connection: no peer is accepted     *)
(* unverified, and the reader is given exactly the bytes that were         *)
(* written, in order.  TcpProxy, for any number of pieces, capacities and  *)
(* failures: the client reaches its destination, each end is given what    *)
(* the other has sent, and an end of the stream is not shown too early.    *)
(* RawProxy, for any packets, any capacity and any number of faults: what  *)
(* goes out is whole packets, allowed, in order and each once.             *)
(* Networking puts them side by side and inherits all of it.               *)
(***************************************************************************)
EXTENDS Networking, SequenceTheorems, TLAPS

HsKinds == {"msg1", "msg2", "clientfin", "serverfin"}
Authers == {"none", "rejected", "small", "large", "huge"}
Messages == [kind : HsKinds, n : {0, 1}, data : {<<>>} \cup {<<a>> : a \in Authers}]
Plaintexts == [first : Nat, len : Nat]
RecordPieces == [kind : {"len", "body"}, n : Nat, data : Plaintexts]
PlainPieces == [kind : {"plain"}, n : Nat, data : {<<>>}]

-----------------------------------------------------------------------------
(* The inductive invariant                                                 *)

ScallopTypes ==
  /\ options \in [Peers -> Options] /\ writer \in Peers
  /\ hs \in [Peers -> {"start", "msg1", "msg2", "clientfin", "serverfin", "open", "error", "panic"}]
  /\ hs["client"] \in {"start", "msg2", "serverfin", "open", "error"}
  /\ hs["server"] \in {"msg1", "clientfin", "open", "error", "panic"}
  /\ verified \subseteq Peers /\ closed \subseteq Peers
  /\ wire \in [Peers -> Seq(Messages \cup RecordPieces)]
  /\ wbuf \in Seq(RecordPieces)
  /\ call \in {"idle", "write", "flush", "shutdown", "done", "failed", "dropped"}
  /\ accepted \in Nat /\ accepted <= MaxBytes /\ flushed \in Nat
  /\ broken \in BOOLEAN /\ wroteEmpty \in BOOLEAN

ReaderTypes ==
  /\ rbuf \in Seq(RecordPieces \cup PlainPieces)
  /\ pending \in Nat
  /\ mode \in {"Length", "Body", "Read"}
  /\ received \in Seq(Nat)
  /\ eof \in BOOLEAN

AllRecords(s) == \A i \in 1..Len(s) : s[i] \in RecordPieces

\* Only the first piece on its way can be a message of the handshake; records follow once
\* the handshake of the writer is over, and only from it.
Shape ==
  \A p \in Peers :
    /\ \A i \in 2..Len(wire[p]) : wire[p][i] \in RecordPieces
    /\ ~(p = writer /\ hs[p] = "open") => \A i \in 1..Len(wire[p]) : wire[p][i] \in Messages
    /\ hs[p] = "open" => AllRecords(wire[Other(p)])

\* Who has sent what when the client, or the server, is at some place of the handshake.
Handshake ==
  /\ hs["client"] = "start" => wire["client"] = <<>> /\ wire["server"] = <<>> /\ hs["server"] \in {"msg1", "error"}
  /\ hs["client"] = "msg2" =>
       /\ hs["server"] \in {"msg1", "clientfin", "error"}
       /\ wire["client"] # <<>> => wire["client"][1].kind = "msg1" /\ wire["server"] = <<>> /\ hs["server"] \in {"msg1", "error"}
       /\ wire["server"] # <<>> => wire["server"][1].kind = "msg2"
  /\ hs["client"] = "serverfin" =>
       /\ ShouldAskAuth("client")
       /\ hs["server"] # "msg1"
       /\ IF hs["server"] = "open"
          THEN IF wire["server"] = <<>> THEN broken ELSE wire["server"][1].kind = "serverfin"
          ELSE wire["server"] = <<>>
  /\ hs["client"] = "open" =>
       /\ hs["server"] # "msg1"
       /\ ShouldAskAuth("client") => hs["server"] = "open"
       /\ hs["server"] = "clientfin" /\ ~broken => wire["client"] # <<>>
  /\ hs["server"] = "msg1" => wire["server"] = <<>>
  /\ hs["server"] = "clientfin" /\ wire["client"] # <<>> => wire["server"] = <<>> /\ wire["client"][1].kind = "clientfin"

\* The attestations on their way are those of their senders, who have one that fits.
Attested ==
  \A p \in Peers : \A i \in 1..Len(wire[p]) :
    /\ wire[p][i].kind = "clientfin" =>
         /\ wire[p][i].n = Ask("client")
         /\ wire[p][i].data = <<>> \/ (wire[p][i].data = <<options["client"].auther>> /\ options["client"].auther \notin {"none", "huge"})
    /\ wire[p][i].kind = "serverfin" =>
         wire[p][i].data = <<options["server"].auther>> /\ options["server"].auther \notin {"none", "huge"}

\* Nothing is written before the handshake is over; who has shut down has written all; an end
\* of the connection is the writer's doing or a loss.
WriterState ==
  /\ hs[writer] # "open" => wbuf = <<>> /\ call = "idle" /\ accepted = 0
  /\ call = "done" => wbuf = <<>>
  /\ writer \in closed /\ ~broken => call \in {"done", "dropped"} \/ hs[writer] \in {"error", "panic"}

\* The pieces of records the reader has yet to read: those on their way, behind a message of
\* the handshake if there is one, then those in wbuf, unless the connection is lost.
Records(s) == IF s # <<>> /\ s[1] \in Messages THEN Tail(s) ELSE s
Rest == Records(wire[writer]) \o (IF broken THEN <<>> ELSE wbuf)

\* Which piece of its record x is.
Place(x) == IF x.kind = "len" THEN x.n ELSE x.n + 2

\* The pieces of Rest follow one another as the records and their bytes do, whatever lies between.
Linked ==
  /\ \A i \in 1..Len(Rest) :
       /\ Rest[i] \in RecordPieces
       /\ Place(Rest[i]) \in 1..(Rest[i].data.len + 3) /\ Rest[i] = Piece(Rest[i].data, Place(Rest[i]))
       /\ Rest[i].data.first + Rest[i].data.len <= accepted
       /\ ~wroteEmpty => Rest[i].data.len > 0
  /\ \A i, j \in 1..Len(Rest) : i <= j =>
       /\ Place(Rest[i]) + (j - i) <= Rest[i].data.len + 3 => Rest[j] = Piece(Rest[i].data, Place(Rest[i]) + (j - i))
       /\ Place(Rest[i]) + (j - i) = Rest[i].data.len + 4 =>
            Place(Rest[j]) = 1 /\ Rest[j].data.first = Rest[i].data.first + Rest[i].data.len

\* What the reader has, and the piece it has to read next.
LengthState ==
  mode = "Length" =>
    \/ /\ rbuf = <<>> /\ pending = 2
       /\ Rest # <<>> => Place(Rest[1]) = 1 /\ Rest[1].data.first = Len(received)
    \/ /\ Len(rbuf) = 1 /\ pending = 1
       /\ rbuf[1] = Piece(rbuf[1].data, 1) /\ rbuf[1].data \in Plaintexts /\ rbuf[1].data.first = Len(received)
       /\ rbuf[1].data.first + rbuf[1].data.len <= accepted
       /\ ~wroteEmpty => rbuf[1].data.len > 0
       /\ Rest # <<>> => Rest[1] = Piece(rbuf[1].data, 2)

BodyState ==
  mode = "Body" =>
    /\ pending > 0
    /\ ~wroteEmpty => Len(rbuf) + pending > 1
    /\ Len(received) + Len(rbuf) + pending - 1 <= accepted
    /\ \A i \in 1..Len(rbuf) : rbuf[i] = Piece([first |-> Len(received), len |-> Len(rbuf) + pending - 1], i + 2)
    /\ Rest # <<>> => Rest[1] = Piece([first |-> Len(received), len |-> Len(rbuf) + pending - 1], Len(rbuf) + 3)

ReadState ==
  mode = "Read" =>
    /\ pending = 0
    /\ ~wroteEmpty => rbuf # <<>>
    /\ \A i \in 1..Len(rbuf) : rbuf[i].n = Len(received) + i
    /\ Len(received) + Len(rbuf) <= accepted
    /\ Rest # <<>> => Place(Rest[1]) = 1 /\ Rest[1].data.first = Len(received) + Len(rbuf)

\* As long as the connection is not lost, the rest ends with the last byte that was accepted.
EndsAtAccepted ==
  ~broken =>
    IF Rest = <<>>
    THEN \/ mode = "Length" /\ pending = 2 /\ Len(received) = accepted
         \/ mode = "Read" /\ Len(received) + Len(rbuf) = accepted
    ELSE LET x == Rest[Len(Rest)] IN Place(x) = x.data.len + 3 /\ x.data.first + x.data.len = accepted

\* What the application has been given.
Given ==
  /\ Len(received) <= accepted
  /\ \A i \in 1..Len(received) : received[i] = i
  /\ eof /\ ~broken /\ ~wroteEmpty => writer \in closed /\ (call = "done" => Len(received) = accepted)

HandshakeInv == ScallopTypes /\ Shape /\ Handshake /\ Attested /\ Authenticated /\ WriterState
StreamInv == ReaderTypes /\ Linked /\ LengthState /\ BodyState /\ ReadState /\ EndsAtAccepted /\ Given

IInv == HandshakeInv /\ StreamInv

-----------------------------------------------------------------------------
(* The handshake                                                           *)

\* The initial states satisfy the invariant of the handshake.
LEMMA HandshakeInit == ScallopInit => HandshakeInv
<1> SUFFICES ASSUME ScallopInit PROVE HandshakeInv
  OBVIOUS
<1>1. wire = [p \in Peers |-> <<>>] /\ hs = [p \in Peers |-> IF p = "client" THEN "start" ELSE "msg1"]
  BY DEF ScallopInit
<1>2. \A p \in Peers : wire[p] = <<>>
  BY <1>1
<1>3. ScallopTypes
  <2>1. wire \in [Peers -> Seq(Messages \cup RecordPieces)] /\ wbuf \in Seq(RecordPieces)
    BY <1>1 DEF ScallopInit
  <2>2. hs["client"] = "start" /\ hs["server"] = "msg1"
        /\ hs \in [Peers -> {"start", "msg1", "msg2", "clientfin", "serverfin", "open", "error", "panic"}]
    BY <1>1 DEF Peers
  <2>3. options \in [Peers -> Options] /\ writer \in Peers /\ verified = {} /\ closed = {}
        /\ call = "idle" /\ accepted = 0 /\ flushed = 0 /\ broken = FALSE /\ wroteEmpty = FALSE
    BY DEF ScallopInit
  <2>4. accepted \in Nat /\ accepted <= MaxBytes /\ flushed \in Nat
    BY <2>3, BoundsAssumption
  <2> QED BY <2>1, <2>2, <2>3, <2>4 DEF ScallopTypes
<1>4. Shape /\ Handshake /\ Attested
  BY <1>1, <1>2 DEF Shape, AllRecords, Handshake, Attested, Peers, Other
<1>5. Authenticated
  BY <1>1 DEF ScallopInit, Authenticated, Peers
<1>6. WriterState
  BY DEF ScallopInit, WriterState
<1> QED BY <1>3, <1>4, <1>5, <1>6 DEF HandshakeInv

\* A peer that does not write records has at most one piece on its way, a message.
LEMMA OneMessage ==
  ASSUME ScallopTypes, Shape, NEW p \in Peers, ~(p = writer /\ hs[p] = "open"), wire[p] # <<>>
  PROVE  Len(wire[p]) = 1 /\ wire[p][1] \in Messages /\ Head(wire[p]) = wire[p][1] /\ Tail(wire[p]) = <<>>
<1>1. \A i \in 2..Len(wire[p]) : wire[p][i] \in RecordPieces
  BY DEF Shape
<1>2. \A i \in 1..Len(wire[p]) : wire[p][i] \in Messages
  BY DEF Shape
<1>3. wire[p] \in Seq(Messages \cup RecordPieces)
  BY DEF ScallopTypes
<1>4. Messages \cap RecordPieces = {}
  BY DEF Messages, RecordPieces, HsKinds
<1>5. Len(wire[p]) \in Nat /\ Len(wire[p]) # 0
  BY <1>3, EmptySeq
<1>6. ASSUME Len(wire[p]) # 1 PROVE FALSE
  <2>1. \A n \in Nat : n # 0 /\ n # 1 => 2 \in 1..n /\ 2 \in 2..n
    OBVIOUS
  <2>2. 2 \in 1..Len(wire[p]) /\ 2 \in 2..Len(wire[p])
    BY <1>5, <1>6, <2>1, Zenon
  <2> QED BY <1>1, <1>2, <1>4, <2>2
<1>7. Len(wire[p]) = 1
  BY <1>6
<1>8. Tail(wire[p]) \in Seq(Messages \cup RecordPieces) /\ Len(Tail(wire[p])) = 0
  BY <1>3, <1>7, HeadTailProperties
<1>9. Tail(wire[p]) = <<>>
  BY <1>8, EmptySeq
<1>10. wire[p][1] \in Messages
  BY <1>2, <1>7
<1>11. Head(wire[p]) = wire[p][1]
  BY <1>3, <1>7
<1> QED BY <1>7, <1>9, <1>10, <1>11

\* The wires after a step that sets both.
LEMMA WireOf ==
  ASSUME NEW a \in Seq(Messages \cup RecordPieces), NEW b \in Seq(Messages \cup RecordPieces)
  PROVE  LET w == [client |-> a, server |-> b] IN
         w \in [Peers -> Seq(Messages \cup RecordPieces)] /\ w["client"] = a /\ w["server"] = b
BY DEF Peers

\* The tail of what a peer has on its way holds only records.
LEMMA TailOfWire ==
  ASSUME ScallopTypes, Shape, NEW p \in Peers, wire[p] # <<>>
  PROVE  /\ Tail(wire[p]) \in Seq(Messages \cup RecordPieces)
         /\ Head(wire[p]) = wire[p][1] /\ 1 \in 1..Len(wire[p])
         /\ Len(Tail(wire[p])) = Len(wire[p]) - 1 /\ Len(Tail(wire[p])) \in Nat
         /\ \A i \in 1..Len(Tail(wire[p])) : Tail(wire[p])[i] = wire[p][i + 1] /\ i + 1 \in 1..Len(wire[p])
         /\ \A i \in 1..Len(Tail(wire[p])) : Tail(wire[p])[i] \in RecordPieces
<1>1. wire[p] \in Seq(Messages \cup RecordPieces)
  BY DEF ScallopTypes
<1>2. Len(wire[p]) \in Nat \ {0}
  BY <1>1, EmptySeq
<1>3. /\ Tail(wire[p]) \in Seq(Messages \cup RecordPieces)
      /\ Len(Tail(wire[p])) = Len(wire[p]) - 1
      /\ \A i \in 1..Len(Tail(wire[p])) : Tail(wire[p])[i] = wire[p][i + 1]
  BY <1>1, HeadTailProperties
<1>4. \A i \in 2..Len(wire[p]) : wire[p][i] \in RecordPieces
  BY DEF Shape
<1>5. \A k \in Nat \ {0} : 1 \in 1..k /\ k - 1 \in Nat /\ \A i \in 1..(k - 1) : i + 1 \in 2..k /\ i + 1 \in 1..k
  OBVIOUS
<1>6. Head(wire[p]) = wire[p][1]
  BY <1>1
<1> QED BY <1>2, <1>3, <1>4, <1>5, <1>6

\* A message of the handshake does not count as a record.
LEMMA PushMessage ==
  ASSUME NEW m \in Messages
  PROVE  Records(<<m>>) = <<>> /\ Records(<<>>) = <<>>
<1>1. <<m>> # <<>> /\ <<m>>[1] = m /\ Tail(<<m>>) = <<>>
  OBVIOUS
<1> QED BY <1>1 DEF Records

\* Taking a message of the handshake off the wire takes no record off.
LEMMA PopMessage ==
  ASSUME ScallopTypes, Shape, NEW p \in Peers, wire[p] # <<>>, wire[p][1].kind \in HsKinds
  PROVE  Records(Tail(wire[p])) = Records(wire[p])
<1>1. wire[p][1] \in Messages
  <2>1. wire[p][1] \in Messages \cup RecordPieces
    BY TailOfWire, ElementOfSeq DEF ScallopTypes
  <2> QED BY <2>1 DEF RecordPieces, HsKinds
<1>2. Records(wire[p]) = Tail(wire[p])
  BY <1>1 DEF Records
<1>3. Tail(wire[p]) # <<>> => Tail(wire[p])[1] \in RecordPieces
  <2>1. Tail(wire[p]) # <<>> => Len(Tail(wire[p])) # 0
    BY TailOfWire, EmptySeq
  <2>2. Tail(wire[p]) # <<>> => 1 \in 1..Len(Tail(wire[p]))
    BY <2>1, TailOfWire
  <2> QED BY <2>2, TailOfWire
<1>4. Tail(wire[p]) # <<>> => Tail(wire[p])[1] \notin Messages
  BY <1>3 DEF Messages, RecordPieces, HsKinds
<1>5. Records(Tail(wire[p])) = Tail(wire[p])
  BY <1>4 DEF Records
<1> QED BY <1>2, <1>5

\* read_u16 or read_exact of a handshake meets the end of the connection.
LEMMA HandshakeEofKeeps ==
  ASSUME HandshakeInv, NEW p \in Peers, HandshakeEof(p)
  PROVE  HandshakeInv' /\ \A q \in Peers : Records(wire'[q]) = Records(wire[q])
<1> USE DEF HandshakeInv
<1>0. hs' = [hs EXCEPT ![p] = "error"] /\ closed' = closed \cup {p}
      /\ UNCHANGED <<options, writer, wbuf, call, accepted, flushed, wroteEmpty, rbuf, pending, mode, received, eof, broken, verified, wire>>
  BY DEF HandshakeEof, Fails, UnchangedByHandshake, fixed, writerVars, readerVars
<1>1. hs[p] # "open" /\ wire[Other(p)] = <<>>
  BY DEF HandshakeEof
<1>2. ScallopTypes'
  BY <1>0 DEF ScallopTypes, Peers
<1>3. Shape'
  BY <1>0, <1>1 DEF Shape, ScallopTypes, Peers, AllRecords, Other
<1>4. Handshake'
  BY <1>0, <1>1 DEF Handshake, HandshakeEof, ScallopTypes, Peers, ShouldAskAuth, Other
<1>5. Attested'
  BY <1>0 DEF Attested, Ask, ShouldAskAuth
<1>6. Authenticated'
  BY <1>0, <1>1 DEF Authenticated, ScallopTypes
<1>7. WriterState'
  BY <1>0, <1>1 DEF WriterState, ScallopTypes
<1> QED BY <1>0, <1>2, <1>3, <1>4, <1>5, <1>6, <1>7

\* The client's first message.
LEMMA ClientStartKeeps ==
  ASSUME HandshakeInv, ClientStart
  PROVE  HandshakeInv' /\ \A p \in Peers : Records(wire'[p]) = Records(wire[p])
<1> USE DEF HandshakeInv
<1> DEFINE m == [kind |-> "msg1", n |-> 0, data |-> <<>>]
<1>0. hs' = [hs EXCEPT !["client"] = "msg2"] /\ wire' = [wire EXCEPT !["client"] = Append(@, m)]
      /\ UNCHANGED <<options, writer, wbuf, call, accepted, flushed, wroteEmpty, rbuf, pending, mode, received, eof, broken, verified, closed>>
  BY DEF ClientStart, Send, Msg, UnchangedByHandshake, fixed, writerVars, readerVars
<1>1. hs["client"] = "start" /\ wire["client"] = <<>> /\ wire["server"] = <<>> /\ hs["server"] \in {"msg1", "error"}
  BY DEF ClientStart, Handshake
<1>2. m \in Messages
  BY DEF Messages, HsKinds
<1>3. wire' = [wire EXCEPT !["client"] = <<m>>]
  BY <1>0, <1>1
<1>4. wire'["client"] = <<m>> /\ wire'["server"] = <<>>
  BY <1>3, <1>1 DEF ScallopTypes, Peers
<1>5. hs'["client"] = "msg2" /\ hs'["server"] = hs["server"]
  BY <1>0 DEF ScallopTypes, Peers
<1> HIDE DEF m
<1>6. ScallopTypes'
  <2>1. <<m>> \in Seq(Messages \cup RecordPieces)
    BY <1>2
  <2> QED BY <2>1, <1>0, <1>3 DEF ScallopTypes, Peers
<1>7. Shape'
  BY <1>0, <1>1, <1>2, <1>4, <1>5 DEF Shape, ScallopTypes, Peers, AllRecords, Other
<1>8. Handshake'
  BY <1>0, <1>1, <1>4, <1>5 DEF Handshake, ShouldAskAuth, m
<1>9. Attested'
  BY <1>0, <1>4 DEF Attested, Ask, ShouldAskAuth, Peers, m
<1>10. Authenticated'
  BY <1>0, <1>1 DEF Authenticated, ScallopTypes
<1>11. WriterState'
  BY <1>0, <1>1 DEF WriterState, ScallopTypes
<1>12. \A p \in Peers : Records(wire'[p]) = Records(wire[p])
  BY <1>1, <1>2, <1>4, PushMessage DEF Peers
<1> QED BY <1>12, <1>6, <1>7, <1>8, <1>9, <1>10, <1>11

\* The server answers the first message with its auth request.
LEMMA ServerMsg1Keeps ==
  ASSUME HandshakeInv, ServerMsg1
  PROVE  HandshakeInv' /\ \A p \in Peers : Records(wire'[p]) = Records(wire[p])
<1> USE DEF HandshakeInv
<1> DEFINE m == [kind |-> "msg2", n |-> Ask("server"), data |-> <<>>]
<1>0. hs' = [hs EXCEPT !["server"] = "clientfin"]
      /\ wire' = [client |-> Tail(wire["client"]), server |-> Append(wire["server"], m)]
      /\ UNCHANGED <<options, writer, wbuf, call, accepted, flushed, wroteEmpty, rbuf, pending, mode, received, eof, broken, verified, closed>>
  BY DEF ServerMsg1, Msg, UnchangedByHandshake, fixed, writerVars, readerVars
<1>1. hs["server"] = "msg1" /\ wire["server"] = <<>> /\ wire["client"] # <<>>
  BY DEF ServerMsg1, Handshake, Arrived, Other
<1>2. hs["client"] \in {"msg2", "error"}
  BY <1>1 DEF Handshake, ScallopTypes
<1>3. Tail(wire["client"]) = <<>>
  BY <1>1, <1>2, OneMessage DEF Peers
<1>4. m \in Messages
  BY DEF Messages, HsKinds, Ask
<1>5. wire' = [client |-> <<>>, server |-> <<m>>]
  <2>1. \A x : Append(<<>>, x) = <<x>>
    OBVIOUS
  <2>2. wire' = [client |-> Tail(wire["client"]), server |-> Append(wire["server"], m)]
    BY <1>0
  <2> HIDE DEF m
  <2>3. wire' = [client |-> <<>>, server |-> Append(<<>>, m)]
    BY <2>2, <1>1, <1>3, Zenon
  <2> QED BY <2>1, <2>3, Zenon
<1>6. wire' \in [Peers -> Seq(Messages \cup RecordPieces)] /\ wire'["client"] = <<>> /\ wire'["server"] = <<m>>
  <2>1. <<>> \in Seq(Messages \cup RecordPieces) /\ <<m>> \in Seq(Messages \cup RecordPieces)
    BY <1>4
  <2> HIDE DEF m
  <2> QED BY <1>5, <2>1, WireOf
<1>7. hs'["client"] = hs["client"] /\ hs'["server"] = "clientfin"
  BY <1>0 DEF ScallopTypes, Peers
<1>8. m.kind = "msg2"
  OBVIOUS
<1> HIDE DEF m
<1>9. ScallopTypes'
  BY <1>0, <1>6, <1>7 DEF ScallopTypes, Peers
<1>10. Shape'
  <2>1. \A i \in 1..Len(<<m>>) : i = 1 /\ <<m>>[i] \in Messages
    BY <1>4
  <2>2. Len(<<m>>) = 1
    OBVIOUS
  <2> QED BY <2>1, <2>2, <1>2, <1>6, <1>7 DEF Shape, Peers
<1>11. Handshake'
  BY <1>0, <1>1, <1>2, <1>6, <1>7, <1>8 DEF Handshake, ShouldAskAuth
<1>12. Attested'
  <2>1. \A i \in 1..Len(<<m>>) : <<m>>[i].kind = "msg2"
    BY <1>8
  <2> QED BY <2>1, <1>6 DEF Attested, Peers
<1>13. Authenticated'
  BY <1>0, <1>1 DEF Authenticated, ScallopTypes
<1>14. WriterState'
  BY <1>0, <1>1 DEF WriterState, ScallopTypes
<1>15. \A p \in Peers : Records(wire'[p]) = Records(wire[p])
  <2>1. Records(Tail(wire["client"])) = Records(wire["client"])
    BY <1>1, PopMessage, TailOfWire DEF ServerMsg1, Arrived, Other, HsKinds, Peers
  <2> QED BY <2>1, <1>1, <1>3, <1>4, <1>6, PushMessage DEF Peers
<1> QED BY <1>15, <1>9, <1>10, <1>11, <1>12, <1>13, <1>14

\* The client looks at the auth request and sends CLIENTFIN, or gives up.
LEMMA ClientMsg2Keeps ==
  ASSUME HandshakeInv, ClientMsg2
  PROVE  HandshakeInv' /\ \A p \in Peers : Records(wire'[p]) = Records(wire[p])
<1> USE DEF HandshakeInv
<1> DEFINE m == [kind |-> "clientfin", n |-> Ask("client"), data |-> ClientAuth]
           asked == Head(wire["server"]).n = 1
           next == IF ShouldAskAuth("client") THEN "serverfin" ELSE "open"
<1>0. UNCHANGED <<options, writer, wbuf, call, accepted, flushed, wroteEmpty, rbuf, pending, mode, received, eof, broken, verified>>
  BY DEF ClientMsg2, UnchangedByHandshake, fixed, writerVars, readerVars
<1>1. hs["client"] = "msg2" /\ wire["server"] # <<>> /\ hs["server"] \in {"clientfin", "error"} /\ wire["client"] = <<>>
  BY DEF ClientMsg2, Handshake, Arrived, Other
<1>3. Tail(wire["server"]) = <<>>
  BY <1>1, OneMessage DEF Peers
<1>2. Records(Tail(wire["server"])) = Records(wire["server"])
  BY <1>1, PopMessage, TailOfWire DEF ClientMsg2, Arrived, Other, HsKinds, Peers
<1>4. options["client"].auther \in Authers
  BY DEF ScallopTypes, Options, Authers, Peers
<1>5. CASE asked /\ options["client"].auther \in {"none", "huge"}
  <2>1. hs' = [hs EXCEPT !["client"] = "error"] /\ closed' = closed \cup {"client"}
        /\ wire' = [wire EXCEPT !["server"] = Tail(@)]
    BY <1>5 DEF ClientMsg2, Fails
  <2>2. wire' \in [Peers -> Seq(Messages \cup RecordPieces)] /\ wire'["client"] = <<>> /\ wire'["server"] = <<>>
    BY <2>1, <1>1, <1>3 DEF ScallopTypes, Peers
  <2>3. hs'["client"] = "error" /\ hs'["server"] = hs["server"]
    BY <2>1 DEF ScallopTypes, Peers
  <2>4. ScallopTypes'
    BY <1>0, <2>1, <2>2, <2>3 DEF ScallopTypes, Peers
  <2>5. Shape'
    BY <1>0, <1>1, <2>2, <2>3 DEF Shape, ScallopTypes, Peers, AllRecords, Other
  <2>6. Handshake'
    BY <1>0, <1>1, <2>2, <2>3 DEF Handshake, ShouldAskAuth
  <2>7. Attested'
    BY <2>2 DEF Attested, Peers
  <2>8. Authenticated'
    BY <1>0, <1>1, <2>1 DEF Authenticated, ScallopTypes
  <2>9. WriterState'
    BY <1>0, <1>1, <2>1 DEF WriterState, ScallopTypes
  <2>10. \A p \in Peers : Records(wire'[p]) = Records(wire[p])
    BY <1>1, <1>2, <1>3, <2>2 DEF Peers
  <2> QED BY <2>4, <2>5, <2>6, <2>7, <2>8, <2>9, <2>10
<1>6. CASE ~(asked /\ options["client"].auther \in {"none", "huge"})
  <2>1. hs' = [hs EXCEPT !["client"] = next] /\ closed' = closed
        /\ wire' = [client |-> Append(wire["client"], m), server |-> Tail(wire["server"])]
    BY <1>6 DEF ClientMsg2, Msg
  <2>2. m.kind = "clientfin" /\ m.n = Ask("client")
        /\ (m.data = <<>> \/ (m.data = <<options["client"].auther>> /\ options["client"].auther \notin {"none", "huge"}))
    BY <1>6 DEF ClientAuth
  <2>3. m \in Messages
    BY <2>2, <1>4 DEF Messages, HsKinds, Ask
  <2> HIDE DEF m
  <2>4. wire' \in [Peers -> Seq(Messages \cup RecordPieces)] /\ wire'["client"] = <<m>> /\ wire'["server"] = <<>>
    <3>1. <<>> \in Seq(Messages \cup RecordPieces) /\ <<m>> \in Seq(Messages \cup RecordPieces)
      BY <2>3
    <3>2. \A x : Append(<<>>, x) = <<x>>
      OBVIOUS
    <3>3. wire' = [client |-> Append(<<>>, m), server |-> <<>>]
      BY <2>1, <1>1, <1>3, Zenon
    <3>4. wire' = [client |-> <<m>>, server |-> <<>>]
      BY <3>2, <3>3, Zenon
    <3> QED BY <3>1, <3>4, WireOf
  <2>5. hs'["client"] = next /\ hs'["server"] = hs["server"]
    BY <2>1 DEF ScallopTypes, Peers
  <2>6. ScallopTypes'
    BY <1>0, <2>1, <2>4, <2>5 DEF ScallopTypes, Peers
  <2>7. Shape'
    BY <1>0, <1>1, <2>3, <2>4, <2>5 DEF Shape, ScallopTypes, Peers, AllRecords, Other
  <2>8. Handshake'
    BY <1>0, <1>1, <2>2, <2>4, <2>5 DEF Handshake, ShouldAskAuth
  <2>9. Attested'
    BY <1>0, <2>2, <2>4 DEF Attested, Peers, Ask, ShouldAskAuth
  <2>10. Authenticated'
    <3>1. ShouldAskAuth("client") \/ options["client"].store \in {"none", "known"}
      BY DEF ShouldAskAuth, ScallopTypes, Options, Peers
    <3> QED BY <3>1, <1>0, <2>5 DEF Authenticated, Peers
  <2>11. WriterState'
    BY <1>0, <1>1, <2>1, <2>5 DEF WriterState, ScallopTypes, Peers
  <2>12. \A p \in Peers : Records(wire'[p]) = Records(wire[p])
    BY <1>1, <1>2, <1>3, <2>3, <2>4, PushMessage DEF Peers
  <2> QED BY <2>6, <2>7, <2>8, <2>9, <2>10, <2>11, <2>12
<1> QED BY <1>5, <1>6

\* The server verifies CLIENTFIN and opens its stream, or gives up, or panics.
LEMMA ServerClientFinKeeps ==
  ASSUME HandshakeInv, ServerClientFin
  PROVE  HandshakeInv' /\ \A p \in Peers : Records(wire'[p]) = Records(wire[p])
<1> USE DEF HandshakeInv
<1> DEFINE m == Head(wire["client"])
           panics == m.data = <<"large">>
           rejects == ShouldAskAuth("server") /\ ~Verify("server", m.data)
           cannot == m.n = 1 /\ options["server"].auther \in {"none", "huge"}
           f == [kind |-> "serverfin", n |-> 0, data |-> <<options["server"].auther>>]
<1>0. /\ UNCHANGED <<options, writer, wbuf, call, accepted, flushed, wroteEmpty, rbuf, pending, mode, received, eof, broken>>
      /\ verified' = IF ShouldAskAuth("server") /\ ~panics /\ ~rejects THEN verified \cup {"server"} ELSE verified
  BY DEF ServerClientFin, UnchangedByHandshake, fixed, writerVars, readerVars
<1>1. hs["server"] = "clientfin" /\ wire["client"] # <<>> /\ wire["server"] = <<>>
  BY DEF ServerClientFin, Handshake, Arrived, Other
<1>2. m.kind = "clientfin" /\ m = wire["client"][1] /\ 1 \in 1..Len(wire["client"])
  BY <1>1, TailOfWire DEF ServerClientFin, Arrived, Other, Peers
<1>3. /\ m.n = Ask("client")
      /\ m.data = <<>> \/ (m.data = <<options["client"].auther>> /\ options["client"].auther \notin {"none", "huge"})
  BY <1>2 DEF Attested, Peers
<1>4. hs["client"] \in {"serverfin", "open", "error"}
  BY <1>1, <1>2 DEF Handshake, ScallopTypes
<1> DEFINE t == Tail(wire["client"])
<1>5. t \in Seq(Messages \cup RecordPieces) /\ Len(t) \in Nat
      /\ \A i \in 1..Len(t) : t[i] = wire["client"][i + 1] /\ i + 1 \in 1..Len(wire["client"]) /\ t[i] \in RecordPieces
  BY <1>1, TailOfWire DEF Peers
<1>6. ~("client" = writer /\ hs["client"] = "open") => t = <<>>
  BY <1>1, OneMessage DEF Peers
<1>7. options["server"].auther \in Authers /\ options["client"].auther \in Authers
  BY DEF ScallopTypes, Options, Authers, Peers
<1>8. \A i \in 1..Len(t) : t[i].kind \notin {"clientfin", "serverfin"}
  BY <1>5 DEF RecordPieces
<1>9. verified' \subseteq Peers /\ \A p \in Peers : p \in verified' => options[Other(p)].auther \in {"small", "large"}
  <2>1. CASE ShouldAskAuth("server") /\ ~panics /\ ~rejects
    <3>1. m.data = <<options["client"].auther>> /\ m.data[1] # "rejected" /\ options["client"].auther \notin {"none", "huge"}
      BY <2>1, <1>3 DEF Verify
    <3>2. options["client"].auther \in {"small", "large"}
      BY <3>1, <1>7 DEF Authers
    <3>3. verified' = verified \cup {"server"} /\ Other("server") = "client"
      BY <2>1, <1>0 DEF Other
    <3> QED BY <3>2, <3>3 DEF Authenticated, ScallopTypes, Peers
  <2>2. CASE ~(ShouldAskAuth("server") /\ ~panics /\ ~rejects)
    BY <2>2, <1>0 DEF Authenticated, ScallopTypes
  <2> QED BY <2>1, <2>2
<1>10. verified \subseteq verified'
  BY <1>0
<1>13. Records(t) = Records(wire["client"])
  BY <1>1, <1>2, PopMessage DEF HsKinds, Peers
<1>11. ASSUME panics \/ rejects \/ cannot PROVE HandshakeInv' /\ \A p \in Peers : Records(wire'[p]) = Records(wire[p])
  <2>1. /\ wire' = [wire EXCEPT !["client"] = t]
        /\ hs' = [hs EXCEPT !["server"] = IF panics THEN "panic" ELSE "error"]
        /\ closed' = closed \cup {"server"}
    BY <1>11 DEF ServerClientFin
  <2> HIDE DEF m, t
  <2>2. wire' \in [Peers -> Seq(Messages \cup RecordPieces)] /\ wire'["client"] = t /\ wire'["server"] = <<>>
    BY <2>1, <1>1, <1>5 DEF ScallopTypes, Peers
  <2>3. hs'["client"] = hs["client"] /\ hs'["server"] \in {"panic", "error"}
        /\ hs' \in [Peers -> {"start", "msg1", "msg2", "clientfin", "serverfin", "open", "error", "panic"}]
    BY <2>1 DEF ScallopTypes, Peers
  <2>4. ScallopTypes'
    BY <1>0, <1>9, <2>1, <2>2, <2>3 DEF ScallopTypes, Peers
  <2>5. Shape'
    <3>1. \A i \in 2..Len(t) : t[i] \in RecordPieces
      BY <1>5
    <3>2. ~(writer = "client" /\ hs["client"] = "open") => \A i \in 1..Len(t) : t[i] \in Messages
      BY <1>6
    <3> QED BY <3>1, <3>2, <1>0, <2>2, <2>3 DEF Shape, Peers, AllRecords, Other
  <2>6. Handshake'
    BY <1>0, <1>1, <1>4, <2>2, <2>3 DEF Handshake, ShouldAskAuth
  <2>7. Attested'
    BY <1>8, <2>2 DEF Attested, Peers
  <2>8. Authenticated'
    <3>1. \A p \in Peers : hs'[p] = "open" => hs[p] = "open"
      BY <2>3 DEF Peers
    <3> QED BY <3>1, <1>0, <1>9, <1>10 DEF Authenticated
  <2>9. WriterState'
    BY <1>0, <1>1, <2>1, <2>3 DEF WriterState, ScallopTypes, Peers
  <2>10. \A p \in Peers : Records(wire'[p]) = Records(wire[p])
    BY <1>1, <1>13, <2>2 DEF Peers
  <2> QED BY <2>4, <2>5, <2>6, <2>7, <2>8, <2>9, <2>10
<1>12. ASSUME ~(panics \/ rejects \/ cannot) PROVE HandshakeInv' /\ \A p \in Peers : Records(wire'[p]) = Records(wire[p])
  <2>1. /\ wire' = [client |-> t, server |-> IF m.n = 1 THEN Append(wire["server"], f) ELSE wire["server"]]
        /\ hs' = [hs EXCEPT !["server"] = "open"]
        /\ closed' = closed
    BY <1>12 DEF ServerClientFin, Msg
  <2> DEFINE u == IF m.n = 1 THEN <<f>> ELSE <<>>
  <2>2. f \in Messages /\ f.kind = "serverfin" /\ f.data = <<options["server"].auther>>
    BY <1>7 DEF Messages, HsKinds
  <2>3. ShouldAskAuth("server") => "server" \in verified'
    BY <1>12, <1>0
  <2>4. m.n = 1 => options["server"].auther \notin {"none", "huge"}
    BY <1>12
  <2>5. m.n = 1 <=> ShouldAskAuth("client")
    BY <1>3 DEF Ask
  <2> HIDE DEF m, t, f
  <2>6. wire' = [client |-> t, server |-> u]
    <3>1. \A x : Append(<<>>, x) = <<x>>
      OBVIOUS
    <3>2. Append(wire["server"], f) = <<f>>
      BY <3>1, <1>1, Zenon
    <3> QED BY <3>2, <2>1, <1>1, Zenon
  <2>7. u \in Seq(Messages \cup RecordPieces) /\ Len(u) \in {0, 1}
        /\ \A i \in 1..Len(u) : i = 1 /\ u[i] = f
    <3>1. CASE m.n = 1
      <4>1. u = <<f>>
        BY <3>1
      <4>2. <<f>> \in Seq(Messages \cup RecordPieces) /\ Len(<<f>>) = 1 /\ \A i \in 1..1 : i = 1 /\ <<f>>[i] = f
        BY <2>2
      <4> QED BY <4>1, <4>2
    <3>2. CASE m.n # 1
      <4>1. u = <<>>
        BY <3>2
      <4> QED BY <4>1
    <3> QED BY <3>1, <3>2
  <2>8. u # <<>> <=> ShouldAskAuth("client")
    BY <2>5
  <2>9. u # <<>> => u = <<f>>
    OBVIOUS
  <2> HIDE DEF u
  <2>10. wire' \in [Peers -> Seq(Messages \cup RecordPieces)] /\ wire'["client"] = t /\ wire'["server"] = u
    BY <2>6, <2>7, <1>5, WireOf
  <2>11. hs'["client"] = hs["client"] /\ hs'["server"] = "open"
        /\ hs' \in [Peers -> {"start", "msg1", "msg2", "clientfin", "serverfin", "open", "error", "panic"}]
    BY <2>1 DEF ScallopTypes, Peers
  <2>12. ScallopTypes'
    BY <1>0, <1>9, <2>1, <2>10, <2>11 DEF ScallopTypes, Peers
  <2>13. Shape'
    <3>1. \A i \in 2..Len(t) : t[i] \in RecordPieces
      BY <1>5
    <3>2. ~(writer = "client" /\ hs["client"] = "open") => \A i \in 1..Len(t) : t[i] \in Messages
      BY <1>6
    <3>3. \A i \in 2..Len(u) : u[i] \in RecordPieces
      BY <2>7
    <3>4. \A i \in 1..Len(u) : u[i] \in Messages
      BY <2>2, <2>7
    <3>5. hs["client"] = "open" => u = <<>>
      BY <1>1, <2>8 DEF Handshake
    <3> QED BY <3>1, <3>2, <3>3, <3>4, <3>5, <1>0, <1>5, <2>10, <2>11, SMTT(30) DEF Shape, Peers, AllRecords, Other
  <2>14. Handshake'
    <3>1. hs["client"] = "serverfin" => u # <<>> /\ u[1].kind = "serverfin"
      BY <2>2, <2>8, <2>9 DEF Handshake
    <3> QED BY <3>1, <1>0, <1>4, <2>10, <2>11 DEF Handshake, ShouldAskAuth
  <2>15. Attested'
    <3>1. \A i \in 1..Len(u) : u[i].kind = "serverfin" /\ u[i].data = <<options["server"].auther>>
                              /\ options["server"].auther \notin {"none", "huge"}
      <4>1. Len(u) = 1 => m.n = 1
        BY DEF u
      <4> QED BY <4>1, <2>2, <2>4, <2>7
    <3> QED BY <3>1, <1>0, <1>8, <2>10 DEF Attested, Peers
  <2>16. Authenticated'
    <3>1. ShouldAskAuth("server") \/ options["server"].store \in {"none", "known"}
      BY DEF ShouldAskAuth, ScallopTypes, Options, Peers
    <3>2. \A p \in Peers : hs'[p] = "open" => p = "server" \/ hs[p] = "open"
      BY <2>11 DEF Peers
    <3> QED BY <3>1, <3>2, <2>3, <1>0, <1>9, <1>10 DEF Authenticated
  <2>17. WriterState'
    BY <1>0, <1>1, <2>1, <2>11 DEF WriterState, ScallopTypes, Peers
  <2>18. \A p \in Peers : Records(wire'[p]) = Records(wire[p])
    BY <1>1, <1>13, <2>2, <2>9, <2>10, PushMessage DEF Peers
  <2> QED BY <2>18, <2>12, <2>13, <2>14, <2>15, <2>16, <2>17
<1> QED BY <1>11, <1>12

\* The client verifies SERVERFIN.
LEMMA ClientServerFinKeeps ==
  ASSUME HandshakeInv, ClientServerFin
  PROVE  HandshakeInv' /\ \A p \in Peers : Records(wire'[p]) = Records(wire[p])
<1> USE DEF HandshakeInv
<1> DEFINE m == Head(wire["server"])
           ok == Verify("client", m.data)
           t == Tail(wire["server"])
<1>0. /\ UNCHANGED <<options, writer, wbuf, call, accepted, flushed, wroteEmpty, rbuf, pending, mode, received, eof, broken>>
      /\ verified' = IF ok THEN verified \cup {"client"} ELSE verified
      /\ wire' = [wire EXCEPT !["server"] = t]
  BY DEF ClientServerFin, UnchangedByHandshake, fixed, writerVars, readerVars
<1>1. hs["client"] = "serverfin" /\ wire["server"] # <<>> /\ hs["server"] = "open" /\ ShouldAskAuth("client")
  BY DEF ClientServerFin, Handshake, Arrived, Other
<1>2. m.kind = "serverfin" /\ m = wire["server"][1] /\ 1 \in 1..Len(wire["server"])
  BY <1>1, TailOfWire DEF ClientServerFin, Arrived, Other, Peers
<1>3. m.data = <<options["server"].auther>> /\ options["server"].auther \notin {"none", "huge"}
  BY <1>2 DEF Attested, Peers
<1>4. Records(t) = Records(wire["server"])
  BY <1>1, <1>2, PopMessage DEF HsKinds, Peers
<1>5. t \in Seq(Messages \cup RecordPieces) /\ Len(t) \in Nat
      /\ \A i \in 1..Len(t) : t[i] \in RecordPieces
  BY <1>1, TailOfWire DEF Peers
<1>6. "server" # writer => t = <<>>
  BY <1>1, OneMessage DEF Peers
<1>7. options["server"].auther \in Authers
  BY DEF ScallopTypes, Options, Authers, Peers
<1>8. \A i \in 1..Len(t) : t[i].kind \notin {"clientfin", "serverfin"}
  BY <1>5 DEF RecordPieces
<1>9. verified' \subseteq Peers /\ \A p \in Peers : p \in verified' => options[Other(p)].auther \in {"small", "large"}
  <2>1. CASE ok
    <3>1. m.data[1] # "rejected"
      BY <2>1 DEF Verify
    <3>2. options["server"].auther \in {"small", "large"}
      BY <3>1, <1>3, <1>7 DEF Authers
    <3>3. verified' = verified \cup {"client"} /\ Other("client") = "server"
      BY <2>1, <1>0 DEF Other
    <3> QED BY <3>2, <3>3 DEF Authenticated, ScallopTypes, Peers
  <2>2. CASE ~ok
    BY <2>2, <1>0 DEF Authenticated, ScallopTypes
  <2> QED BY <2>1, <2>2
<1>10. verified \subseteq verified' /\ (ok => "client" \in verified')
  BY <1>0
<1>11. \/ ok /\ hs' = [hs EXCEPT !["client"] = "open"] /\ closed' = closed
       \/ ~ok /\ hs' = [hs EXCEPT !["client"] = "error"] /\ closed' = closed \cup {"client"}
  BY DEF ClientServerFin, Fails
<1> HIDE DEF m, t, ok
<1>12. wire' \in [Peers -> Seq(Messages \cup RecordPieces)] /\ wire'["server"] = t /\ wire'["client"] = wire["client"]
  BY <1>0, <1>5 DEF ScallopTypes, Peers
<1>13. hs'["client"] = (IF ok THEN "open" ELSE "error") /\ hs'["server"] = "open"
       /\ hs' \in [Peers -> {"start", "msg1", "msg2", "clientfin", "serverfin", "open", "error", "panic"}]
  BY <1>11, <1>1 DEF ScallopTypes, Peers
<1>14. ScallopTypes'
  BY <1>0, <1>9, <1>11, <1>12, <1>13 DEF ScallopTypes, Peers
<1>15. Shape'
  <2>1. \A i \in 2..Len(t) : t[i] \in RecordPieces
    BY <1>5
  <2>2. ~(writer = "server") => \A i \in 1..Len(t) : t[i] \in Messages
    BY <1>6
  <2>3. \A i \in 2..Len(wire["client"]) : wire["client"][i] \in RecordPieces
    BY DEF Shape, Peers
  <2>4. \A i \in 1..Len(wire["client"]) : wire["client"][i] \in Messages
    BY <1>1 DEF Shape, Peers
  <2>5. AllRecords(wire["client"])
    BY <1>1 DEF Shape, Peers, Other
  <2> QED BY <2>1, <2>2, <2>3, <2>4, <2>5, <1>0, <1>5, <1>12, <1>13 DEF Shape, Peers, AllRecords, Other
<1>16. Handshake'
  BY <1>13 DEF Handshake
<1>17. Attested'
  BY <1>0, <1>8, <1>12 DEF Attested, Peers, Ask, ShouldAskAuth
<1>18. Authenticated'
  <2>1. \A p \in Peers : hs'[p] = "open" => (p = "client" /\ ok) \/ hs[p] = "open"
    BY <1>1, <1>13 DEF Peers
  <2> QED BY <2>1, <1>0, <1>9, <1>10 DEF Authenticated
<1>19. WriterState'
  BY <1>0, <1>1, <1>11, <1>13 DEF WriterState, ScallopTypes, Peers
<1>20. \A p \in Peers : Records(wire'[p]) = Records(wire[p])
  BY <1>12, <1>4 DEF Peers
<1> QED BY <1>20, <1>14, <1>15, <1>16, <1>17, <1>18, <1>19

\* A step that leaves the connection and the handshake alone.
LEMMA QuietKeeps ==
  ASSUME HandshakeInv, UNCHANGED <<options, writer, hs, verified, wire, broken>>, WriterState',
         wbuf' \in Seq(RecordPieces), closed' \subseteq Peers, wroteEmpty' \in BOOLEAN,
         call' \in {"idle", "write", "flush", "shutdown", "done", "failed", "dropped"},
         accepted' \in Nat, accepted' <= MaxBytes, flushed' \in Nat
  PROVE  HandshakeInv'
<1>1. ScallopTypes'
  BY DEF HandshakeInv, ScallopTypes
<1>2. Shape'
  BY DEF HandshakeInv, Shape, AllRecords
<1>3. Handshake' /\ Attested'
  BY DEF HandshakeInv, Handshake, Attested, Ask, ShouldAskAuth
<1>4. Authenticated'
  BY DEF HandshakeInv, Authenticated
<1> QED BY <1>1, <1>2, <1>3, <1>4 DEF HandshakeInv

\* A step that replaces what the writer has on its way by s, which begins as it did or, when
\* the reader has its stream, holds only records.
LEMMA WireKeeps ==
  ASSUME HandshakeInv, NEW s \in Seq(Messages \cup RecordPieces),
         wire' = [wire EXCEPT ![writer] = s],
         UNCHANGED <<options, writer, hs, verified, call, accepted, flushed, wroteEmpty>>,
         broken' \in BOOLEAN, broken => broken', wbuf' \in Seq(RecordPieces), closed' \subseteq Peers, WriterState',
         \A i \in 2..Len(s) : s[i] \in RecordPieces,
         hs[Other(writer)] = "open" => \A i \in 1..Len(s) : s[i] \in RecordPieces,
         hs[writer] # "open" => \A i \in 1..Len(s) : s[i] \in Messages,
         s # <<>> => s[1] \in RecordPieces \/ (wire[writer] # <<>> /\ s[1] = wire[writer][1]),
         s # <<>> /\ hs[Other(writer)] \notin {"open", "error", "panic"} => wire[writer] # <<>> /\ s[1] = wire[writer][1],
         s = <<>> => broken' \/ hs[Other(writer)] = "open",
         s # <<>> => wire[writer] # <<>> \/ hs[writer] = "open"
  PROVE  HandshakeInv'
<1> USE DEF HandshakeInv
<1>1. wire' \in [Peers -> Seq(Messages \cup RecordPieces)] /\ wire'[writer] = s
      /\ \A p \in Peers : p # writer => wire'[p] = wire[p]
  BY DEF ScallopTypes
<1>2. ScallopTypes'
  BY <1>1 DEF ScallopTypes
<1>3. writer \in Peers /\ \A p \in Peers : Other(p) \in Peers /\ Other(p) # p /\ Other(Other(p)) = p
  BY DEF ScallopTypes, Peers, Other
<1>4. Shape'
  <2> SUFFICES ASSUME NEW p \in Peers
               PROVE  /\ \A i \in 2..Len(wire'[p]) : wire'[p][i] \in RecordPieces
                      /\ ~(p = writer /\ hs[p] = "open") => \A i \in 1..Len(wire'[p]) : wire'[p][i] \in Messages
                      /\ hs[p] = "open" => \A i \in 1..Len(wire'[Other(p)]) : wire'[Other(p)][i] \in RecordPieces
    BY DEF Shape, AllRecords
  <2>1. CASE p = writer
    BY <2>1, <1>1, <1>3 DEF Shape, AllRecords
  <2>2. CASE p # writer
    <3>1. p = Other(writer)
      BY <2>2, <1>3 DEF Peers, Other
    <3> QED BY <3>1, <2>2, <1>1, <1>3 DEF Shape, AllRecords
  <2> QED BY <2>1, <2>2
<1>5. Attested'
  <2> SUFFICES ASSUME NEW p \in Peers, NEW i \in 1..Len(wire'[p])
               PROVE  /\ wire'[p][i].kind = "clientfin" =>
                           /\ wire'[p][i].n = Ask("client")
                           /\ \/ wire'[p][i].data = <<>>
                              \/ wire'[p][i].data = <<options["client"].auther>> /\ options["client"].auther \notin {"none", "huge"}
                      /\ wire'[p][i].kind = "serverfin" =>
                           wire'[p][i].data = <<options["server"].auther>> /\ options["server"].auther \notin {"none", "huge"}
    BY DEF Attested, Ask, ShouldAskAuth
  <2>1. CASE p # writer
    BY <2>1, <1>1 DEF Attested
  <2>2. CASE p = writer /\ wire'[p][i] \in RecordPieces
    BY <2>2 DEF RecordPieces
  <2>3. CASE p = writer /\ wire'[p][i] \notin RecordPieces
    <3>1. i = 1 /\ s # <<>>
      BY <2>3, <1>1
    <3>2. wire[writer] # <<>> /\ wire'[p][i] = wire[writer][1]
      BY <3>1, <2>3, <1>1
    <3>3. 1 \in 1..Len(wire[writer])
      BY <3>2, <1>3, TailOfWire
    <3> QED BY <3>2, <3>3, <1>3 DEF Attested
  <2> QED BY <2>1, <2>2, <2>3
<1>6. Handshake'
  <2>3. s # <<>> /\ hs[writer] # "open" => wire[writer] # <<>> /\ s[1] = wire[writer][1]
    <3>1. s # <<>> /\ hs[writer] # "open" => 1 \in 1..Len(s) /\ s[1] \in Messages
      BY EmptySeq
    <3> QED BY <3>1 DEF Messages, RecordPieces, HsKinds
  <2>1. CASE writer = "client"
    <3>1. wire'["client"] = s /\ wire'["server"] = wire["server"] /\ Other(writer) = "server"
      BY <2>1, <1>1 DEF Peers, Other
    <3> QED BY <3>1, <2>1, <2>3, <1>1 DEF Handshake, ShouldAskAuth
  <2>2. CASE writer = "server"
    <3>1. wire'["server"] = s /\ wire'["client"] = wire["client"] /\ Other(writer) = "client"
      BY <2>2, <1>1 DEF Peers, Other
    <3> QED BY <3>1, <2>2, <1>1 DEF Handshake, ShouldAskAuth
  <2> QED BY <2>1, <2>2, <1>3 DEF Peers
<1>7. Authenticated'
  BY DEF Authenticated
<1> QED BY <1>2, <1>4, <1>5, <1>6, <1>7

\* What the base stream takes of wbuf.
LEMMA FlushKeeps ==
  ASSUME HandshakeInv, FlushStep
  PROVE  HandshakeInv'
<1> USE DEF HandshakeInv
<1>1. PICK k \in 1..Len(wbuf) : /\ wire' = [wire EXCEPT ![writer] = @ \o SubSeq(wbuf, 1, k)]
                                /\ wbuf' = SubSeq(wbuf, k + 1, Len(wbuf))
  BY DEF FlushStep
<1>2. UNCHANGED <<options, writer, hs, verified, call, accepted, flushed, wroteEmpty, broken, closed>>
      /\ hs[writer] = "open" /\ call \notin {"done", "failed", "dropped"} /\ ~broken
  BY DEF FlushStep, UnchangedByWriter, fixed, hsVars, CanWrite
<1> DEFINE a == wire[writer]  x == SubSeq(wbuf, 1, k)  y == SubSeq(wbuf, k + 1, Len(wbuf))  s == a \o x
<1>3. a \in Seq(Messages \cup RecordPieces) /\ writer \in Peers /\ wbuf \in Seq(RecordPieces) /\ Len(wbuf) \in Nat /\ k \in Nat
  BY DEF ScallopTypes
<1>4. \A i \in 1..Len(wbuf) : wbuf[i] \in RecordPieces
  BY <1>3
<1>5. x \in Seq(RecordPieces) /\ Len(x) = k /\ \A i \in 1..k : x[i] = wbuf[i]
  <2>1. \A i \in 1..k : wbuf[i] \in RecordPieces
    BY <1>3, <1>4
  <2> QED BY <2>1, <1>3, SubSeqProperties
<1>6. y \in Seq(RecordPieces)
  <2>1. \A i \in (k + 1)..Len(wbuf) : wbuf[i] \in RecordPieces
    BY <1>3, <1>4
  <2> QED BY <2>1, <1>3, SubSeqProperties
<1>7. x \in Seq(Messages \cup RecordPieces)
  BY <1>5, SeqMonotonic
<1>8. s \in Seq(Messages \cup RecordPieces) /\ Len(s) = Len(a) + Len(x) /\ Len(a) \in Nat
      /\ \A i \in 1..(Len(a) + Len(x)) : s[i] = IF i <= Len(a) THEN a[i] ELSE x[i - Len(a)]
  BY <1>3, <1>7, ConcatProperties
<1>9. a = <<>> <=> Len(a) = 0
  BY <1>3
<1>10. \A i \in 1..Len(x) : x[i] \in RecordPieces
  BY <1>5
<1>11. wire' = [wire EXCEPT ![writer] = s] /\ wbuf' = y
  BY <1>1
<1> HIDE DEF s, x, y, a
<1>12. \A i \in (Len(a) + 1)..Len(s) : s[i] \in RecordPieces
  <2> TAKE i \in (Len(a) + 1)..Len(s)
  <2>1. i - Len(a) \in 1..Len(x) /\ ~(i <= Len(a)) /\ i \in 1..(Len(a) + Len(x))
    BY <1>3, <1>5, <1>8
  <2> QED BY <2>1, <1>8, <1>10
<1>13. \A i \in 1..Len(a) : s[i] = a[i] /\ i \in 1..Len(s)
  BY <1>3, <1>5, <1>8
<1>14. a # <<>> => \A i \in 2..Len(s) : s[i] \in RecordPieces
  <2>1. \A i \in 2..Len(a) : a[i] \in RecordPieces
    BY <1>3 DEF Shape, a
  <2> QED BY <1>8, <1>12, <1>13, <2>1
<1>15. Len(s) # 0 /\ s # <<>>
  BY <1>3, <1>5, <1>8
<1>16. (hs[Other(writer)] = "open" => \A i \in 1..Len(s) : s[i] \in RecordPieces)
  <2>1. hs[Other(writer)] = "open" => \A i \in 1..Len(a) : a[i] \in RecordPieces
    BY <1>3 DEF Shape, AllRecords, a, Other, Peers
  <2> QED BY <1>8, <1>12, <1>13, <2>1
<1>17. hs[Other(writer)] # "open" => a # <<>> \/ hs[Other(writer)] \in {"error", "panic"}
  <2>1. CASE writer = "client"
    BY <2>1, <1>2 DEF Handshake, a, Other, ScallopTypes
  <2>2. CASE writer = "server"
    BY <2>2, <1>2 DEF Handshake, a, Other, ScallopTypes
  <2> QED BY <2>1, <2>2, <1>3 DEF Peers
<1>18. s[1] \in RecordPieces \/ (a # <<>> /\ s[1] = a[1])
  BY <1>3, <1>8, <1>9, <1>12, <1>13, <1>15
<1>19. \A i \in 2..Len(s) : s[i] \in RecordPieces
  BY <1>3, <1>8, <1>9, <1>12, <1>14
<1>20. hs[Other(writer)] \notin {"open", "error", "panic"} => a # <<>> /\ s[1] = a[1]
  BY <1>8, <1>9, <1>13, <1>17
<1>21. WriterState'
  BY <1>2 DEF WriterState
<1>22. broken' \in BOOLEAN /\ closed' \subseteq Peers /\ wbuf' \in Seq(RecordPieces)
  BY <1>2, <1>6, <1>11 DEF ScallopTypes
<1> QED BY <1>2, <1>8, <1>11, <1>15, <1>16, <1>18, <1>19, <1>20, <1>21, <1>22, WireKeeps DEF a

\* The loss of the connection.
LEMMA BreakKeeps ==
  ASSUME HandshakeInv, Break
  PROVE  HandshakeInv'
<1> USE DEF HandshakeInv
<1>1. PICK k \in 0..Len(wire[writer]) : wire' = [wire EXCEPT ![writer] = SubSeq(@, 1, k)]
  BY DEF Break
<1>2. UNCHANGED <<options, writer, hs, verified, call, accepted, flushed, wroteEmpty, wbuf>>
      /\ broken' = TRUE /\ closed' = Peers
  BY DEF Break, fixed, hsVars, writerVars
<1> DEFINE a == wire[writer]  s == SubSeq(a, 1, k)
<1>3. a \in Seq(Messages \cup RecordPieces) /\ writer \in Peers /\ Len(a) \in Nat /\ k \in Nat /\ k <= Len(a)
  BY DEF ScallopTypes
<1>4. s \in Seq(Messages \cup RecordPieces) /\ Len(s) = k /\ \A i \in 1..k : s[i] = a[i] /\ i \in 1..Len(a)
  <2>1. \A i \in 1..k : a[i] \in Messages \cup RecordPieces
    BY <1>3
  <2> QED BY <2>1, <1>3, SubSeqProperties
<1>5. wire' = [wire EXCEPT ![writer] = s]
  BY <1>1
<1>6. /\ \A i \in 2..Len(a) : a[i] \in RecordPieces
      /\ hs[writer] # "open" => \A i \in 1..Len(a) : a[i] \in Messages
  BY <1>3 DEF Shape
<1>7. hs[Other(writer)] = "open" => \A i \in 1..Len(a) : a[i] \in RecordPieces
  BY <1>3 DEF Shape, AllRecords, Other, Peers
<1> HIDE DEF a, s
<1>8. /\ \A i \in 2..Len(s) : s[i] \in RecordPieces
      /\ hs[Other(writer)] = "open" => \A i \in 1..Len(s) : s[i] \in RecordPieces
      /\ hs[writer] # "open" => \A i \in 1..Len(s) : s[i] \in Messages
  BY <1>3, <1>4, <1>6, <1>7
<1>9. s # <<>> => a # <<>> /\ s[1] = a[1]
  <2>1. s # <<>> => Len(s) # 0
    BY <1>4
  <2>2. a = <<>> => Len(a) = 0
    OBVIOUS
  <2> QED BY <2>1, <2>2, <1>3, <1>4
<1>10. WriterState'
  BY <1>2 DEF WriterState
<1> QED BY <1>2, <1>4, <1>5, <1>8, <1>9, <1>10, WireKeeps DEF a, ScallopTypes

\* What the reader takes from the base stream.
LEMMA FillKeeps ==
  ASSUME HandshakeInv, NEW k \in 1..Len(wire[writer]), hs[Other(writer)] = "open",
         wire' = [wire EXCEPT ![writer] = SubSeq(@, k + 1, Len(@))],
         UNCHANGED <<options, writer, hs, verified, closed, wbuf, call, accepted, flushed, wroteEmpty, broken>>
  PROVE  HandshakeInv'
<1> USE DEF HandshakeInv
<1> DEFINE a == wire[writer]  s == SubSeq(a, k + 1, Len(a))
<1>3. a \in Seq(Messages \cup RecordPieces) /\ writer \in Peers /\ Len(a) \in Nat /\ k \in Nat /\ k <= Len(a) /\ 1 <= k
  BY DEF ScallopTypes
<1>7. \A i \in 1..Len(a) : a[i] \in RecordPieces
  BY <1>3 DEF Shape, AllRecords, Other, Peers
<1>4. s \in Seq(RecordPieces)
  <2>1. \A i \in (k + 1)..Len(a) : a[i] \in RecordPieces
    BY <1>3, <1>7
  <2> QED BY <2>1, <1>3, SubSeqProperties
<1>5. wire' = [wire EXCEPT ![writer] = s]
  OBVIOUS
<1>6. hs[writer] = "open"
  <2>1. 1 \in 1..Len(a)
    BY <1>3
  <2>2. a[1] \notin Messages
    BY <2>1, <1>7 DEF Messages, RecordPieces, HsKinds
  <2> QED BY <2>1, <2>2, <1>3 DEF Shape
<1> HIDE DEF a, s
<1>8. \A i \in 1..Len(s) : s[i] \in RecordPieces
  BY <1>4
<1>9. s \in Seq(Messages \cup RecordPieces)
  BY <1>4, SeqMonotonic
<1>10. \A i \in 2..Len(s) : s[i] \in RecordPieces
  BY <1>4, <1>8
<1>11. s # <<>> => s[1] \in RecordPieces
  BY <1>4, EmptySeq
<1>12. WriterState'
  BY DEF WriterState
<1> QED BY <1>5, <1>6, <1>8, <1>9, <1>10, <1>11, <1>12, WireKeeps DEF ScallopTypes

\* A step of the channel other than of the handshake and Fill leaves the handshake's invariant.
LEMMA WriterKeeps ==
  ASSUME HandshakeInv,
         Call \/ PollWrite \/ PollFlush \/ PollShutdown \/ PollErr \/ DropStream \/ Deliver \/ ReadEof
         \/ UNCHANGED scallopVars
  PROVE  HandshakeInv'
<1> USE DEF HandshakeInv
<1>1. CASE Call
  BY <1>1, QuietKeeps DEF Call, CanWrite, UnchangedByWriter, fixed, hsVars, WriterState, ScallopTypes
<1>2. CASE PollFlush
  BY <1>2, QuietKeeps DEF PollFlush, CanWrite, UnchangedByWriter, fixed, hsVars, WriterState, ScallopTypes
<1>3. CASE PollShutdown
  BY <1>3, QuietKeeps DEF PollShutdown, CanWrite, UnchangedByWriter, fixed, hsVars, WriterState, ScallopTypes, Peers
<1>4. CASE PollErr
  BY <1>4, QuietKeeps DEF PollErr, CanWrite, UnchangedByWriter, fixed, hsVars, WriterState, ScallopTypes
<1>5. CASE DropStream
  BY <1>5, QuietKeeps DEF DropStream, CanWrite, UnchangedByWriter, fixed, hsVars, WriterState, ScallopTypes, Peers
<1>6. CASE Deliver
  BY <1>6, QuietKeeps DEF Deliver, UnchangedByReader, fixed, hsVars, writerVars, WriterState, ScallopTypes
<1>7. CASE ReadEof
  BY <1>7, QuietKeeps DEF ReadEof, UnchangedByReader, fixed, hsVars, writerVars, WriterState, ScallopTypes
<1>8. CASE UNCHANGED scallopVars
  BY <1>8, QuietKeeps DEF scallopVars, WriterState, ScallopTypes
<1>9. CASE PollWrite
  <2>1. PICK len \in 0..(MaxBytes - accepted) :
          LET taken == IF len < MaxRecord THEN len ELSE MaxRecord IN
          /\ wbuf' = Record([first |-> accepted, len |-> taken])
          /\ accepted' = accepted + taken
          /\ wroteEmpty' = (wroteEmpty \/ len = 0)
    BY <1>9 DEF PollWrite
  <2> DEFINE taken == IF len < MaxRecord THEN len ELSE MaxRecord
             d == [first |-> accepted, len |-> taken]
  <2>2. accepted \in Nat /\ taken \in Nat /\ accepted + taken \in Nat /\ accepted + taken <= MaxBytes
    BY BoundsAssumption DEF ScallopTypes
  <2>3. d \in Plaintexts /\ d.len = taken
    BY <2>2 DEF Plaintexts
  <2>4. wbuf' = Record(d) /\ accepted' = accepted + taken /\ wroteEmpty' = (wroteEmpty \/ len = 0)
    BY <2>1
  <2> HIDE DEF d, taken
  <2>5. Record(d) \in Seq(RecordPieces)
    <3>1. \A i \in 1..(d.len + 3) : Piece(d, i) \in RecordPieces
      BY <2>2, <2>3 DEF Piece, RecordPieces
    <3>2. d.len + 3 \in Nat
      BY <2>2, <2>3
    <3> QED BY <3>1, <3>2 DEF Record
  <2>6. UNCHANGED <<options, writer, hs, verified, wire, broken, closed, flushed>>
        /\ hs[writer] = "open" /\ call' = "idle" /\ ~broken /\ call = "write"
    BY <1>9 DEF PollWrite, CanWrite, UnchangedByWriter, fixed, hsVars
  <2>7. WriterState'
    BY <2>6 DEF WriterState
  <2> QED BY <2>2, <2>4, <2>5, <2>6, <2>7, QuietKeeps DEF ScallopTypes
<1> QED BY <1>1, <1>2, <1>3, <1>4, <1>5, <1>6, <1>7, <1>8, <1>9

\* All steps of the channel keep the handshake's invariant.
LEMMA HandshakeStepKeeps ==
  ASSUME HandshakeInv, [ScallopNext]_scallopVars
  PROVE  HandshakeInv'
<1>1. ASSUME NEW p \in Peers, HandshakeStep(p) PROVE HandshakeInv'
  BY <1>1, HandshakeEofKeeps, ClientStartKeeps, ClientMsg2Keeps, ClientServerFinKeeps, ServerMsg1Keeps, ServerClientFinKeeps
  DEF HandshakeStep
<1>2. CASE Fill
  <2>1. PICK k \in 1..pending : k <= Len(wire[writer]) /\ wire' = [wire EXCEPT ![writer] = SubSeq(@, k + 1, Len(@))]
    BY <1>2 DEF Fill
  <2>2. UNCHANGED <<options, writer, hs, verified, closed, wbuf, call, accepted, flushed, wroteEmpty, broken>>
        /\ hs[Other(writer)] = "open"
    BY <1>2 DEF Fill, CanRead, reader, UnchangedByReader, fixed, hsVars, writerVars
  <2>3. k \in 1..Len(wire[writer])
    <3>1. Len(wire[writer]) \in Nat
      BY DEF HandshakeInv, ScallopTypes
    <3> QED BY <3>1, <2>1
  <2> QED BY <2>1, <2>2, <2>3, FillKeeps
<1> QED BY <1>1, <1>2, FlushKeeps, BreakKeeps, WriterKeeps DEF ScallopNext, WriterStep, ReaderStep

\* The invariant of the handshake and of the writer's state.
THEOREM HandshakeInvariance == ScallopSpec => []HandshakeInv
<1>1. ScallopInit => HandshakeInv
  BY HandshakeInit
<1>2. HandshakeInv /\ [ScallopNext]_scallopVars => HandshakeInv'
  BY HandshakeStepKeeps
<1> QED BY <1>1, <1>2, PTL DEF ScallopSpec

\* No peer takes an unverified remote for a verified one, whatever either of them asks for and
\* wherever the handshake or the connection ends (client_handshake and server_handshake).
THEOREM PeersAreAuthenticated == ScallopSpec => []Authenticated
<1>1. HandshakeInv => Authenticated
  BY DEF HandshakeInv
<1> QED BY <1>1, HandshakeInvariance, PTL

-----------------------------------------------------------------------------
(* What the reader has yet to read                                         *)

\* A sequence is one over any set that holds its elements.
LEMMA NarrowSeq ==
  ASSUME NEW S, NEW T, NEW q \in Seq(S), \A i \in 1..Len(q) : q[i] \in T
  PROVE  q \in Seq(T)
OBVIOUS

\* The records on their way.
LEMMA RecordsOfWire ==
  ASSUME HandshakeInv
  PROVE  /\ Records(wire[writer]) \in Seq(RecordPieces)
         /\ hs[Other(writer)] = "open" => Records(wire[writer]) = wire[writer]
<1> USE DEF HandshakeInv
<1> DEFINE a == wire[writer]
<1>1. writer \in Peers /\ a \in Seq(Messages \cup RecordPieces) /\ Len(a) \in Nat
  BY DEF ScallopTypes
<1>2. a # <<>> => 1 \in 1..Len(a) /\ a[1] \in Messages \cup RecordPieces
  BY <1>1, EmptySeq
<1>3. \A i \in 2..Len(a) : a[i] \in RecordPieces
  BY <1>1 DEF Shape
<1>4. Messages \cap RecordPieces = {}
  BY DEF Messages, RecordPieces, HsKinds
<1>5. CASE a # <<>> /\ a[1] \in Messages
  <2>1. Records(a) = Tail(a)
    BY <1>5 DEF Records
  <2>2. Tail(a) \in Seq(Messages \cup RecordPieces) /\ \A i \in 1..Len(Tail(a)) : Tail(a)[i] \in RecordPieces
    BY <1>1, <1>5, TailOfWire
  <2>3. Tail(a) \in Seq(RecordPieces)
    BY <2>2, NarrowSeq
  <2>4. hs[Other(writer)] # "open"
    BY <1>1, <1>2, <1>4, <1>5 DEF Shape, AllRecords, Other, Peers
  <2> QED BY <2>1, <2>3, <2>4
<1>6. CASE ~(a # <<>> /\ a[1] \in Messages)
  <2>1. Records(a) = a
    BY <1>6 DEF Records
  <2>2. \A i \in 1..Len(a) : a[i] \in RecordPieces
    <3> TAKE i \in 1..Len(a)
    <3>1. i = 1 \/ i \in 2..Len(a)
      BY <1>1
    <3>2. a # <<>>
      OBVIOUS
    <3> QED BY <3>1, <3>2, <1>2, <1>3, <1>6
  <2>3. a \in Seq(RecordPieces)
    BY <1>1, <2>2
  <2> QED BY <2>1, <2>3
<1> QED BY <1>5, <1>6

\* Rest and its two parts.
RestParts ==
  LET r == Records(wire[writer])
      b == IF broken THEN <<>> ELSE wbuf
  IN  /\ Rest \in Seq(RecordPieces) /\ Len(Rest) \in Nat
      /\ r \in Seq(RecordPieces) /\ Len(r) \in Nat /\ b \in Seq(RecordPieces) /\ Len(b) \in Nat
      /\ Len(Rest) = Len(r) + Len(b)
      /\ \A i \in 1..Len(Rest) : Rest[i] = IF i <= Len(r) THEN r[i] ELSE b[i - Len(r)]

\* Rest is made of them.
LEMMA RestHasParts == HandshakeInv => RestParts
<1> SUFFICES ASSUME HandshakeInv PROVE RestParts
  OBVIOUS
<1> DEFINE r == Records(wire[writer])
           b == IF broken THEN <<>> ELSE wbuf
<1>1. r \in Seq(RecordPieces) /\ b \in Seq(RecordPieces)
  BY RecordsOfWire DEF HandshakeInv, ScallopTypes
<1>2. Rest = r \o b
  BY DEF Rest
<1> HIDE DEF r, b
<1>3. /\ r \o b \in Seq(RecordPieces)
      /\ Len(r \o b) = Len(r) + Len(b)
      /\ \A i \in 1..(Len(r) + Len(b)) : (r \o b)[i] = IF i <= Len(r) THEN r[i] ELSE b[i - Len(r)]
  BY <1>1, ConcatProperties
<1>4. Len(r) \in Nat /\ Len(b) \in Nat
  BY <1>1
<1>5. Len(Rest) \in Nat
  BY <1>2, <1>3, <1>4
<1> QED BY <1>1, <1>2, <1>3, <1>4, <1>5 DEF RestParts, r, b

\* And so it is after a step.
LEMMA RestHasPartsNext == HandshakeInv' => RestParts'
BY RestHasParts, PTL

\* Two rests that agree piece by piece.
LEMMA SameRest ==
  ASSUME RestParts, RestParts', Len(Rest') = Len(Rest), \A i \in 1..Len(Rest) : Rest'[i] = Rest[i]
  PROVE  Rest' = Rest
<1>1. Rest \in Seq(RecordPieces) /\ Rest' \in Seq(RecordPieces)
  BY DEF RestParts
<1> QED BY <1>1, SeqEqual

\* A sequence of pieces without its first one.
LEMMA TailOfPieces ==
  ASSUME NEW S, NEW s \in Seq(S), s # <<>>
  PROVE  Len(Tail(s)) = Len(s) - 1 /\ \A i \in 1..Len(Tail(s)) : Tail(s)[i] = s[i + 1]
<1>1. Len(s) \in Nat \ {0}
  BY EmptySeq
<1> QED BY <1>1, HeadTailProperties

\* What goes from wbuf to the connection stays in its place.
LEMMA RestFlush ==
  ASSUME HandshakeInv, HandshakeInv', FlushStep
  PROVE  Rest' = Rest
<1>1. PICK k \in 1..Len(wbuf) : /\ wire' = [wire EXCEPT ![writer] = @ \o SubSeq(wbuf, 1, k)]
                                /\ wbuf' = SubSeq(wbuf, k + 1, Len(wbuf))
  BY DEF FlushStep
<1>2. UNCHANGED <<writer, broken>> /\ ~broken
  BY DEF FlushStep, UnchangedByWriter, fixed, CanWrite
<1> DEFINE a == wire[writer]  x == SubSeq(wbuf, 1, k)  y == SubSeq(wbuf, k + 1, Len(wbuf))  r == Records(a)
<1>3. a \in Seq(Messages \cup RecordPieces) /\ writer \in Peers /\ wbuf \in Seq(RecordPieces) /\ Len(wbuf) \in Nat
      /\ k \in Nat /\ 1 <= k /\ k <= Len(wbuf) /\ Len(a) \in Nat
  BY DEF HandshakeInv, ScallopTypes
<1>4. \A i \in 1..Len(wbuf) : wbuf[i] \in RecordPieces
  BY <1>3
<1>5. x \in Seq(RecordPieces) /\ Len(x) = k /\ \A i \in 1..k : x[i] = wbuf[i]
  <2>1. \A i \in 1..k : wbuf[i] \in RecordPieces
    BY <1>3, <1>4
  <2> QED BY <2>1, <1>3, SubSeqProperties
<1>6. Len(y) = Len(wbuf) - k /\ \A i \in 1..(Len(wbuf) - k) : y[i] = wbuf[k + i]
  <2>1. \A i \in (k + 1)..Len(wbuf) : wbuf[i] \in RecordPieces
    BY <1>3, <1>4
  <2>2. Len(y) = (IF k + 1 <= Len(wbuf) THEN Len(wbuf) - (k + 1) + 1 ELSE 0)
        /\ \A i \in 1..(Len(wbuf) - (k + 1) + 1) : y[i] = wbuf[k + 1 + i - 1]
    BY <2>1, <1>3, SubSeqProperties
  <2> QED BY <2>2, <1>3
<1>7. wire'[writer] = a \o x
  BY <1>1, <1>3 DEF HandshakeInv, ScallopTypes
<1>8. RestParts /\ RestParts'
  BY RestHasParts, RestHasPartsNext
<1>9. Len(Rest) = Len(r) + Len(wbuf) /\ Len(r) \in Nat
      /\ \A i \in 1..Len(Rest) : Rest[i] = IF i <= Len(r) THEN r[i] ELSE wbuf[i - Len(r)]
  BY <1>2, <1>8 DEF RestParts
<1> DEFINE q == Records(a \o x)
<1>10. Len(Rest') = Len(q) + Len(y) /\ Len(q) \in Nat
      /\ \A i \in 1..Len(Rest') : Rest'[i] = IF i <= Len(q) THEN q[i] ELSE y[i - Len(q)]
  BY <1>1, <1>2, <1>7, <1>8 DEF RestParts
<1>11. x \in Seq(Messages \cup RecordPieces)
  BY <1>5, SeqMonotonic
<1> HIDE DEF x, y, a
<1>12. a \o x \in Seq(Messages \cup RecordPieces) /\ Len(a \o x) = Len(a) + k
       /\ \A i \in 1..(Len(a) + k) : (a \o x)[i] = IF i <= Len(a) THEN a[i] ELSE x[i - Len(a)]
  BY <1>3, <1>5, <1>11, ConcatProperties
<1>13. Len(q) = Len(r) + k /\ \A i \in 1..(Len(r) + k) : q[i] = IF i <= Len(r) THEN r[i] ELSE x[i - Len(r)]
  <2>1. CASE a # <<>> /\ a[1] \in Messages
    <3>1. Len(a) # 0 /\ 1 <= Len(a)
      BY <1>3, <2>1, EmptySeq
    <3>2. r = Tail(a) /\ Len(r) = Len(a) - 1 /\ \A i \in 1..Len(r) : r[i] = a[i + 1]
      BY <2>1, <1>3, HeadTailProperties DEF Records
    <3>3. (a \o x) # <<>> /\ (a \o x)[1] = a[1]
      BY <1>3, <1>12, <3>1
    <3>4. q = Tail(a \o x)
      BY <3>3, <2>1 DEF Records
    <3>5. Len(q) = Len(a) + k - 1 /\ \A i \in 1..Len(q) : q[i] = (a \o x)[i + 1]
      <4> DEFINE t == a \o x
      <4>1. t \in Seq(Messages \cup RecordPieces) /\ t # <<>> /\ q = Tail(t) /\ Len(t) = Len(a) + k
        BY <3>3, <3>4, <1>12
      <4> HIDE DEF t, q
      <4>2. Len(Tail(t)) = Len(t) - 1 /\ \A i \in 1..Len(Tail(t)) : Tail(t)[i] = t[i + 1]
        BY <4>1, TailOfPieces
      <4>3. Len(q) = Len(a) + k - 1 /\ \A i \in 1..Len(q) : q[i] = t[i + 1]
        BY <4>1, <4>2
      <4> QED BY <4>3 DEF t
    <3> HIDE DEF r, q
    <3> QED BY <3>1, <3>2, <3>5, <1>3, <1>12
  <2>2. CASE ~(a # <<>> /\ a[1] \in Messages)
    <3>1. r = a
      BY <2>2 DEF Records
    <3>2. (a \o x)[1] \notin Messages
      <4>1. CASE a = <<>>
        <5>1. Len(a) = 0
          BY <4>1
        <5>2. (a \o x)[1] = x[1] /\ 1 \in 1..Len(wbuf)
          BY <5>1, <1>3, <1>12
        <5>3. x[1] \in RecordPieces
          BY <5>2, <1>3, <1>4, <1>5
        <5> QED BY <5>2, <5>3 DEF Messages, RecordPieces, HsKinds
      <4>2. CASE a # <<>>
        <5>1. 1 <= Len(a)
          BY <1>3, <4>2, EmptySeq
        <5> QED BY <5>1, <1>3, <1>12, <2>2, <4>2
      <4> QED BY <4>1, <4>2
    <3>3. q = a \o x
      BY <3>2 DEF Records
    <3> HIDE DEF r, q
    <3> QED BY <3>1, <3>3, <1>12
  <2> QED BY <2>1, <2>2
<1> HIDE DEF r, q
<1>14. Len(Rest') = Len(Rest)
  BY <1>3, <1>6, <1>9, <1>10, <1>13
<1>15. \A i \in 1..Len(Rest) : Rest'[i] = Rest[i]
  <2> TAKE i \in 1..Len(Rest)
  <2>1. CASE i <= Len(r)
    BY <2>1, <1>3, <1>9, <1>10, <1>13, <1>14
  <2>2. CASE i > Len(r) /\ i <= Len(r) + k
    <3>1. i - Len(r) \in 1..k /\ i \in 1..(Len(r) + k) /\ ~(i <= Len(r)) /\ i <= Len(q)
      BY <2>2, <1>3, <1>9, <1>13
    <3>2. q[i] = x[i - Len(r)]
      BY <3>1, <1>13
    <3>3. x[i - Len(r)] = wbuf[i - Len(r)]
      BY <3>1, <1>5
    <3>4. Rest'[i] = q[i]
      BY <3>1, <1>10, <1>14
    <3>5. Rest[i] = wbuf[i - Len(r)]
      BY <3>1, <1>9
    <3> QED BY <3>2, <3>3, <3>4, <3>5
  <2>3. CASE i > Len(r) + k
    <3>1. i - Len(r) - k \in 1..(Len(wbuf) - k) /\ k + (i - Len(r) - k) = i - Len(r) /\ i - Len(q) = i - Len(r) - k
          /\ ~(i <= Len(q)) /\ ~(i <= Len(r))
      BY <2>3, <1>3, <1>9, <1>13, SMTT(30)
    <3>2. Rest'[i] = y[i - Len(r) - k]
      BY <3>1, <1>10, <1>14
    <3>3. y[i - Len(r) - k] = wbuf[i - Len(r)]
      BY <3>1, <1>6
    <3> QED BY <3>1, <3>2, <3>3, <1>9
  <2> QED BY <2>1, <2>2, <2>3, <1>9, <1>3
<1> QED BY <1>8, <1>14, <1>15, SameRest

\* poll_write adds a record at the end.
LEMMA RestWrite ==
  ASSUME HandshakeInv, HandshakeInv', NEW d \in Plaintexts,
         UNCHANGED <<writer, wire, broken>>, ~broken, wbuf = <<>>, wbuf' = Record(d)
  PROVE  /\ Rest \in Seq(RecordPieces) /\ Len(Rest) \in Nat /\ Rest' \in Seq(RecordPieces)
         /\ Len(Rest') = Len(Rest) + d.len + 3
         /\ \A i \in 1..Len(Rest) : Rest'[i] = Rest[i]
         /\ \A i \in 1..(d.len + 3) : Rest'[Len(Rest) + i] = Piece(d, i)
<1>1. RestParts /\ RestParts'
  BY RestHasParts, RestHasPartsNext
<1> DEFINE r == Records(wire[writer])
<1>2. Len(wbuf) = 0 /\ d.len \in Nat
  BY DEF Plaintexts
<1>3. Len(Rest) = Len(r) /\ Len(r) \in Nat /\ Rest \in Seq(RecordPieces) /\ Rest' \in Seq(RecordPieces)
      /\ \A i \in 1..Len(Rest) : Rest[i] = r[i]
  BY <1>1, <1>2 DEF RestParts
<1>4. Len(Rest') = Len(r) + Len(wbuf')
      /\ \A i \in 1..Len(Rest') : Rest'[i] = IF i <= Len(r) THEN r[i] ELSE wbuf'[i - Len(r)]
  BY <1>1 DEF RestParts
<1>5. Len(wbuf') = d.len + 3 /\ \A i \in 1..(d.len + 3) : wbuf'[i] = Piece(d, i)
  BY <1>2 DEF Record
<1> HIDE DEF r
<1>6. \A i \in 1..Len(Rest) : Rest'[i] = Rest[i]
  <2> TAKE i \in 1..Len(Rest)
  <2>1. i \in 1..Len(Rest') /\ i <= Len(r)
    BY <1>2, <1>3, <1>4, <1>5, SMTT(30)
  <2> QED BY <2>1, <1>3, <1>4
<1>7. \A i \in 1..(d.len + 3) : Rest'[Len(Rest) + i] = Piece(d, i)
  <2> TAKE i \in 1..(d.len + 3)
  <2>1. Len(Rest) + i \in 1..Len(Rest') /\ ~(Len(Rest) + i <= Len(r)) /\ Len(Rest) + i - Len(r) = i
    BY <1>2, <1>3, <1>4, <1>5, SMTT(30)
  <2> QED BY <2>1, <1>4, <1>5
<1> QED BY <1>2, <1>3, <1>4, <1>5, <1>6, <1>7

\* The loss of the connection leaves the beginning.
LEMMA RestBreak ==
  ASSUME HandshakeInv, HandshakeInv', Break
  PROVE  /\ Rest \in Seq(RecordPieces) /\ Len(Rest) \in Nat /\ Rest' \in Seq(RecordPieces) /\ Len(Rest') \in Nat
         /\ Len(Rest') <= Len(Rest) /\ \A i \in 1..Len(Rest') : Rest'[i] = Rest[i]
<1>1. PICK k \in 0..Len(wire[writer]) : wire' = [wire EXCEPT ![writer] = SubSeq(@, 1, k)]
  BY DEF Break
<1>2. UNCHANGED <<writer, wbuf>> /\ broken' /\ ~broken
  BY DEF Break, fixed, writerVars
<1> DEFINE a == wire[writer]  z == SubSeq(a, 1, k)  r == Records(a)  q == Records(z)
<1>3. a \in Seq(Messages \cup RecordPieces) /\ writer \in Peers /\ Len(a) \in Nat /\ k \in Nat /\ k <= Len(a)
  BY DEF HandshakeInv, ScallopTypes
<1>4. z \in Seq(Messages \cup RecordPieces) /\ Len(z) = k /\ \A i \in 1..k : z[i] = a[i]
  <2>1. \A i \in 1..k : a[i] \in Messages \cup RecordPieces
    BY <1>3
  <2> QED BY <2>1, <1>3, SubSeqProperties
<1>5. wire'[writer] = z
  BY <1>1, <1>3 DEF HandshakeInv, ScallopTypes
<1>6. RestParts /\ RestParts'
  BY RestHasParts, RestHasPartsNext
<1>7. Len(Rest) = Len(r) + Len(wbuf) /\ Len(r) \in Nat /\ Len(wbuf) \in Nat
      /\ \A i \in 1..Len(Rest) : i <= Len(r) => Rest[i] = r[i]
  BY <1>2, <1>6 DEF RestParts
<1>8. Len(Rest') = Len(q) /\ Len(q) \in Nat /\ \A i \in 1..Len(Rest') : Rest'[i] = q[i]
  <2> DEFINE b == IF broken' THEN <<>> ELSE wbuf'
  <2>1. Len(b) = 0
    BY <1>2
  <2>2. Len(Rest') = Len(q) + Len(b) /\ Len(q) \in Nat
        /\ \A i \in 1..Len(Rest') : Rest'[i] = IF i <= Len(q) THEN q[i] ELSE b[i - Len(q)]
    BY <1>2, <1>5, <1>6 DEF RestParts
  <2> HIDE DEF b, q
  <2> QED BY <2>1, <2>2
<1> HIDE DEF a, z
<1>9. Len(q) <= Len(r) /\ \A i \in 1..Len(q) : q[i] = r[i]
  <2>1. CASE z = <<>>
    <3>1. q = <<>>
      BY <2>1 DEF Records
    <3>2. Len(q) = 0
      BY <3>1
    <3> QED BY <3>2, <1>7
  <2>2. CASE z # <<>>
    <3>1. k # 0 /\ 1 <= k /\ z[1] = a[1] /\ a # <<>>
      BY <2>2, <1>3, <1>4, EmptySeq
    <3>2. CASE a[1] \in Messages
      <4>1. r = Tail(a) /\ Len(r) = Len(a) - 1 /\ \A i \in 1..Len(r) : r[i] = a[i + 1]
        BY <3>1, <3>2, <1>3, HeadTailProperties DEF Records
      <4>2. q = Tail(z) /\ Len(q) = k - 1 /\ \A i \in 1..Len(q) : q[i] = z[i + 1]
        BY <2>2, <3>1, <3>2, <1>4, HeadTailProperties DEF Records
      <4> HIDE DEF r, q
      <4> QED BY <4>1, <4>2, <3>1, <1>3, <1>4
    <3>3. CASE a[1] \notin Messages
      <4>1. r = a /\ q = z
        BY <3>1, <3>3 DEF Records
      <4> HIDE DEF r, q
      <4> QED BY <4>1, <1>3, <1>4
    <3> QED BY <3>2, <3>3
  <2> QED BY <2>1, <2>2
<1> HIDE DEF r, q
<1>10. Len(Rest') <= Len(Rest) /\ \A i \in 1..Len(Rest') : Rest'[i] = Rest[i]
  BY <1>7, <1>8, <1>9
<1>11. Rest \in Seq(RecordPieces) /\ Len(Rest) \in Nat /\ Rest' \in Seq(RecordPieces) /\ Len(Rest') \in Nat
  BY <1>6 DEF RestParts
<1> QED BY <1>10, <1>11

\* The reader takes the first k pieces.
LEMMA RestFill ==
  ASSUME HandshakeInv, HandshakeInv', NEW k \in 1..Len(wire[writer]), hs[Other(writer)] = "open",
         wire' = [wire EXCEPT ![writer] = SubSeq(@, k + 1, Len(@))],
         UNCHANGED <<writer, wbuf, hs, broken>>
  PROVE  /\ Rest \in Seq(RecordPieces) /\ Len(Rest) \in Nat /\ Rest' \in Seq(RecordPieces) /\ Len(Rest') \in Nat
         /\ k <= Len(Rest) /\ Len(Rest') = Len(Rest) - k
         /\ \A i \in 1..Len(Rest') : Rest'[i] = Rest[i + k]
         /\ SubSeq(wire[writer], 1, k) \in Seq(RecordPieces) /\ Len(SubSeq(wire[writer], 1, k)) = k
         /\ \A i \in 1..k : SubSeq(wire[writer], 1, k)[i] = Rest[i]
<1> DEFINE a == wire[writer]  z == SubSeq(a, k + 1, Len(a))  x == SubSeq(a, 1, k)
           b == IF broken THEN <<>> ELSE wbuf
<1>1. Records(a) = a /\ a \in Seq(RecordPieces) /\ Len(a) \in Nat /\ k \in Nat /\ 1 <= k /\ k <= Len(a)
  BY RecordsOfWire
<1>2. wire'[writer] = z /\ writer \in Peers
  BY DEF HandshakeInv, ScallopTypes
<1>3. Records(wire'[writer]) = z
  <2>1. HandshakeInv' => (hs[Other(writer)] = "open" => Records(wire[writer]) = wire[writer])'
    BY RecordsOfWire, PTL
  <2>2. Records(wire'[writer']) = wire'[writer']
    BY <2>1
  <2> QED BY <2>2, <1>2
<1>4. z \in Seq(RecordPieces) /\ Len(z) = Len(a) - k /\ \A i \in 1..(Len(a) - k) : z[i] = a[i + k]
  <2>1. \A i \in (k + 1)..Len(a) : a[i] \in RecordPieces
    BY <1>1
  <2>2. z \in Seq(RecordPieces) /\ Len(z) = (IF k + 1 <= Len(a) THEN Len(a) - (k + 1) + 1 ELSE 0)
        /\ \A i \in 1..(Len(a) - (k + 1) + 1) : z[i] = a[k + 1 + i - 1]
    BY <2>1, <1>1, SubSeqProperties
  <2>3. \A i \in 1..(Len(a) - k) : k + 1 + i - 1 = i + k /\ i \in 1..(Len(a) - (k + 1) + 1)
    BY <1>1
  <2> HIDE DEF a, z
  <2> QED BY <2>2, <2>3, <1>1
<1>5. x \in Seq(RecordPieces) /\ Len(x) = k /\ \A i \in 1..k : x[i] = a[i]
  <2>1. \A i \in 1..k : a[i] \in RecordPieces
    BY <1>1
  <2> QED BY <2>1, <1>1, SubSeqProperties
<1>6. RestParts /\ RestParts'
  BY RestHasParts, RestHasPartsNext
<1>7. Rest \in Seq(RecordPieces) /\ Len(Rest) \in Nat /\ Len(b) \in Nat /\ Len(Rest) = Len(a) + Len(b)
      /\ \A i \in 1..Len(Rest) : Rest[i] = IF i <= Len(a) THEN a[i] ELSE b[i - Len(a)]
  BY <1>1, <1>6 DEF RestParts
<1>8. Rest' \in Seq(RecordPieces) /\ Len(Rest') \in Nat /\ Len(Rest') = Len(z) + Len(b)
      /\ \A i \in 1..Len(Rest') : Rest'[i] = IF i <= Len(z) THEN z[i] ELSE b[i - Len(z)]
  <2>1. (IF broken' THEN <<>> ELSE wbuf') = b
    OBVIOUS
  <2> QED BY <2>1, <1>3, <1>6 DEF RestParts
<1> HIDE DEF a, b, x, z
<1>9. Len(Rest') = Len(Rest) - k /\ k <= Len(Rest)
  BY <1>1, <1>4, <1>7, <1>8, SMTT(30)
<1>10. \A i \in 1..Len(Rest') : Rest'[i] = Rest[i + k]
  <2> TAKE i \in 1..Len(Rest')
  <2>1. i + k \in 1..Len(Rest)
    BY <1>1, <1>7, <1>9
  <2>2. CASE i <= Len(z)
    <3>1. i \in 1..(Len(a) - k) /\ i + k <= Len(a)
      BY <2>2, <1>1, <1>4, <1>8, SMTT(30)
    <3> QED BY <3>1, <2>1, <2>2, <1>4, <1>7, <1>8
  <2>3. CASE ~(i <= Len(z))
    <3>1. ~(i + k <= Len(a)) /\ i - Len(z) = i + k - Len(a)
      BY <2>3, <1>1, <1>4, <1>8, SMTT(30)
    <3> QED BY <3>1, <2>1, <2>3, <1>7, <1>8, SMTT(30)
  <2> QED BY <2>2, <2>3
<1>11. \A i \in 1..k : x[i] = Rest[i]
  BY <1>1, <1>5, <1>7, SMTT(30)
<1> QED BY <1>5, <1>7, <1>8, <1>9, <1>10, <1>11 DEF x, a

-----------------------------------------------------------------------------
(* The stream                                                              *)

\* A piece tells its record and its place in it.
LEMMA PieceFacts ==
  ASSUME NEW d \in Plaintexts, NEW i \in Nat, i > 0
  PROVE  Place(Piece(d, i)) = i /\ Piece(d, i).data = d /\ Piece(d, i) \in RecordPieces
BY DEF Place, Piece, RecordPieces

\* The stream is complete before anything is written.
LEMMA StreamInit == ScallopInit => StreamInv
<1> SUFFICES ASSUME ScallopInit PROVE StreamInv
  OBVIOUS
<1>1. HandshakeInv /\ wire = [p \in Peers |-> <<>>] /\ writer \in Peers /\ wbuf = <<>> /\ broken = FALSE
      /\ rbuf = <<>> /\ pending = 2 /\ mode = "Length" /\ received = <<>> /\ eof = FALSE /\ accepted = 0
  BY HandshakeInit DEF ScallopInit
<1>2. wire[writer] = <<>>
  BY <1>1
<1>3. Rest = <<>>
  BY <1>1, <1>2 DEF Rest, Records
<1>4. Len(Rest) = 0 /\ Len(received) = 0
  BY <1>1, <1>3
<1>5. Linked
  BY <1>4 DEF Linked
<1>6. LengthState /\ BodyState /\ ReadState /\ EndsAtAccepted
  BY <1>1, <1>3, <1>4 DEF LengthState, BodyState, ReadState, EndsAtAccepted
<1>7. Given
  BY <1>1, <1>4 DEF Given
<1>8. ReaderTypes
  <2>1. rbuf \in Seq(RecordPieces \cup PlainPieces) /\ received \in Seq(Nat)
    BY <1>1
  <2> QED BY <1>1, <2>1 DEF ReaderTypes
<1> QED BY <1>5, <1>6, <1>7, <1>8 DEF StreamInv

\* A step that leaves the rest and the reader alone.
LEMMA SameKeeps ==
  ASSUME StreamInv, Rest' = Rest, UNCHANGED <<rbuf, pending, mode, received, eof, accepted, wroteEmpty, broken>>, Given'
  PROVE  StreamInv'
<1>1. Linked'
  BY DEF StreamInv, Linked
<1>2. LengthState' /\ BodyState' /\ ReadState'
  BY DEF StreamInv, LengthState, BodyState, ReadState
<1>3. EndsAtAccepted'
  BY DEF StreamInv, EndsAtAccepted
<1>4. ReaderTypes'
  BY DEF StreamInv, ReaderTypes
<1> QED BY <1>1, <1>2, <1>3, <1>4 DEF StreamInv

\* The steps that leave the records and the reader alone.
LEMMA QuietStream ==
  ASSUME IInv, HandshakeInv',
         (\E p \in Peers : HandshakeStep(p)) \/ Call \/ FlushStep \/ PollFlush \/ PollShutdown \/ PollErr \/ DropStream
         \/ UNCHANGED scallopVars
  PROVE  StreamInv'
<1> USE DEF IInv
<1>1. ASSUME NEW p \in Peers, HandshakeStep(p) PROVE StreamInv'
  <2>1. \A q \in Peers : Records(wire'[q]) = Records(wire[q])
    BY <1>1, HandshakeEofKeeps, ClientStartKeeps, ClientMsg2Keeps, ClientServerFinKeeps, ServerMsg1Keeps, ServerClientFinKeeps
    DEF HandshakeStep
  <2>2. UNCHANGED <<writer, wbuf, call, accepted, wroteEmpty, rbuf, pending, mode, received, eof, broken>>
        /\ closed \subseteq closed'
    BY <1>1 DEF HandshakeStep, HandshakeEof, ClientStart, ClientMsg2, ClientServerFin, ServerMsg1, ServerClientFin,
                UnchangedByHandshake, fixed, writerVars, readerVars, Fails
  <2>3. Rest' = Rest
    <3>1. Records(wire'[writer]) = Records(wire[writer])
      BY <2>1 DEF HandshakeInv, ScallopTypes
    <3> QED BY <3>1, <2>2 DEF Rest
  <2>4. Given'
    BY <2>2 DEF StreamInv, Given
  <2> QED BY <2>2, <2>3, <2>4, SameKeeps
<1>2. ASSUME Call \/ FlushStep \/ PollFlush \/ PollShutdown \/ PollErr \/ DropStream PROVE StreamInv'
  <2>1. UNCHANGED <<writer, hs, accepted, wroteEmpty, rbuf, pending, mode, received, eof, broken>> /\ closed \subseteq closed'
        /\ hs[writer] = "open" /\ call \notin {"done", "failed", "dropped"} /\ ~broken
    BY <1>2 DEF Call, FlushStep, PollFlush, PollShutdown, PollErr, DropStream, CanWrite, UnchangedByWriter, fixed, hsVars, readerVars
  <2>2. writer \notin closed
    BY <2>1 DEF HandshakeInv, WriterState
  <2>3. Given'
    BY <2>1, <2>2 DEF StreamInv, Given
  <2>4. Rest' = Rest
    <3>1. CASE FlushStep
      BY <3>1, RestFlush
    <3>2. CASE ~FlushStep
      <4>1. UNCHANGED <<wire, wbuf, writer, broken>>
        BY <1>2, <3>2, <2>1 DEF Call, PollFlush, PollShutdown, PollErr, DropStream
      <4> QED BY <4>1 DEF Rest
    <3> QED BY <3>1, <3>2
  <2> QED BY <2>1, <2>3, <2>4, SameKeeps
<1>3. CASE UNCHANGED scallopVars
  <2>1. Rest' = Rest
    BY <1>3 DEF Rest, scallopVars
  <2>2. Given'
    BY <1>3 DEF StreamInv, Given, scallopVars
  <2> QED BY <1>3, <2>1, <2>2, SameKeeps DEF scallopVars
<1> QED BY <1>1, <1>2, <1>3

\* A piece of the rest.
LEMMA LinkedPiece ==
  ASSUME Linked, NEW i \in 1..Len(Rest)
  PROVE  /\ Rest[i] \in RecordPieces /\ Rest[i].data \in Plaintexts
         /\ Rest[i].data.first \in Nat /\ Rest[i].data.len \in Nat
         /\ Place(Rest[i]) \in 1..(Rest[i].data.len + 3) /\ Place(Rest[i]) \in Nat /\ Rest[i] = Piece(Rest[i].data, Place(Rest[i]))
         /\ Rest[i].data.first + Rest[i].data.len <= accepted
         /\ ~wroteEmpty => Rest[i].data.len > 0
<1>1. /\ Rest[i] \in RecordPieces
      /\ Place(Rest[i]) \in 1..(Rest[i].data.len + 3) /\ Rest[i] = Piece(Rest[i].data, Place(Rest[i]))
      /\ Rest[i].data.first + Rest[i].data.len <= accepted
      /\ ~wroteEmpty => Rest[i].data.len > 0
  BY DEF Linked
<1>2. Rest[i].data \in Plaintexts
  BY <1>1 DEF RecordPieces
<1>3. Rest[i].data.first \in Nat /\ Rest[i].data.len \in Nat
  BY <1>2 DEF Plaintexts
<1>4. \A n \in Nat : \A x \in 1..(n + 3) : x \in Nat
  OBVIOUS
<1>5. Place(Rest[i]) \in Nat
  BY <1>1, <1>3, <1>4, Zenon
<1> QED BY <1>1, <1>2, <1>3, <1>5, Zenon

\* Two pieces of the rest.
LEMMA LinkedPieces ==
  ASSUME Linked, NEW i \in 1..Len(Rest), NEW j \in 1..Len(Rest), i <= j
  PROVE  /\ Place(Rest[i]) + (j - i) <= Rest[i].data.len + 3 => Rest[j] = Piece(Rest[i].data, Place(Rest[i]) + (j - i))
         /\ Place(Rest[i]) + (j - i) = Rest[i].data.len + 4 =>
              Place(Rest[j]) = 1 /\ Rest[j].data.first = Rest[i].data.first + Rest[i].data.len
BY DEF Linked

\* poll_write.
LEMMA WriteKeepsStream ==
  ASSUME IInv, HandshakeInv', PollWrite
  PROVE  StreamInv'
<1> USE DEF IInv, StreamInv
<1>1. PICK len \in 0..(MaxBytes - accepted) :
        LET taken == IF len < MaxRecord THEN len ELSE MaxRecord IN
        /\ wbuf' = Record([first |-> accepted, len |-> taken])
        /\ accepted' = accepted + taken
        /\ wroteEmpty' = (wroteEmpty \/ len = 0)
  BY DEF PollWrite
<1> DEFINE taken == IF len < MaxRecord THEN len ELSE MaxRecord
           d == [first |-> accepted, len |-> taken]
           L == Len(Rest)
<1>2. accepted \in Nat /\ taken \in Nat /\ (len # 0 => taken > 0)
  BY BoundsAssumption DEF HandshakeInv, ScallopTypes
<1>3. d \in Plaintexts /\ d.len = taken /\ d.first = accepted
  BY <1>2 DEF Plaintexts
<1>4. wbuf' = Record(d) /\ accepted' = accepted + taken /\ (~wroteEmpty' => ~wroteEmpty /\ len # 0)
  BY <1>1
<1>5. UNCHANGED <<options, writer, hs, wire, broken, closed, rbuf, pending, mode, received, eof>>
      /\ hs[writer] = "open" /\ call = "write" /\ call' = "idle" /\ ~broken /\ wbuf = <<>>
  BY DEF PollWrite, CanWrite, UnchangedByWriter, fixed, hsVars, readerVars
<1> HIDE DEF d, taken
<1>6. /\ Rest \in Seq(RecordPieces) /\ L \in Nat /\ Rest' \in Seq(RecordPieces)
      /\ Len(Rest') = L + taken + 3
      /\ \A i \in 1..L : Rest'[i] = Rest[i]
      /\ \A i \in 1..(taken + 3) : Rest'[L + i] = Piece(d, i)
  BY <1>3, <1>4, <1>5, RestWrite
<1>7. \A i \in 1..(taken + 3) : Place(Rest'[L + i]) = i /\ Rest'[L + i].data = d /\ Rest'[L + i] \in RecordPieces
  <2> TAKE i \in 1..(taken + 3)
  <2>1. i \in Nat /\ i > 0
    BY <1>2
  <2>2. Rest'[L + i] = Piece(d, i)
    BY <1>6
  <2>3. Place(Piece(d, i)) = i /\ Piece(d, i).data = d /\ Piece(d, i) \in RecordPieces
    BY <1>3, <2>1, PieceFacts
  <2> QED BY <2>2, <2>3
<1>8. \A i \in 1..Len(Rest') : i \in 1..L \/ (i - L \in 1..(taken + 3) /\ L + (i - L) = i /\ i > L)
  <2>1. \A n, m \in Nat : \A i \in 1..(n + m) : i \in 1..n \/ (i - n \in 1..m /\ n + (i - n) = i /\ i > n)
    <3> TAKE n, m \in Nat
    <3> TAKE i \in 1..(n + m)
    <3>1. CASE i <= n
      BY <3>1
    <3>2. CASE ~(i <= n)
      <4>1. i \in Int /\ i > n /\ i - n >= 1 /\ i - n <= m
        BY <3>2
      <4> QED BY <4>1
    <3> QED BY <3>1, <3>2
  <2>2. Len(Rest') = L + (taken + 3) /\ taken + 3 \in Nat
    BY <1>2, <1>6
  <2> HIDE DEF L
  <2> QED BY <2>1, <2>2, <1>6
<1>9. ASSUME NEW i \in 1..Len(Rest')
      PROVE  /\ Rest'[i] \in RecordPieces
             /\ Place(Rest'[i]) \in 1..(Rest'[i].data.len + 3) /\ Rest'[i] = Piece(Rest'[i].data, Place(Rest'[i]))
             /\ Rest'[i].data.first + Rest'[i].data.len <= accepted'
             /\ ~wroteEmpty' => Rest'[i].data.len > 0
  <2>1. CASE i \in 1..L
    <3>1. /\ Rest[i] \in RecordPieces
          /\ Rest[i].data.first \in Nat /\ Rest[i].data.len \in Nat
          /\ Place(Rest[i]) \in 1..(Rest[i].data.len + 3) /\ Rest[i] = Piece(Rest[i].data, Place(Rest[i]))
          /\ Rest[i].data.first + Rest[i].data.len <= accepted
          /\ ~wroteEmpty => Rest[i].data.len > 0
      BY <2>1, LinkedPiece
    <3>2. Rest'[i] = Rest[i]
      BY <2>1, <1>6
    <3>3. Rest[i].data.first + Rest[i].data.len <= accepted'
      <4>1. \A a, b, c, t \in Nat : a + b <= c => a + b <= c + t
        OBVIOUS
      <4> QED BY <4>1, <3>1, <1>2, <1>4, Zenon
    <3> QED BY <3>1, <3>2, <3>3, <1>4
  <2>2. CASE i - L \in 1..(taken + 3) /\ L + (i - L) = i
    <3>1. Place(Rest'[i]) = i - L /\ Rest'[i].data = d /\ Rest'[i] \in RecordPieces /\ Rest'[i] = Piece(d, i - L)
      BY <2>2, <1>6, <1>7
    <3> QED BY <3>1, <2>2, <1>2, <1>3, <1>4, SMTT(30)
  <2> QED BY <2>1, <2>2, <1>8
\* The record before ends with the last byte accepted: its pieces do not reach into the new one.
<1>10. ASSUME NEW i \in 1..L
       PROVE  /\ Place(Rest[i]) + (L - i) <= Rest[i].data.len + 3 =>
                   Place(Rest[i]) + (L - i) = Rest[i].data.len + 3 /\ Rest[i].data.first + Rest[i].data.len = accepted
  <2> DEFINE p == Place(Rest[i])  e == Rest[i].data
  <2>1. e \in Plaintexts /\ p \in 1..(e.len + 3) /\ e.len \in Nat
    BY LinkedPiece
  <2>2. Rest # <<>> /\ L \in 1..L /\ i <= L
    BY <1>6
  <2>3. Place(Rest[L]) = Rest[L].data.len + 3 /\ Rest[L].data.first + Rest[L].data.len = accepted
    BY <2>2, <1>5 DEF EndsAtAccepted
  <2>4. p + (L - i) <= e.len + 3 => Rest[L] = Piece(e, p + (L - i))
    BY <2>2, LinkedPieces
  <2> HIDE DEF p, e
  <2>5. p + (L - i) \in Nat /\ p + (L - i) > 0
    BY <2>1, <2>2, <1>6
  <2>6. Place(Piece(e, p + (L - i))) = p + (L - i) /\ Piece(e, p + (L - i)).data = e
    BY <2>1, <2>5, PieceFacts
  <2> QED BY <2>3, <2>4, <2>6 DEF p, e
<1>11. ASSUME NEW i \in 1..Len(Rest'), NEW j \in 1..Len(Rest'), i <= j
       PROVE  /\ Place(Rest'[i]) + (j - i) <= Rest'[i].data.len + 3 => Rest'[j] = Piece(Rest'[i].data, Place(Rest'[i]) + (j - i))
              /\ Place(Rest'[i]) + (j - i) = Rest'[i].data.len + 4 =>
                   Place(Rest'[j]) = 1 /\ Rest'[j].data.first = Rest'[i].data.first + Rest'[i].data.len
  <2>1. CASE i \in 1..L /\ j \in 1..L
    <3>1. /\ Place(Rest[i]) + (j - i) <= Rest[i].data.len + 3 => Rest[j] = Piece(Rest[i].data, Place(Rest[i]) + (j - i))
          /\ Place(Rest[i]) + (j - i) = Rest[i].data.len + 4 =>
               Place(Rest[j]) = 1 /\ Rest[j].data.first = Rest[i].data.first + Rest[i].data.len
      BY <2>1, <1>11, LinkedPieces
    <3>2. Rest'[i] = Rest[i] /\ Rest'[j] = Rest[j]
      BY <2>1, <1>6
    <3> QED BY <3>1, <3>2
  <2>2. CASE i - L \in 1..(taken + 3) /\ L + (i - L) = i
    <3>1. j - L \in 1..(taken + 3) /\ L + (j - L) = j
      <4>1. i \in Nat /\ j \in Nat /\ i <= j /\ j <= Len(Rest')
        BY <1>11, <1>6
      <4>2. Len(Rest') = L + (taken + 3) /\ L \in Nat /\ taken \in Nat
        BY <1>6, <1>2, <1>8
      <4> QED BY <4>1, <4>2, <2>2
    <3>2. Place(Rest'[i]) = i - L /\ Rest'[i].data = d
      BY <2>2, <1>7
    <3>3. Rest'[j] = Piece(d, j - L)
      BY <3>1, <1>6
    <3>4. (i - L) + (j - i) = j - L /\ ~(j - L = taken + 4)
      BY <3>1, <2>2, <1>2, <1>6
    <3> QED BY <3>2, <3>3, <3>4, <1>3
  <2>3. CASE i \in 1..L /\ j - L \in 1..(taken + 3) /\ L + (j - L) = j
    <3> DEFINE p == Place(Rest[i])  e == Rest[i].data
    <3>1. e.len \in Nat /\ p \in Nat
      BY <2>3, LinkedPiece
    <3>2. p + (L - i) <= e.len + 3 => p + (L - i) = e.len + 3 /\ e.first + e.len = accepted
      BY <2>3, <1>10
    <3>3. Rest'[i] = Rest[i]
      BY <2>3, <1>6
    <3> HIDE DEF p, e
    <3>4. ~(p + (j - i) <= e.len + 3)
      BY <3>1, <3>2, <2>3, <1>2, <1>6, SMTT(30)
    <3>5. p + (j - i) = e.len + 4 => j = L + 1 /\ e.first + e.len = accepted
      BY <3>1, <3>2, <2>3, <1>2, <1>6, SMTT(30)
    <3>6. Place(Rest'[L + 1]) = 1 /\ Rest'[L + 1].data.first = accepted
      <4>1. 1 \in 1..(taken + 3)
        BY <1>2
      <4> QED BY <4>1, <1>3, <1>7
    <3> QED BY <3>3, <3>4, <3>5, <3>6 DEF p, e
  <2> QED BY <2>1, <2>2, <2>3, <1>8
<1>12. Linked'
  BY <1>9, <1>11 DEF Linked
<1>13. Rest' # <<>> /\ Rest'[Len(Rest')] = Rest'[L + (taken + 3)] /\ taken + 3 \in 1..(taken + 3)
  <2>1. Len(Rest') # 0 /\ Len(Rest') = L + (taken + 3)
    BY <1>2, <1>6
  <2>2. Rest' # <<>>
    BY <2>1
  <2> QED BY <2>1, <2>2, <1>2
<1>14. EndsAtAccepted'
  <2>1. Place(Rest'[Len(Rest')]) = taken + 3 /\ Rest'[Len(Rest')].data = d
    BY <1>7, <1>13
  <2> QED BY <2>1, <1>2, <1>3, <1>4, <1>13 DEF EndsAtAccepted
<1>15. IF Rest = <<>> THEN Place(Rest'[1]) = 1 /\ Rest'[1].data.first = accepted ELSE Rest'[1] = Rest[1]
  <2>1. CASE Rest = <<>>
    <3>1. L = 0 /\ 1 \in 1..(taken + 3) /\ L + 1 = 1
      BY <2>1, <1>2
    <3> QED BY <2>1, <3>1, <1>3, <1>7
  <2>2. CASE Rest # <<>>
    <3>1. 1 \in 1..L
      BY <2>2, <1>6, EmptySeq
    <3> QED BY <2>2, <3>1, <1>6
  <2> QED BY <2>1, <2>2
<1>16. ReaderTypes' /\ accepted' \in Nat /\ accepted <= accepted' /\ Len(received) \in Nat /\ Len(rbuf) \in Nat /\ pending \in Nat
  BY <1>2, <1>4, <1>5 DEF ReaderTypes
<1>17. LengthState'
  <2> SUFFICES ASSUME mode = "Length" PROVE LengthState'
    BY <1>5 DEF LengthState
  <2>1. CASE rbuf = <<>> /\ pending = 2
    <3>1. Rest = <<>> => Len(received) = accepted
      BY <1>5 DEF EndsAtAccepted
    <3>2. Rest # <<>> => Place(Rest[1]) = 1 /\ Rest[1].data.first = Len(received)
      BY <2>1 DEF LengthState
    <3> QED BY <2>1, <3>1, <3>2, <1>5, <1>15 DEF LengthState
  <2>2. CASE ~(rbuf = <<>> /\ pending = 2)
    <3>1. Rest # <<>>
      <4>1. pending # 2
        BY <2>2 DEF LengthState
      <4> QED BY <4>1, <1>5 DEF EndsAtAccepted
    <3>2. /\ Len(rbuf) = 1 /\ pending = 1
          /\ rbuf[1] = Piece(rbuf[1].data, 1) /\ rbuf[1].data \in Plaintexts /\ rbuf[1].data.first = Len(received)
          /\ rbuf[1].data.first + rbuf[1].data.len <= accepted
          /\ ~wroteEmpty => rbuf[1].data.len > 0
          /\ Rest # <<>> => Rest[1] = Piece(rbuf[1].data, 2)
      BY <2>2 DEF LengthState
    <3>3. rbuf[1].data.first \in Nat /\ rbuf[1].data.len \in Nat
      BY <3>2 DEF Plaintexts
    <3>4. rbuf[1].data.first + rbuf[1].data.len <= accepted'
      BY <3>2, <3>3, <1>2, <1>16, SMTT(30)
    <3> QED BY <3>1, <3>2, <3>4, <1>4, <1>5, <1>15 DEF LengthState
  <2> QED BY <2>1, <2>2
<1>18. BodyState'
  <2> SUFFICES ASSUME mode = "Body" PROVE BodyState'
    BY <1>5 DEF BodyState
  <2>1. Rest # <<>>
    BY <1>5 DEF EndsAtAccepted
  <2>2. Len(received) + Len(rbuf) + pending - 1 <= accepted'
    BY <1>2, <1>16 DEF BodyState
  <2> QED BY <2>1, <2>2, <1>4, <1>5, <1>15 DEF BodyState
<1>19. ReadState'
  <2> SUFFICES ASSUME mode = "Read" PROVE ReadState'
    BY <1>5 DEF ReadState
  <2>1. Rest = <<>> => Len(received) + Len(rbuf) = accepted
    BY <1>5 DEF EndsAtAccepted
  <2>2. Len(received) + Len(rbuf) <= accepted'
    BY <1>2, <1>16 DEF ReadState
  <2> QED BY <2>1, <2>2, <1>4, <1>5, <1>15 DEF ReadState
<1>20. Given'
  <2>1. writer \notin closed
    BY <1>5 DEF HandshakeInv, WriterState
  <2>2. ~(eof /\ ~broken /\ ~wroteEmpty)
    BY <2>1 DEF Given
  <2>3. Len(received) <= accepted'
    BY <1>2, <1>16 DEF Given
  <2> QED BY <2>2, <2>3, <1>4, <1>5 DEF Given
<1> QED BY <1>12, <1>14, <1>16, <1>17, <1>18, <1>19, <1>20

\* The loss of the connection.
LEMMA BreakKeepsStream ==
  ASSUME IInv, HandshakeInv', Break
  PROVE  StreamInv'
<1> USE DEF IInv, StreamInv
<1>1. UNCHANGED <<writer, accepted, wroteEmpty, rbuf, pending, mode, received, eof, call>> /\ broken'
  BY DEF Break, fixed, writerVars, readerVars
<1>2. /\ Rest \in Seq(RecordPieces) /\ Len(Rest) \in Nat /\ Rest' \in Seq(RecordPieces) /\ Len(Rest') \in Nat
      /\ Len(Rest') <= Len(Rest) /\ \A i \in 1..Len(Rest') : Rest'[i] = Rest[i]
  BY RestBreak
<1>3. \A i \in 1..Len(Rest') : i \in 1..Len(Rest) /\ Rest'[i] = Rest[i]
  BY <1>2
<1>4. Linked'
  <2>1. ASSUME NEW i \in 1..Len(Rest')
        PROVE  /\ Rest'[i] \in RecordPieces
               /\ Place(Rest'[i]) \in 1..(Rest'[i].data.len + 3) /\ Rest'[i] = Piece(Rest'[i].data, Place(Rest'[i]))
               /\ Rest'[i].data.first + Rest'[i].data.len <= accepted'
               /\ ~wroteEmpty' => Rest'[i].data.len > 0
    BY <1>1, <1>3, LinkedPiece
  <2>2. ASSUME NEW i \in 1..Len(Rest'), NEW j \in 1..Len(Rest'), i <= j
        PROVE  /\ Place(Rest'[i]) + (j - i) <= Rest'[i].data.len + 3 => Rest'[j] = Piece(Rest'[i].data, Place(Rest'[i]) + (j - i))
               /\ Place(Rest'[i]) + (j - i) = Rest'[i].data.len + 4 =>
                    Place(Rest'[j]) = 1 /\ Rest'[j].data.first = Rest'[i].data.first + Rest'[i].data.len
    BY <2>2, <1>3, LinkedPieces
  <2> QED BY <2>1, <2>2 DEF Linked
<1>5. Rest' # <<>> => Rest # <<>> /\ Rest'[1] = Rest[1]
  <2>1. Rest' # <<>> => 1 \in 1..Len(Rest')
    BY <1>2, EmptySeq
  <2>2. Rest = <<>> => 1 \notin 1..Len(Rest)
    OBVIOUS
  <2> QED BY <2>1, <2>2, <1>3
<1>6. LengthState' /\ BodyState' /\ ReadState'
  BY <1>1, <1>5 DEF LengthState, BodyState, ReadState
<1>7. EndsAtAccepted' /\ Given'
  BY <1>1 DEF EndsAtAccepted, Given
<1>8. ReaderTypes'
  BY <1>1 DEF ReaderTypes
<1> QED BY <1>4, <1>6, <1>7, <1>8

\* The pieces at the beginning of the rest, when it begins with piece p of record d.
LEMMA RestBegins ==
  ASSUME Linked, NEW d \in Plaintexts, NEW p \in Nat, p > 0, p <= d.len + 3,
         Len(Rest) \in Nat, Len(Rest) > 0, Rest[1] = Piece(d, p)
  PROVE  /\ \A j \in 1..Len(Rest) : p + (j - 1) <= d.len + 3 => Rest[j] = Piece(d, p + (j - 1))
         /\ \A j \in 1..Len(Rest) : p + (j - 1) = d.len + 4 => Place(Rest[j]) = 1 /\ Rest[j].data.first = d.first + d.len
<1>1. Place(Rest[1]) = p /\ Rest[1].data = d /\ 1 \in 1..Len(Rest) /\ \A j \in 1..Len(Rest) : 1 <= j
  BY PieceFacts
<1> QED BY <1>1, LinkedPieces

\* The same for a step that takes k pieces off: what was read, the next piece and the last one.
LEMMA RestRead ==
  ASSUME IInv, HandshakeInv', NEW k \in 1..Len(wire[writer]), hs[Other(writer)] = "open",
         wire' = [wire EXCEPT ![writer] = SubSeq(@, k + 1, Len(@))],
         UNCHANGED <<writer, wbuf, hs, broken, accepted, wroteEmpty>>
  PROVE  /\ Len(Rest) \in Nat /\ Len(Rest) > 0 /\ Rest # <<>> /\ k \in Nat /\ 1 <= k /\ k <= Len(Rest)
         /\ Linked'
         /\ Rest' # <<>> => k + 1 \in 1..Len(Rest) /\ Rest'[1] = Rest[k + 1]
         /\ ~broken =>
              IF Rest' = <<>>
              THEN Place(Rest[k]) = Rest[k].data.len + 3 /\ Rest[k].data.first + Rest[k].data.len = accepted
              ELSE LET x == Rest'[Len(Rest')] IN Place(x) = x.data.len + 3 /\ x.data.first + x.data.len = accepted
<1> USE DEF IInv, StreamInv
<1>1. /\ Rest \in Seq(RecordPieces) /\ Len(Rest) \in Nat /\ Rest' \in Seq(RecordPieces) /\ Len(Rest') \in Nat
      /\ k <= Len(Rest) /\ Len(Rest') = Len(Rest) - k
      /\ \A i \in 1..Len(Rest') : Rest'[i] = Rest[i + k]
  BY RestFill
<1>2. k \in Nat /\ 1 <= k /\ Len(Rest) > 0 /\ Rest # <<>>
  <2>1. Len(wire[writer]) \in Nat
    BY DEF HandshakeInv, ScallopTypes
  <2>2. k \in Nat /\ 1 <= k /\ Len(Rest) > 0
    BY <1>1, <2>1
  <2> QED BY <2>2
<1>3. \A i \in 1..Len(Rest') : i + k \in 1..Len(Rest) /\ Rest'[i] = Rest[i + k]
  BY <1>1, <1>2
<1>4. Linked'
  <2>1. ASSUME NEW i \in 1..Len(Rest')
        PROVE  /\ Rest'[i] \in RecordPieces
               /\ Place(Rest'[i]) \in 1..(Rest'[i].data.len + 3) /\ Rest'[i] = Piece(Rest'[i].data, Place(Rest'[i]))
               /\ Rest'[i].data.first + Rest'[i].data.len <= accepted'
               /\ ~wroteEmpty' => Rest'[i].data.len > 0
    <3>1. i + k \in 1..Len(Rest) /\ Rest'[i] = Rest[i + k]
      BY <1>3
    <3> QED BY <3>1, LinkedPiece
  <2>2. ASSUME NEW i \in 1..Len(Rest'), NEW j \in 1..Len(Rest'), i <= j
        PROVE  /\ Place(Rest'[i]) + (j - i) <= Rest'[i].data.len + 3 => Rest'[j] = Piece(Rest'[i].data, Place(Rest'[i]) + (j - i))
               /\ Place(Rest'[i]) + (j - i) = Rest'[i].data.len + 4 =>
                    Place(Rest'[j]) = 1 /\ Rest'[j].data.first = Rest'[i].data.first + Rest'[i].data.len
    <3> DEFINE a == i + k  b == j + k
    <3>1. a \in 1..Len(Rest) /\ b \in 1..Len(Rest) /\ Rest'[i] = Rest[a] /\ Rest'[j] = Rest[b]
      BY <1>3
    <3>2. a <= b /\ b - a = j - i
      BY <2>2, <1>1, <1>2
    <3> HIDE DEF a, b
    <3>3. /\ Place(Rest[a]) + (b - a) <= Rest[a].data.len + 3 => Rest[b] = Piece(Rest[a].data, Place(Rest[a]) + (b - a))
          /\ Place(Rest[a]) + (b - a) = Rest[a].data.len + 4 =>
               Place(Rest[b]) = 1 /\ Rest[b].data.first = Rest[a].data.first + Rest[a].data.len
      BY <3>1, <3>2, LinkedPieces
    <3> QED BY <3>1, <3>2, <3>3
  <2> QED BY <2>1, <2>2 DEF Linked
<1>5. Rest' # <<>> => 1 \in 1..Len(Rest') /\ Len(Rest') \in 1..Len(Rest') /\ 1 + k = k + 1
  BY <1>1, <1>2, EmptySeq
<1>6. Rest' # <<>> => k + 1 \in 1..Len(Rest) /\ Rest'[1] = Rest[k + 1]
  BY <1>3, <1>5
<1>7. Rest' = <<>> => k = Len(Rest)
  <2>1. Rest' = <<>> => Len(Rest') = 0
    OBVIOUS
  <2> QED BY <2>1, <1>1, <1>2
<1>8. Rest' # <<>> => Rest'[Len(Rest')] = Rest[Len(Rest)]
  <2>1. Len(Rest') + k = Len(Rest)
    BY <1>1, <1>2
  <2> QED BY <2>1, <1>3, <1>5
<1>9. ~broken => Place(Rest[Len(Rest)]) = Rest[Len(Rest)].data.len + 3
                 /\ Rest[Len(Rest)].data.first + Rest[Len(Rest)].data.len = accepted
  BY <1>2 DEF EndsAtAccepted
<1> QED BY <1>1, <1>2, <1>4, <1>6, <1>7, <1>8, <1>9

\* poll_read takes pieces from the base stream.
LEMMA FillKeepsStream ==
  ASSUME IInv, HandshakeInv', Fill
  PROVE  StreamInv'
<1> USE DEF IInv, StreamInv
<1> DEFINE part(k) == SubSeq(wire[writer], 1, k)
           taken(k) == rbuf \o part(k)
<1>1. PICK k \in 1..pending :
        /\ k <= Len(wire[writer])
        /\ wire' = [wire EXCEPT ![writer] = SubSeq(@, k + 1, Len(@))]
        /\ CASE k < pending -> rbuf' = taken(k) /\ pending' = pending - k /\ UNCHANGED mode
             [] k = pending /\ mode = "Length" -> rbuf' = <<>> /\ pending' = taken(k)[1].data.len + 1 /\ mode' = "Body"
             [] k = pending /\ mode = "Body" -> /\ rbuf' = IF Decrypts(taken(k)) THEN Plain(taken(k)[1].data) ELSE <<>>
                                                /\ pending' = 0
                                                /\ mode' = IF Decrypts(taken(k)) THEN "Read" ELSE "Failed"
  BY DEF Fill
<1> DEFINE g == taken(k)  x == part(k)  n == Len(rbuf)  c == Len(received)
<1>2. UNCHANGED <<options, writer, hs, wbuf, call, closed, accepted, wroteEmpty, broken, received, eof>>
      /\ hs[Other(writer)] = "open" /\ ~eof /\ pending # 0
  BY DEF Fill, CanRead, reader, UnchangedByReader, fixed, hsVars, writerVars
<1>3. k \in 1..Len(wire[writer]) /\ k \in Nat /\ pending \in Nat /\ k <= pending
  <2>1. Len(wire[writer]) \in Nat
    BY DEF HandshakeInv, ScallopTypes
  <2> QED BY <2>1, <1>1 DEF ReaderTypes
<1>4. /\ Len(Rest) \in Nat /\ Len(Rest) > 0 /\ Rest # <<>> /\ 1 <= k /\ k <= Len(Rest)
      /\ Linked'
      /\ Rest' # <<>> => k + 1 \in 1..Len(Rest) /\ Rest'[1] = Rest[k + 1]
      /\ ~broken =>
           IF Rest' = <<>>
           THEN Place(Rest[k]) = Rest[k].data.len + 3 /\ Rest[k].data.first + Rest[k].data.len = accepted
           ELSE LET y == Rest'[Len(Rest')] IN Place(y) = y.data.len + 3 /\ y.data.first + y.data.len = accepted
  BY <1>1, <1>2, <1>3, RestRead
<1>5. x \in Seq(RecordPieces) /\ Len(x) = k /\ \A i \in 1..k : x[i] = Rest[i] /\ i \in 1..Len(Rest)
  <2>1. x \in Seq(RecordPieces) /\ Len(x) = k /\ \A i \in 1..k : x[i] = Rest[i]
    BY <1>1, <1>2, <1>3, RestFill
  <2> QED BY <2>1, <1>3, <1>4
<1>6. n \in Nat /\ c \in Nat /\ rbuf \in Seq(RecordPieces \cup PlainPieces) /\ accepted \in Nat
  BY DEF ReaderTypes, HandshakeInv, ScallopTypes
<1>7. g \in Seq(RecordPieces \cup PlainPieces) /\ Len(g) = n + k
      /\ \A i \in 1..(n + k) : g[i] = IF i <= n THEN rbuf[i] ELSE Rest[i - n]
  <2>1. x \in Seq(RecordPieces \cup PlainPieces)
    BY <1>5, SeqMonotonic
  <2> HIDE DEF x
  <2>2. rbuf \o x \in Seq(RecordPieces \cup PlainPieces) /\ Len(rbuf \o x) = n + Len(x)
        /\ \A i \in 1..(n + Len(x)) : (rbuf \o x)[i] = IF i <= n THEN rbuf[i] ELSE x[i - n]
    BY <1>6, <2>1, ConcatProperties
  <2>3. \A i \in 1..(n + k) : ~(i <= n) => i - n \in 1..k
    BY <1>3, <1>6
  <2>4. g = rbuf \o x
    BY DEF x
  <2> HIDE DEF g
  <2> QED BY <2>2, <2>3, <2>4, <1>5
<1>8. mode \in {"Length", "Body"}
  BY <1>2 DEF ReadState, ReaderTypes
<1>9. Given'
  BY <1>2 DEF Given
<1>10. 1 \in 1..Len(Rest) /\ k \in 1..Len(Rest)
  BY <1>3, <1>4
<1>11. /\ k < pending => rbuf' = g /\ pending' = pending - k /\ mode' = mode
       /\ k = pending /\ mode = "Length" => rbuf' = <<>> /\ pending' = g[1].data.len + 1 /\ mode' = "Body"
       /\ k = pending /\ mode = "Body" => /\ rbuf' = IF Decrypts(g) THEN Plain(g[1].data) ELSE <<>>
                                          /\ pending' = 0
                                          /\ mode' = IF Decrypts(g) THEN "Read" ELSE "Failed"
  <2> HIDE DEF taken
  <2>1. k = pending => ~(k < pending)
    BY <1>3
  <2>2. mode = "Length" => mode # "Body"
    OBVIOUS
  <2> QED BY <1>1, <2>1, <2>2, Zenon
<1>12. CASE mode = "Length"
  <2>1. PICK d \in Plaintexts :
          /\ d.first = c /\ d.first + d.len <= accepted /\ (~wroteEmpty => d.len > 0)
          /\ \/ rbuf = <<>> /\ n = 0 /\ pending = 2 /\ Rest[1] = Piece(d, 1)
             \/ n = 1 /\ pending = 1 /\ rbuf[1] = Piece(d, 1) /\ Rest[1] = Piece(d, 2)
    <3>1. CASE rbuf = <<>> /\ pending = 2
      <4>1. Place(Rest[1]) = 1 /\ Rest[1].data.first = c
        BY <3>1, <1>4, <1>12 DEF LengthState
      <4> QED BY <3>1, <4>1, <1>10, LinkedPiece
    <3>2. CASE ~(rbuf = <<>> /\ pending = 2)
      BY <3>2, <1>4, <1>12 DEF LengthState
    <3> QED BY <3>1, <3>2
  <2>2. d.len \in Nat /\ d.first \in Nat
    BY DEF Plaintexts
  <2>3. \A j \in 1..Len(Rest) : /\ Rest[1] = Piece(d, 1) /\ 1 + (j - 1) <= d.len + 3 => Rest[j] = Piece(d, 1 + (j - 1))
                                /\ Rest[1] = Piece(d, 2) /\ 2 + (j - 1) <= d.len + 3 => Rest[j] = Piece(d, 2 + (j - 1))
    <3>1. 1 \in Nat /\ 2 \in Nat /\ 1 <= d.len + 3 /\ 2 <= d.len + 3
      BY <2>2
    <3> QED BY <3>1, <1>4, RestBegins
  <2>4. CASE k < pending
    <3>1. rbuf' = g /\ pending' = pending - k /\ mode' = mode
      BY <1>11, <2>4
    <3>2. n = 0 /\ pending = 2 /\ Rest[1] = Piece(d, 1) /\ k = 1
      BY <2>1, <2>4, <1>3, <1>4
    <3>3. Len(g) = 1 /\ g[1] = Piece(d, 1)
      <4> HIDE DEF g
      <4> QED BY <3>2, <1>7
    <3>4. Piece(d, 1).data = d /\ Place(Piece(d, 1)) = 1
      BY PieceFacts
    <3>5. Rest' # <<>> => Rest'[1] = Piece(d, 2)
      <4>1. Rest' # <<>> => 2 \in 1..Len(Rest) /\ Rest'[1] = Rest[2]
        BY <1>4, <3>2
      <4>2. 1 + (2 - 1) = 2 /\ 2 <= d.len + 3
        BY <2>2
      <4> QED BY <4>1, <4>2, <2>3, <3>2
    <3>6. LengthState'
      BY <2>1, <3>1, <3>2, <3>3, <3>4, <3>5, <1>2 DEF LengthState
    <3>7. EndsAtAccepted'
      <4>1. Place(Rest[1]) # Rest[1].data.len + 3
        BY <2>2, <3>2, <3>4
      <4> QED BY <4>1, <3>2, <1>2, <1>4 DEF EndsAtAccepted
    <3>8. BodyState' /\ ReadState'
      BY <3>1, <1>12 DEF BodyState, ReadState
    <3>9. ReaderTypes'
      BY <3>1, <3>2, <1>2, <1>7 DEF ReaderTypes
    <3> QED BY <3>6, <3>7, <3>8, <3>9, <1>4, <1>9
  <2>5. CASE k = pending
    <3>1. rbuf' = <<>> /\ pending' = g[1].data.len + 1 /\ mode' = "Body"
      BY <1>11, <2>5, <1>12
    <3>2. g[1] = Piece(d, 1)
      <4> HIDE DEF g
      <4>1. 1 \in 1..(n + k)
        BY <1>3, <1>4, <1>6
      <4>2. CASE n = 0
        BY <4>1, <4>2, <2>1, <1>7
      <4>3. CASE n = 1
        BY <4>1, <4>3, <2>1, <1>7
      <4> QED BY <4>2, <4>3, <2>1
    <3>3. pending' = d.len + 1 /\ pending' \in Nat /\ Len(rbuf') = 0
      BY <3>1, <3>2, <2>2, PieceFacts
    <3>4. [first |-> c, len |-> Len(rbuf') + pending' - 1] = d
      <4>1. Len(rbuf') + pending' - 1 = d.len
        BY <3>3, <2>2
      <4> QED BY <4>1, <2>1 DEF Plaintexts
    <3>5. Rest' # <<>> => Rest'[1] = Piece(d, 3)
      <4>1. Rest' # <<>> => k + 1 \in 1..Len(Rest) /\ Rest'[1] = Rest[k + 1]
        BY <1>4
      <4>2. 1 + ((2 + 1) - 1) = 3 /\ 2 + ((1 + 1) - 1) = 3 /\ 3 <= d.len + 3
        BY <2>2
      <4>3. CASE Rest[1] = Piece(d, 1) /\ k = 2
        BY <4>1, <4>2, <4>3, <2>3
      <4>4. CASE Rest[1] = Piece(d, 2) /\ k = 1
        BY <4>1, <4>2, <4>4, <2>3
      <4> QED BY <4>3, <4>4, <2>1, <2>5
    <3>6. BodyState'
      <4>1. c + Len(rbuf') + pending' - 1 <= accepted /\ pending' > 0 /\ (~wroteEmpty => Len(rbuf') + pending' > 1)
            /\ Len(rbuf') + 3 = 3
        BY <2>1, <2>2, <3>3, <1>6
      <4> QED BY <4>1, <3>3, <3>4, <3>5, <1>2 DEF BodyState
    <3>7. EndsAtAccepted'
      <4>1. Rest[k] = Piece(d, 2)
        <5>1. 1 + (2 - 1) = 2 /\ 2 <= d.len + 3
          BY <2>2
        <5>2. CASE Rest[1] = Piece(d, 1) /\ k = 2
          BY <5>1, <5>2, <2>3, <1>10
        <5>3. CASE Rest[1] = Piece(d, 2) /\ k = 1
          BY <5>3
        <5> QED BY <5>2, <5>3, <2>1, <2>5
      <4>2. Place(Rest[k]) = 2 /\ Rest[k].data = d
        BY <4>1, PieceFacts
      <4>3. Place(Rest[k]) # Rest[k].data.len + 3
        BY <4>2, <2>2
      <4> QED BY <4>3, <1>2, <1>4 DEF EndsAtAccepted
    <3>8. LengthState' /\ ReadState'
      BY <3>1 DEF LengthState, ReadState
    <3>9. ReaderTypes'
      <4>1. rbuf' \in Seq(RecordPieces \cup PlainPieces)
        BY <3>1
      <4> QED BY <4>1, <3>1, <3>3, <1>2 DEF ReaderTypes
    <3> QED BY <3>6, <3>7, <3>8, <3>9, <1>4, <1>9
  <2> QED BY <2>4, <2>5, <1>3
<1>13. CASE mode = "Body"
  <2> DEFINE d == [first |-> c, len |-> n + pending - 1]
  <2>1. /\ pending > 0 /\ (~wroteEmpty => n + pending > 1) /\ c + n + pending - 1 <= accepted
        /\ \A i \in 1..n : rbuf[i] = Piece(d, i + 2)
        /\ Rest[1] = Piece(d, n + 3)
    BY <1>4, <1>13 DEF BodyState
  <2>2. d.len \in Nat /\ d.first = c /\ d.len = n + pending - 1 /\ d \in Plaintexts
    <3>1. n + pending - 1 \in Nat
      BY <1>3, <1>6, <2>1
    <3> QED BY <3>1, <1>6 DEF Plaintexts
  <2> HIDE DEF d
  <2>3. /\ \A j \in 1..Len(Rest) : n + 3 + (j - 1) <= d.len + 3 => Rest[j] = Piece(d, n + 3 + (j - 1))
        /\ \A j \in 1..Len(Rest) : n + 3 + (j - 1) = d.len + 4 => Place(Rest[j]) = 1 /\ Rest[j].data.first = d.first + d.len
    <3>1. n + 3 \in Nat /\ n + 3 > 0 /\ n + 3 <= d.len + 3
      BY <1>3, <1>6, <2>1, <2>2
    <3> QED BY <3>1, <1>4, <2>1, <2>2, RestBegins
  <2>4. \A i \in 1..(n + k) : g[i] = Piece(d, i + 2)
    <3> HIDE DEF g
    <3> TAKE i \in 1..(n + k)
    <3>1. CASE i <= n
      <4>1. i \in 1..n
        BY <3>1, <1>3, <1>6
      <4>2. g[i] = rbuf[i]
        BY <4>1, <1>7
      <4>3. rbuf[i] = Piece(d, i + 2)
        BY <4>1, <2>1
      <4> QED BY <4>2, <4>3
    <3>2. CASE ~(i <= n)
      <4>1. i - n \in 1..Len(Rest) /\ n + 3 + ((i - n) - 1) = i + 2 /\ i + 2 <= d.len + 3
        BY <3>2, <1>3, <1>4, <1>6, <2>1, <2>2
      <4>2. Rest[i - n] = Piece(d, i + 2)
        BY <4>1, <2>3
      <4> QED BY <4>2, <3>2, <1>7
    <3> QED BY <3>1, <3>2
  <2>5. Rest[k] = Piece(d, n + 2 + k) /\ Place(Rest[k]) = n + 2 + k /\ Rest[k].data = d
    <3>1. n + 3 + (k - 1) = n + 2 + k /\ n + 2 + k <= d.len + 3 /\ n + 2 + k \in Nat /\ n + 2 + k > 0
      BY <1>3, <1>6, <2>2
    <3>2. Rest[k] = Piece(d, n + 2 + k)
      BY <3>1, <2>3, <1>10
    <3> QED BY <3>1, <3>2, <2>2, PieceFacts
  <2>6. CASE k < pending
    <3>1. rbuf' = g /\ pending' = pending - k /\ mode' = mode
      BY <1>11, <2>6
    <3>2. Len(rbuf') = n + k /\ pending' > 0 /\ pending' \in Nat /\ Len(rbuf') + pending' = n + pending
      <4> HIDE DEF g
      <4>1. Len(rbuf') = n + k /\ pending' = pending - k
        BY <3>1, <1>7
      <4>2. n \in Nat /\ k \in Nat /\ pending \in Nat /\ k < pending
        BY <2>6, <1>3, <1>6
      <4> QED BY <4>1, <4>2
    <3>3. [first |-> c, len |-> Len(rbuf') + pending' - 1] = d
      <4>1. Len(rbuf') + pending' - 1 = d.len
        <5>1. Len(rbuf') = n + k /\ pending' = pending - k
          BY <3>1, <3>2
        <5>2. (n + k) + (pending - k) - 1 = d.len
          BY <2>2, <1>3, <1>6
        <5> QED BY <5>1, <5>2, Zenon
      <4> QED BY <4>1, <2>2 DEF Plaintexts
    <3>4. Rest' # <<>> => Rest'[1] = Piece(d, Len(rbuf') + 3)
      <4>1. n + 3 + ((k + 1) - 1) = Len(rbuf') + 3 /\ n + 3 + ((k + 1) - 1) <= d.len + 3
        BY <3>2, <2>2, <2>6, <1>3, <1>6
      <4> QED BY <4>1, <1>4, <2>3
    <3>5. BodyState'
      <4>1. c + Len(rbuf') + pending' - 1 = c + n + pending - 1
        BY <3>2, <1>3, <1>6, SMTT(30)
      <4>2. \A i \in 1..Len(rbuf') : rbuf'[i] = Piece(d, i + 2)
        BY <2>4, <3>1, <3>2
      <4> QED BY <4>1, <4>2, <2>1, <3>2, <3>3, <3>4, <1>2 DEF BodyState
    <3>6. EndsAtAccepted'
      <4>1. Place(Rest[k]) # Rest[k].data.len + 3
        BY <2>2, <2>5, <2>6, <1>3, <1>6, SMTT(30)
      <4> QED BY <4>1, <1>2, <1>4 DEF EndsAtAccepted
    <3>7. LengthState' /\ ReadState'
      BY <3>1, <1>13 DEF LengthState, ReadState
    <3>8. ReaderTypes'
      BY <3>1, <3>2, <1>2, <1>7 DEF ReaderTypes
    <3> QED BY <3>5, <3>6, <3>7, <3>8, <1>4, <1>9
  <2>7. CASE k = pending
    <3>1. g[1] = Piece(d, 3) /\ g[1].data = d
      <4>1. 1 \in 1..(n + k) /\ 1 + 2 = 3
        BY <1>3, <1>4, <1>6
      <4> HIDE DEF g
      <4> QED BY <4>1, <2>2, <2>4, PieceFacts
    <3>2. Decrypts(g)
      <4> HIDE DEF g
      <4>1. ASSUME NEW i \in 1..(n + k) PROVE Piece(d, i + 2) = [kind |-> "body", n |-> i, data |-> d]
        <5>1. ~(i + 2 <= 2) /\ (i + 2) - 2 = i
          BY <1>3, <1>6
        <5> QED BY <5>1 DEF Piece
      <4> QED BY <4>1, <2>4, <3>1, <1>7 DEF Decrypts
    <3>3. rbuf' = Plain(d) /\ pending' = 0 /\ mode' = "Read"
      BY <1>11, <2>7, <1>13, <3>1, <3>2
    <3>4. Len(rbuf') = d.len /\ rbuf' \in Seq(PlainPieces) /\ \A i \in 1..d.len : rbuf'[i].n = c + i
      <4> DEFINE e(i) == [kind |-> "plain", n |-> d.first + i, data |-> <<>>]
      <4>1. \A i \in 1..d.len : e(i) \in PlainPieces /\ e(i).n = c + i
        BY <2>2, <1>6 DEF PlainPieces
      <4> HIDE DEF e
      <4>2. rbuf' = [i \in 1..d.len |-> e(i)]
        BY <3>3 DEF Plain, e
      <4> QED BY <4>1, <4>2, <2>2
    <3>5. rbuf' \in Seq(RecordPieces \cup PlainPieces)
      BY <3>4, SeqMonotonic
    <3>6. Rest' # <<>> => Place(Rest'[1]) = 1 /\ Rest'[1].data.first = c + d.len
      <4>1. n + 3 + ((k + 1) - 1) = d.len + 4
        BY <2>2, <2>7, <1>3, <1>6
      <4> QED BY <4>1, <1>4, <2>2, <2>3
    <3>7. ReadState'
      <4>1. ~wroteEmpty => d.len > 0
        BY <2>1, <2>2, <1>3, <1>6
      <4>2. d.len > 0 => rbuf' # <<>>
        BY <3>4
      <4>3. c + d.len <= accepted
        BY <2>1, <2>2, <1>3, <1>6
      <4> QED BY <4>1, <4>2, <4>3, <3>3, <3>4, <3>6, <1>2 DEF ReadState
    <3>8. EndsAtAccepted'
      BY <2>2, <2>5, <3>3, <3>4, <1>2, <1>4 DEF EndsAtAccepted
    <3>9. LengthState' /\ BodyState'
      BY <3>3 DEF LengthState, BodyState
    <3>10. ReaderTypes'
      BY <3>3, <3>5, <1>2 DEF ReaderTypes
    <3> QED BY <3>7, <3>8, <3>9, <3>10, <1>4, <1>9
  <2> QED BY <2>6, <2>7, <1>3
<1> QED BY <1>8, <1>12, <1>13

\* poll_read hands the plaintext over.
LEMMA DeliverKeepsStream ==
  ASSUME IInv, HandshakeInv', Deliver
  PROVE  StreamInv'
<1> USE DEF IInv, StreamInv
<1>1. UNCHANGED <<options, writer, hs, wbuf, wire, call, closed, accepted, wroteEmpty, broken>> /\ ~eof /\ mode = "Read"
  BY DEF Deliver, CanRead, UnchangedByReader, fixed, hsVars, writerVars
<1>2. Rest' = Rest
  BY <1>1 DEF Rest
<1> DEFINE n == Len(rbuf)  c == Len(received)
<1>3. n \in Nat /\ c \in Nat /\ rbuf \in Seq(RecordPieces \cup PlainPieces) /\ accepted \in Nat /\ received \in Seq(Nat)
  BY DEF ReaderTypes, HandshakeInv, ScallopTypes
<1>4. /\ ~wroteEmpty => rbuf # <<>>
      /\ \A i \in 1..n : rbuf[i].n = c + i
      /\ c + n <= accepted
      /\ Rest # <<>> => Place(Rest[1]) = 1 /\ Rest[1].data.first = c + n
  BY <1>1 DEF ReadState
<1>5. Linked'
  BY <1>1, <1>2 DEF Linked
<1>6. ASSUME NEW s \in Seq(RecordPieces \cup PlainPieces), Len(s) <= n, \A i \in 1..Len(s) : s[i] = rbuf[i],
             received' = received \o Bytes(s)
      PROVE  /\ received' \in Seq(Nat) /\ Len(received') = c + Len(s)
             /\ \A i \in 1..Len(received') : received'[i] = i
             /\ Len(received') <= accepted
  <2>1. Len(s) \in Nat /\ \A i \in 1..Len(s) : s[i].n = c + i
    <3>1. Len(s) \in Nat
      BY <1>6
    <3>2. ASSUME NEW i \in 1..Len(s) PROVE s[i].n = c + i
      <4>1. i \in 1..n
        BY <3>1, <1>3, <1>6
      <4> QED BY <4>1, <1>4, <1>6
    <3> QED BY <3>1, <3>2
  <2> DEFINE b == Bytes(s)
  <2>2. b \in Seq(Nat) /\ Len(b) = Len(s) /\ \A i \in 1..Len(s) : b[i] = c + i
    BY <2>1, <1>3 DEF Bytes
  <2> HIDE DEF b
  <2>3. received \o b \in Seq(Nat) /\ Len(received \o b) = c + Len(s)
        /\ \A i \in 1..(c + Len(s)) : (received \o b)[i] = IF i <= c THEN received[i] ELSE b[i - c]
    <3>1. received \o b \in Seq(Nat) /\ Len(received \o b) = c + Len(b)
          /\ \A i \in 1..(c + Len(b)) : (received \o b)[i] = IF i <= c THEN received[i] ELSE b[i - c]
      BY <2>2, <1>3, ConcatProperties
    <3> QED BY <3>1, <2>2, Zenon
  <2>4. received' = received \o b
    BY <1>6 DEF b
  <2>5. ASSUME NEW i \in 1..(c + Len(s)) PROVE received'[i] = i
    <3>1. CASE i <= c
      BY <3>1, <2>1, <2>3, <2>4, <1>3 DEF Given
    <3>2. CASE ~(i <= c)
      <4>1. i - c \in 1..Len(s) /\ c + (i - c) = i
        BY <3>2, <2>1, <1>3
      <4> QED BY <4>1, <3>2, <2>2, <2>3, <2>4
    <3> QED BY <3>1, <3>2
  <2> QED BY <2>1, <2>3, <2>4, <2>5, <1>3, <1>4, <1>6
<1>7. PICK room \in 1..MaxRecord :
        IF room < n
        THEN received' = received \o Bytes(SubSeq(rbuf, 1, room)) /\ rbuf' = SubSeq(rbuf, room + 1, n)
             /\ UNCHANGED <<pending, mode, eof>>
        ELSE received' = received \o Bytes(rbuf) /\ eof' = (rbuf = <<>>) /\ rbuf' = <<>> /\ pending' = 2 /\ mode' = "Length"
  BY DEF Deliver
<1>8. room \in Nat /\ 1 <= room
  BY BoundsAssumption
<1>9. CASE room < n
  <2> DEFINE s == SubSeq(rbuf, 1, room)  t == SubSeq(rbuf, room + 1, n)
  <2>1. received' = received \o Bytes(s) /\ rbuf' = t /\ UNCHANGED <<pending, mode, eof>>
    BY <1>7, <1>9
  <2>2. \A i \in 1..n : rbuf[i] \in RecordPieces \cup PlainPieces
    BY <1>3
  <2>3. s \in Seq(RecordPieces \cup PlainPieces) /\ Len(s) = room /\ \A i \in 1..room : s[i] = rbuf[i]
    <3>1. \A i \in 1..room : rbuf[i] \in RecordPieces \cup PlainPieces
      BY <2>2, <1>3, <1>8, <1>9
    <3> QED BY <3>1, <1>3, <1>8, <1>9, SubSeqProperties
  <2>4. t \in Seq(RecordPieces \cup PlainPieces) /\ Len(t) = n - room /\ \A i \in 1..(n - room) : t[i] = rbuf[room + i]
    <3>1. \A i \in (room + 1)..n : rbuf[i] \in RecordPieces \cup PlainPieces
      BY <2>2, <1>3, <1>8, <1>9
    <3>2. t \in Seq(RecordPieces \cup PlainPieces)
          /\ Len(t) = (IF room + 1 <= n THEN n - (room + 1) + 1 ELSE 0)
          /\ \A i \in 1..(n - (room + 1) + 1) : t[i] = rbuf[room + 1 + i - 1]
      BY <3>1, <1>3, <1>8, SubSeqProperties
    <3>3. \A i \in 1..(n - room) : room + 1 + i - 1 = room + i /\ i \in 1..(n - (room + 1) + 1)
      BY <1>3, <1>8
    <3> HIDE DEF t
    <3> QED BY <3>2, <3>3, <1>3, <1>8, <1>9
  <2> HIDE DEF s, t
  <2>5. /\ received' \in Seq(Nat) /\ Len(received') = c + room
        /\ \A i \in 1..Len(received') : received'[i] = i
        /\ Len(received') <= accepted
    <3>1. Len(s) <= n /\ \A i \in 1..Len(s) : s[i] = rbuf[i]
      BY <2>3, <1>3, <1>8, <1>9
    <3> QED BY <3>1, <2>1, <2>3, <1>6, Zenon
  <2>6. Len(received') + Len(rbuf') = c + n /\ Len(rbuf') = n - room /\ rbuf' # <<>>
    <3>1. Len(rbuf') # 0
      BY <2>1, <2>4, <1>3, <1>8, <1>9
    <3> QED BY <3>1, <2>1, <2>4, <2>5, <1>3, <1>8
  <2>7. ReadState'
    <3>1. \A i \in 1..Len(rbuf') : rbuf'[i].n = Len(received') + i
      <4> TAKE i \in 1..Len(rbuf')
      <4>1. i \in 1..(n - room) /\ room + i \in 1..n /\ c + (room + i) = Len(received') + i
        BY <2>5, <2>6, <1>3, <1>8, <1>9
      <4> QED BY <4>1, <2>1, <2>4, <1>4
    <3> QED BY <3>1, <2>1, <2>6, <1>1, <1>2, <1>4 DEF ReadState
  <2>8. LengthState' /\ BodyState'
    BY <2>1, <1>1 DEF LengthState, BodyState
  <2>9. EndsAtAccepted'
    BY <2>1, <2>6, <1>1, <1>2 DEF EndsAtAccepted
  <2>10. Given'
    BY <2>1, <2>5, <1>1 DEF Given
  <2>11. ReaderTypes'
    BY <2>1, <2>4, <2>5, <1>1 DEF ReaderTypes
  <2> QED BY <2>7, <2>8, <2>9, <2>10, <2>11, <1>5
<1>10. CASE ~(room < n)
  <2>1. received' = received \o Bytes(rbuf) /\ eof' = (rbuf = <<>>) /\ rbuf' = <<>> /\ pending' = 2 /\ mode' = "Length"
    BY <1>7, <1>10
  <2>2. /\ received' \in Seq(Nat) /\ Len(received') = c + n
        /\ \A i \in 1..Len(received') : received'[i] = i
        /\ Len(received') <= accepted
    <3>1. n <= n /\ \A i \in 1..n : rbuf[i] = rbuf[i]
      BY <1>3
    <3> QED BY <3>1, <2>1, <1>3, <1>6, Zenon
  <2>3. LengthState'
    BY <2>1, <2>2, <1>2, <1>4 DEF LengthState
  <2>4. BodyState' /\ ReadState'
    BY <2>1 DEF BodyState, ReadState
  <2>5. EndsAtAccepted'
    BY <2>1, <2>2, <1>1, <1>2 DEF EndsAtAccepted
  <2>6. Given'
    BY <2>1, <2>2, <1>1, <1>4 DEF Given
  <2>7. ReaderTypes'
    <3>1. rbuf' \in Seq(RecordPieces \cup PlainPieces) /\ eof' \in BOOLEAN
      BY <2>1
    <3> QED BY <3>1, <2>1, <2>2 DEF ReaderTypes
  <2> QED BY <2>3, <2>4, <2>5, <2>6, <2>7, <1>5
<1> QED BY <1>9, <1>10

\* poll_read meets the end of the connection: if the writer has shut it down, nothing is left.
LEMMA ReadEofKeepsStream ==
  ASSUME IInv, HandshakeInv', ReadEof
  PROVE  StreamInv'
<1> USE DEF IInv, StreamInv
<1>1. UNCHANGED <<options, writer, hs, wbuf, wire, call, closed, accepted, wroteEmpty, broken, rbuf, pending, mode, received>>
      /\ pending # 0 /\ wire[writer] = <<>> /\ writer \in closed /\ eof' = TRUE
  BY DEF ReadEof, UnchangedByReader, fixed, hsVars, writerVars
<1>2. Rest' = Rest
  BY <1>1 DEF Rest
<1>3. Linked' /\ LengthState' /\ BodyState' /\ ReadState' /\ EndsAtAccepted'
  BY <1>1, <1>2 DEF Linked, LengthState, BodyState, ReadState, EndsAtAccepted
<1>4. ASSUME ~broken, call = "done" PROVE Len(received) = accepted
  <2>1. wbuf = <<>>
    BY <1>4 DEF HandshakeInv, WriterState
  <2>2. Rest = <<>>
    BY <2>1, <1>1, <1>4 DEF Rest, Records
  <2> QED BY <2>2, <1>1, <1>4 DEF EndsAtAccepted, ReadState
<1>5. Given'
  BY <1>1, <1>4 DEF Given
<1>6. ReaderTypes'
  BY <1>1 DEF ReaderTypes
<1> QED BY <1>3, <1>5, <1>6

\* Every step of the channel keeps the whole invariant.
LEMMA StreamStepKeeps ==
  ASSUME IInv, [ScallopNext]_scallopVars
  PROVE  IInv'
<1>1. HandshakeInv'
  BY HandshakeStepKeeps DEF IInv
<1>2. StreamInv'
  <2>1. CASE (\E p \in Peers : HandshakeStep(p)) \/ Call \/ FlushStep \/ PollFlush \/ PollShutdown \/ PollErr \/ DropStream
             \/ UNCHANGED scallopVars
    BY <1>1, <2>1, QuietStream
  <2>2. CASE PollWrite
    BY <1>1, <2>2, WriteKeepsStream
  <2>3. CASE Fill
    BY <1>1, <2>3, FillKeepsStream
  <2>4. CASE Deliver
    BY <1>1, <2>4, DeliverKeepsStream
  <2>5. CASE ReadEof
    BY <1>1, <2>5, ReadEofKeepsStream
  <2>6. CASE Break
    BY <1>1, <2>6, BreakKeepsStream
  <2> QED BY <2>1, <2>2, <2>3, <2>4, <2>5, <2>6 DEF ScallopNext, WriterStep, ReaderStep
<1> QED BY <1>1, <1>2 DEF IInv

\* The records on their way, in wbuf and in rbuf continue what the application has been given.
THEOREM StreamInvariance == ScallopSpec => []IInv
<1>1. ScallopInit => IInv
  BY HandshakeInit, StreamInit DEF IInv
<1>2. IInv /\ [ScallopNext]_scallopVars => IInv'
  BY StreamStepKeeps
<1> QED BY <1>1, <1>2, PTL DEF ScallopSpec

\* For any sizes and however the connection cuts the records up, the application that reads gets
\* the bytes poll_write accepted, in order, none twice and none left out; no body fails to
\* decrypt, and an end of the stream after a shutdown means that all of them have arrived.
THEOREM BytesArriveInOrder == ScallopSpec => []Faithful
<1>1. ASSUME IInv PROVE Faithful
  <2>1. received \in Seq(Nat) /\ mode # "Failed"
    BY <1>1 DEF IInv, StreamInv, ReaderTypes
  <2>2. received = [i \in 1..Len(received) |-> i]
    <3>1. \A i \in 1..Len(received) : received[i] = i
      BY <1>1 DEF IInv, StreamInv, Given
    <3>2. received = [i \in 1..Len(received) |-> received[i]]
      BY <2>1
    <3> QED BY <3>1, <3>2
  <2> QED BY <1>1, <2>1, <2>2 DEF IInv, StreamInv, Given, Faithful
<1> QED BY <1>1, StreamInvariance, PTL

-----------------------------------------------------------------------------
(* The tcp proxies: the inductive invariant                                *)

Contents == Seq(Nat)
Cells == [data : Seq(Contents), fin : BOOLEAN, deaf : BOOLEAN]

TcpTypes ==
  /\ chain \in {"transparent", "port", "plain"} /\ dst \in Destinations
  /\ relay \in [Relays -> {"accept", "header", "ip", "port", "connect", "copy", "done", "error"}]
  /\ relay["A"] \in {"accept", "header", "copy", "done", "error"}
  /\ relay["B"] \in {"accept", "ip", "port", "connect", "copy", "done", "error"}
  /\ copied \in [Relays -> SUBSET Dirs]
  /\ hop \in [1..3 -> [Dirs -> Cells]]
  /\ reset \subseteq 1..3
  /\ sent \in [Dirs -> Nat] /\ got \in [Dirs -> Seq(Contents)]
  /\ shut \subseteq Dirs /\ ended \subseteq Dirs

\* The relay that reads what is sent in a direction, and the one that hands it over.
In(d)  == IF d = "up" THEN "A" ELSE "B"
Out(d) == IF d = "up" THEN "B" ELSE "A"

Data(h, d) == hop[h][d].data

\* Nothing is written to a hop any more: what it holds need not connect to what comes behind.
Gap(h, d) == h \in reset \/ hop[h][d].deaf

\* How many pieces of the header are before the payload on the vsock hop.
Ahead(d) ==
  IF d = "up" /\ chain = "transparent" /\ relay["A"] \notin {"accept", "header"}
  THEN IF relay["B"] \in {"accept", "ip"} THEN 2 ELSE IF relay["B"] = "port" THEN 1 ELSE 0
  ELSE 0

\* The sequence t begins with u.
Begins(u, t) == Len(u) <= Len(t) /\ \A i \in 1..Len(u) : u[i] = t[i]

\* The received pieces g, those on the hop before the receiver x, on the vsock hop y, behind a
\* pieces of the header, and on the hop behind the sender z number the s pieces that were sent.
\* From c = 1 nothing is missing between x and y, from c = 2 nor between y and z, and with 3 nor at the end.
Flow(g, x, y, z, s, a, c) ==
  /\ \A i \in 1..Len(g) : g[i] = <<i>>
  /\ Len(g) + Len(x) <= s
  /\ \A i \in 1..Len(x) : x[i] = <<Len(g) + i>>
  /\ c >= 1 => /\ Len(g) + Len(x) + Len(y) <= s + a
           /\ \A i \in 1..Len(y) : i > a => y[i] = <<Len(g) + Len(x) + (i - a)>>
  /\ c >= 2 => /\ a <= Len(y)
           /\ Len(g) + Len(x) + Len(y) + Len(z) <= s + a
           /\ \A i \in 1..Len(z) : z[i] = <<Len(g) + Len(x) + (Len(y) - a) + i>>
  /\ c >= 3 => Len(g) + Len(x) + Len(y) + Len(z) = s + a

Clear(d) ==
  IF relay[Out(d)] = "error" \/ Gap(4 - EndHop(d), d) THEN 0
  ELSE IF relay[In(d)] = "error" \/ Gap(2, d) THEN 1
  ELSE IF Gap(EndHop(d), d) THEN 2 ELSE 3

FlowOf(d) ==
  Flow(got[d], Data(4 - EndHop(d), d), Data(2, d), Data(EndHop(d), d), sent[d], Ahead(d), Clear(d))

Flows == \A d \in Dirs : FlowOf(d)

\* How far the two relays can be apart.
SetUp ==
  /\ relay["A"] = "accept" => relay["B"] = "accept"
  /\ relay["A"] = "header" => chain = "transparent" /\ relay["B"] \in {"accept", "ip", "error"}
  /\ relay["A"] \in {"accept", "header"} => Data(2, "up") = <<>>
  /\ relay["B"] \in {"ip", "port"} => chain = "transparent"
  /\ \A r \in Relays : relay[r] \notin {"copy", "done", "error"} => copied[r] = {}

\* What relay B has read of the header, what it has to read, and where it connects to.
HeaderRead ==
  /\ relay["B"] \in {"accept", "ip"} => addr = <<>>
  /\ relay["B"] = "port" => addr = <<Header(dst)[1]>>
  /\ relay["B"] = "connect" /\ chain = "transparent" => addr = Header(dst)
  /\ relay["B"] \in {"accept", "ip", "port"} =>
       \A i \in 1..Len(Data(2, "up")) : i <= Ahead("up") => Data(2, "up")[i] = Header(dst)[(2 - Ahead("up")) + i]
  /\ relay["B"] \in {"accept", "ip", "port"} /\ relay["A"] # "error" /\ ~Gap(2, "up") => Ahead("up") <= Len(Data(2, "up"))
  /\ reached # <<>> /\ chain = "transparent" => reached = [ip |-> dst.ip, port |-> dst.port]
  /\ reached # <<>> /\ chain = "port" => reached.port = dst.port

\* The end of a direction follows everything that was sent, hop by hop.
EndOf(d) ==
  /\ \A h \in 1..3 : ~hop[h][d].deaf
  /\ hop[EndHop(d)][d].fin => d \in shut
  /\ hop[2][d].fin => d \in copied[In(d)]
  /\ hop[4 - EndHop(d)][d].fin => d \in copied[Out(d)]
  /\ d \in copied[In(d)] => d \in shut /\ Data(EndHop(d), d) = <<>>
  /\ d \in copied[In(d)] /\ Clear(d) >= 2 => Len(got[d]) + Len(Data(4 - EndHop(d), d)) + Len(Data(2, d)) = sent[d] + Ahead(d)
  /\ d \in copied[Out(d)] => d \in copied[In(d)] /\ Data(2, d) = <<>>
  /\ d \in copied[Out(d)] /\ Clear(d) >= 1 => Len(got[d]) + Len(Data(4 - EndHop(d), d)) = sent[d]
  /\ d \in ended => d \in shut /\ Len(got[d]) = sent[d]

Ending == NoTransferFailed => \A d \in Dirs : EndOf(d)

TcpInv == TcpTypes /\ Flows /\ SetUp /\ HeaderRead /\ Ending

-----------------------------------------------------------------------------
(* The flow of one direction: what each way of moving pieces does to it    *)

\* What is left of a sequence without its head.
LEMMA PopPiece ==
  ASSUME NEW t \in Seq(Contents), t # <<>>
  PROVE  /\ Head(t) = t[1] /\ Head(t) \in Contents /\ Tail(t) \in Seq(Contents) /\ Len(t) \in Nat /\ Len(t) >= 1
         /\ Len(Tail(t)) = Len(t) - 1 /\ \A i \in 1..Len(Tail(t)) : Tail(t)[i] = t[i + 1]
<1>1. Len(t) \in Nat \ {0}
  BY EmptySeq
<1> QED BY <1>1, HeadTailProperties

\* A sequence with a piece more.
LEMMA PushPiece ==
  ASSUME NEW t \in Seq(Contents), NEW e \in Contents
  PROVE  /\ Append(t, e) \in Seq(Contents) /\ Len(t) \in Nat /\ Len(Append(t, e)) = Len(t) + 1
         /\ \A i \in 1..Len(t) : Append(t, e)[i] = t[i]
         /\ Append(t, e)[Len(t) + 1] = e
         /\ \A i \in 1..Len(Append(t, e)) : i \in 1..Len(t) \/ i = Len(t) + 1
<1>1. Len(t) \in Nat /\ Len(Append(t, e)) = Len(t) + 1
  BY AppendProperties
<1>2. \A i \in 1..(Len(t) + 1) : i \in 1..Len(t) \/ i = Len(t) + 1
  BY <1>1
<1> QED BY <1>1, <1>2, AppendProperties

\* Pieces are lost at the end of some hops, which nothing is written to any more.
LEMMA FlowCut ==
  ASSUME NEW g \in Seq(Contents), NEW x \in Seq(Contents), NEW y \in Seq(Contents), NEW z \in Seq(Contents), NEW s \in Nat, NEW a \in Nat,
         NEW c \in 0..3, Flow(g, x, y, z, s, a, c),
         NEW x2 \in Seq(Contents), NEW y2 \in Seq(Contents), NEW z2 \in Seq(Contents), NEW b \in Nat,
         NEW c2 \in 0..3, c2 <= c,
         Begins(x2, x), Begins(y2, y), Begins(z2, z),
         c2 >= 1 => x2 = x /\ (b = a \/ (y2 = <<>> /\ c2 < 2)), c2 >= 2 => y2 = y, c2 >= 3 => z2 = z
  PROVE  Flow(g, x2, y2, z2, s, b, c2)
<1>1. Len(g) \in Nat /\ Len(x) \in Nat /\ Len(y) \in Nat /\ Len(z) \in Nat /\ Len(x2) \in Nat /\ Len(y2) \in Nat /\ Len(z2) \in Nat
  BY SMTT(30)
<1> USE DEF Begins
<1>2. /\ \A i \in 1..Len(g) : g[i] = <<i>>
      /\ Len(g) + Len(x2) <= s
      /\ \A i \in 1..Len(x2) : x2[i] = <<Len(g) + i>>
  <2>1. Len(g) + Len(x) <= s /\ \A i \in 1..Len(x) : x[i] = <<Len(g) + i>>
    BY DEF Flow
  <2>2. Len(g) + Len(x2) <= s /\ \A i \in 1..Len(x2) : i \in 1..Len(x)
    BY <2>1, <1>1
  <2>3. \A i \in 1..Len(g) : g[i] = <<i>>
    BY DEF Flow
  <2> QED BY <2>1, <2>2, <2>3
<1>3. ASSUME c2 >= 1
      PROVE  /\ Len(g) + Len(x2) + Len(y2) <= s + b
             /\ \A i \in 1..Len(y2) : i > b => y2[i] = <<Len(g) + Len(x2) + (i - b)>>
  <2>1. CASE b = a
    <3>1. /\ Len(g) + Len(x) + Len(y) <= s + a
          /\ \A i \in 1..Len(y) : i > a => y[i] = <<Len(g) + Len(x) + (i - a)>>
      BY <1>3 DEF Flow
    <3>2. Len(g) + Len(x2) + Len(y2) <= s + b
      BY <3>1, <2>1, <1>1, <1>3
    <3>3. \A i \in 1..Len(y2) : i \in 1..Len(y) /\ y2[i] = y[i]
      BY <1>1, <1>3
    <3> QED BY <3>1, <3>2, <3>3, <2>1, <1>3
  <2>2. CASE y2 = <<>>
    <3>1. Len(y2) = 0
      BY <2>2
    <3> QED BY <3>1, <1>1, <1>2
  <2> QED BY <2>1, <2>2, <1>3
<1>4. ASSUME c2 >= 2
      PROVE  /\ b <= Len(y2)
             /\ Len(g) + Len(x2) + Len(y2) + Len(z2) <= s + b
             /\ \A i \in 1..Len(z2) : z2[i] = <<Len(g) + Len(x2) + (Len(y2) - b) + i>>
  <2>1. b = a /\ x2 = x /\ y2 = y /\ Len(z2) <= Len(z) /\ \A i \in 1..Len(z2) : z2[i] = z[i]
    BY <1>4
  <2>2. /\ a <= Len(y)
        /\ Len(g) + Len(x) + Len(y) + Len(z) <= s + a
        /\ \A i \in 1..Len(z) : z[i] = <<Len(g) + Len(x) + (Len(y) - a) + i>>
    BY <1>4 DEF Flow
  <2>3. Len(g) + Len(x) + Len(y) + Len(z2) <= s + a
    BY <2>1, <2>2, <1>1
  <2>4. \A i \in 1..Len(z2) : i \in 1..Len(z)
    BY <2>1, <1>1
  <2> QED BY <2>1, <2>2, <2>3, <2>4
<1>5. ASSUME c2 >= 3 PROVE Len(g) + Len(x2) + Len(y2) + Len(z2) = s + b
  <2>1. x2 = x /\ y2 = y /\ z2 = z /\ b = a /\ c >= 3
    BY <1>5
  <2>2. Len(g) + Len(x) + Len(y) + Len(z) = s + a
    BY <2>1 DEF Flow
  <2> QED BY <2>1, <2>2
<1> QED BY <1>2, <1>3, <1>4, <1>5 DEF Flow

\* The receiver reads a piece.
LEMMA FlowRead ==
  ASSUME NEW g \in Seq(Contents), NEW x \in Seq(Contents), NEW y \in Seq(Contents), NEW z \in Seq(Contents), NEW s \in Nat, NEW a \in Nat,
         NEW c \in 0..3, Flow(g, x, y, z, s, a, c), x # <<>>
  PROVE  /\ Flow(Append(g, Head(x)), Tail(x), y, z, s, a, c)
         /\ Len(Append(g, Head(x))) + Len(Tail(x)) = Len(g) + Len(x)
<1> DEFINE g2 == Append(g, Head(x))  x2 == Tail(x)
<1>1. /\ Head(x) = x[1] /\ Head(x) \in Contents /\ x2 \in Seq(Contents) /\ Len(x) \in Nat /\ Len(x) >= 1
      /\ Len(x2) = Len(x) - 1 /\ \A i \in 1..Len(x2) : x2[i] = x[i + 1]
  BY PopPiece
<1>2. /\ g2 \in Seq(Contents) /\ Len(g) \in Nat /\ Len(g2) = Len(g) + 1
      /\ \A i \in 1..Len(g) : g2[i] = g[i]
      /\ g2[Len(g) + 1] = Head(x)
      /\ \A i \in 1..Len(g2) : i \in 1..Len(g) \/ i = Len(g) + 1
  BY <1>1, PushPiece
<1>3. Len(y) \in Nat /\ Len(z) \in Nat
  OBVIOUS
<1> HIDE DEF g2, x2
<1>4. \A i \in 1..Len(g2) : g2[i] = <<i>>
  <2>1. Head(x) = <<Len(g) + 1>>
    BY <1>1 DEF Flow
  <2>2. \A i \in 1..Len(g) : g2[i] = <<i>>
    BY <1>2 DEF Flow
  <2> QED BY <2>1, <2>2, <1>2
<1>5. Len(g2) + Len(x2) = Len(g) + Len(x)
  BY <1>1, <1>2
<1>6. \A i \in 1..Len(x2) : x2[i] = <<Len(g2) + i>>
  <2> TAKE i \in 1..Len(x2)
  <2>1. i + 1 \in 1..Len(x) /\ Len(g) + (i + 1) = Len(g2) + i
    BY <1>1, <1>2
  <2> QED BY <2>1, <1>1 DEF Flow
<1>7. /\ Len(g2) + Len(x2) <= s
      /\ c >= 1 => /\ Len(g2) + Len(x2) + Len(y) <= s + a
               /\ \A i \in 1..Len(y) : i > a => y[i] = <<Len(g2) + Len(x2) + (i - a)>>
      /\ c >= 2 => /\ a <= Len(y)
               /\ Len(g2) + Len(x2) + Len(y) + Len(z) <= s + a
               /\ \A i \in 1..Len(z) : z[i] = <<Len(g2) + Len(x2) + (Len(y) - a) + i>>
      /\ c >= 3 => Len(g2) + Len(x2) + Len(y) + Len(z) = s + a
  BY <1>5 DEF Flow
<1>8. Flow(g2, x2, y, z, s, a, c)
  BY <1>4, <1>6, <1>7 DEF Flow
<1> QED BY <1>5, <1>8 DEF g2, x2

\* The relay before the receiver moves a piece.
LEMMA FlowOut ==
  ASSUME NEW g \in Seq(Contents), NEW x \in Seq(Contents), NEW y \in Seq(Contents), NEW z \in Seq(Contents), NEW s \in Nat, NEW a \in Nat,
         NEW c \in 1..3, Flow(g, x, y, z, s, a, c), y # <<>>, a = 0
  PROVE  /\ Flow(g, Append(x, Head(y)), Tail(y), z, s, a, c)
         /\ Len(Append(x, Head(y))) + Len(Tail(y)) = Len(x) + Len(y)
<1> DEFINE x2 == Append(x, Head(y))  y2 == Tail(y)
<1>1. /\ Head(y) = y[1] /\ Head(y) \in Contents /\ y2 \in Seq(Contents) /\ Len(y) \in Nat /\ Len(y) >= 1
      /\ Len(y2) = Len(y) - 1 /\ \A i \in 1..Len(y2) : y2[i] = y[i + 1]
  BY PopPiece
<1>2. /\ x2 \in Seq(Contents) /\ Len(x) \in Nat /\ Len(x2) = Len(x) + 1
      /\ \A i \in 1..Len(x) : x2[i] = x[i]
      /\ x2[Len(x) + 1] = Head(y)
      /\ \A i \in 1..Len(x2) : i \in 1..Len(x) \/ i = Len(x) + 1
  BY <1>1, PushPiece
<1>3. Len(g) \in Nat /\ Len(z) \in Nat
  OBVIOUS
<1> HIDE DEF x2, y2
<1>4. Len(g) + Len(x) + Len(y) <= s /\ \A i \in 1..Len(y) : y[i] = <<Len(g) + Len(x) + i>>
  <2>1. Len(g) + Len(x) + Len(y) <= s + 0 /\ \A i \in 1..Len(y) : i > 0 => y[i] = <<Len(g) + Len(x) + (i - 0)>>
    BY DEF Flow
  <2>2. \A i \in 1..Len(y) : i > 0 /\ i - 0 = i
    BY <1>1
  <2> QED BY <2>1, <2>2
<1>5. Len(x2) + Len(y2) = Len(x) + Len(y)
  BY <1>1, <1>2
<1>6. Len(g) + Len(x2) <= s
  BY <1>1, <1>2, <1>3, <1>4
<1>7. \A i \in 1..Len(x2) : x2[i] = <<Len(g) + i>>
  <2>1. Head(y) = <<Len(g) + (Len(x) + 1)>>
    <3>1. Len(g) + Len(x) + 1 = Len(g) + (Len(x) + 1) /\ 1 \in 1..Len(y)
      BY <1>1, <1>2, <1>3
    <3> QED BY <3>1, <1>1, <1>4
  <2>2. \A i \in 1..Len(x) : x2[i] = <<Len(g) + i>>
    BY <1>2 DEF Flow
  <2> QED BY <2>1, <2>2, <1>2
<1>8. \A i \in 1..Len(y2) : y2[i] = <<Len(g) + Len(x2) + (i - 0)>>
  <2> TAKE i \in 1..Len(y2)
  <2>1. i + 1 \in 1..Len(y) /\ Len(g) + Len(x) + (i + 1) = Len(g) + Len(x2) + (i - 0)
    BY <1>1, <1>2, <1>3
  <2> QED BY <2>1, <1>1, <1>4
<1>9. Len(g) + Len(x2) + Len(y2) = Len(g) + Len(x) + Len(y) /\ Len(g) + Len(x2) + (Len(y2) - 0) = Len(g) + Len(x) + (Len(y) - 0)
      /\ Len(g) + Len(x2) + Len(y2) + Len(z) = Len(g) + Len(x) + Len(y) + Len(z) /\ 0 <= Len(y2)
  BY <1>1, <1>2, <1>3
<1>10. /\ Len(g) + Len(x2) + Len(y2) <= s + 0
       /\ c >= 2 => /\ Len(g) + Len(x2) + Len(y2) + Len(z) <= s + 0
                /\ \A i \in 1..Len(z) : z[i] = <<Len(g) + Len(x2) + (Len(y2) - 0) + i>>
       /\ c >= 3 => Len(g) + Len(x2) + Len(y2) + Len(z) = s + 0
  <2>1. /\ Len(g) + Len(x) + Len(y) <= s + 0
        /\ c >= 2 => /\ Len(g) + Len(x) + Len(y) + Len(z) <= s + 0
                     /\ \A i \in 1..Len(z) : z[i] = <<Len(g) + Len(x) + (Len(y) - 0) + i>>
        /\ c >= 3 => Len(g) + Len(x) + Len(y) + Len(z) = s + 0
    BY DEF Flow
  <2> QED BY <1>9, <2>1, Zenon
<1>11. Flow(g, x2, y2, z, s, 0, c)
  BY <1>6, <1>7, <1>8, <1>9, <1>10 DEF Flow
<1> QED BY <1>5, <1>11 DEF x2, y2
\* The relay behind the sender moves a piece; if something is missing before it, no matter.
LEMMA FlowIn ==
  ASSUME NEW g \in Seq(Contents), NEW x \in Seq(Contents), NEW y \in Seq(Contents), NEW z \in Seq(Contents), NEW s \in Nat, NEW a \in Nat,
         NEW c \in 0..3, Flow(g, x, y, z, s, a, c), z # <<>>,
         c # 1
  PROVE  Flow(g, x, Append(y, Head(z)), Tail(z), s, a, c)
<1> DEFINE y2 == Append(y, Head(z))  z2 == Tail(z)
<1>1. /\ Head(z) = z[1] /\ Head(z) \in Contents /\ z2 \in Seq(Contents) /\ Len(z) \in Nat /\ Len(z) >= 1
      /\ Len(z2) = Len(z) - 1 /\ \A i \in 1..Len(z2) : z2[i] = z[i + 1]
  BY PopPiece
<1>2. /\ y2 \in Seq(Contents) /\ Len(y) \in Nat /\ Len(y2) = Len(y) + 1
      /\ \A i \in 1..Len(y) : y2[i] = y[i]
      /\ y2[Len(y) + 1] = Head(z)
      /\ \A i \in 1..Len(y2) : i \in 1..Len(y) \/ i = Len(y) + 1
  BY <1>1, PushPiece
<1>3. Len(g) \in Nat /\ Len(x) \in Nat
  OBVIOUS
<1> HIDE DEF y2, z2
<1>4. ASSUME c >= 2
      PROVE  /\ a <= Len(y2) /\ Len(g) + Len(x) + Len(y2) <= s + a
             /\ \A i \in 1..Len(y2) : i > a => y2[i] = <<Len(g) + Len(x) + (i - a)>>
             /\ Len(g) + Len(x) + Len(y2) + Len(z2) = Len(g) + Len(x) + Len(y) + Len(z)
             /\ \A i \in 1..Len(z2) : z2[i] = <<Len(g) + Len(x) + (Len(y2) - a) + i>>
  <2>1. /\ a <= Len(y)
        /\ Len(g) + Len(x) + Len(y) + Len(z) <= s + a
        /\ \A i \in 1..Len(z) : z[i] = <<Len(g) + Len(x) + (Len(y) - a) + i>>
        /\ \A i \in 1..Len(y) : i > a => y[i] = <<Len(g) + Len(x) + (i - a)>>
    BY <1>4, SMTT(30) DEF Flow
  <2>2. Len(g) + Len(x) + Len(y2) + Len(z2) = Len(g) + Len(x) + Len(y) + Len(z) /\ a <= Len(y2)
        /\ Len(g) + Len(x) + Len(y2) <= s + a
    BY <2>1, <1>1, <1>2, <1>3
  <2>3. Head(z) = <<Len(g) + Len(x) + ((Len(y) + 1) - a)>>
    <3>1. Len(g) + Len(x) + (Len(y) - a) + 1 = Len(g) + Len(x) + ((Len(y) + 1) - a) /\ 1 \in 1..Len(z)
      BY <1>1, <1>2, <1>3
    <3> QED BY <3>1, <2>1, <1>1
  <2>4. \A i \in 1..Len(y2) : i > a => y2[i] = <<Len(g) + Len(x) + (i - a)>>
    BY <2>1, <2>3, <1>2
  <2>5. ASSUME NEW i \in 1..Len(z2) PROVE z2[i] = <<Len(g) + Len(x) + (Len(y2) - a) + i>>
    <3>1. i + 1 \in 1..Len(z) /\ Len(g) + Len(x) + (Len(y) - a) + (i + 1) = Len(g) + Len(x) + (Len(y2) - a) + i
      BY <1>1, <1>2, <1>3, SMTT(30)
    <3> QED BY <3>1, <2>1, <1>1
  <2> QED BY <2>2, <2>4, <2>5
<1>5. c >= 3 => Len(g) + Len(x) + Len(y2) + Len(z2) = s + a
  BY <1>4 DEF Flow
<1>6. c >= 2 => Len(g) + Len(x) + Len(y2) + Len(z2) <= s + a
  BY <1>4 DEF Flow
<1>7. Flow(g, x, y2, z2, s, a, c)
  BY <1>4, <1>5, <1>6, SMTT(30) DEF Flow
<1> QED BY <1>7 DEF y2, z2

\* The sender sends the next piece.
LEMMA FlowSend ==
  ASSUME NEW g \in Seq(Contents), NEW x \in Seq(Contents), NEW y \in Seq(Contents), NEW z \in Seq(Contents), NEW s \in Nat, NEW a \in Nat,
         NEW c \in 0..3, Flow(g, x, y, z, s, a, c), c # 2
  PROVE  Flow(g, x, y, Append(z, <<s + 1>>), s + 1, a, c)
<1> DEFINE e == <<s + 1>>  z2 == Append(z, e)
<1>1. e \in Contents
  BY DEF Contents
<1> HIDE DEF e
<1>2. /\ z2 \in Seq(Contents) /\ Len(z) \in Nat /\ Len(z2) = Len(z) + 1
      /\ \A i \in 1..Len(z) : z2[i] = z[i]
      /\ z2[Len(z) + 1] = e
      /\ \A i \in 1..Len(z2) : i \in 1..Len(z) \/ i = Len(z) + 1
  BY <1>1, PushPiece
<1>3. Len(g) \in Nat /\ Len(x) \in Nat /\ Len(y) \in Nat
  OBVIOUS
<1> HIDE DEF z2
<1>4. ASSUME c >= 2
      PROVE  /\ Len(g) + Len(x) + Len(y) + Len(z2) = (s + 1) + a
             /\ \A i \in 1..Len(z2) : z2[i] = <<Len(g) + Len(x) + (Len(y) - a) + i>>
  <2>1. Len(g) + Len(x) + Len(y) + Len(z) = s + a /\ \A i \in 1..Len(z) : z[i] = <<Len(g) + Len(x) + (Len(y) - a) + i>>
    BY <1>4 DEF Flow
  <2>2. Len(g) + Len(x) + Len(y) + Len(z2) = (s + 1) + a /\ s + 1 = Len(g) + Len(x) + (Len(y) - a) + (Len(z) + 1)
    <3> DEFINE p == Len(g)  q == Len(x)  r == Len(y)  t == Len(z)
    <3>1. p \in Nat /\ q \in Nat /\ r \in Nat /\ t \in Nat
      BY <1>2, <1>3
    <3>2. p + q + r + t = s + a
      BY <2>1
    <3> HIDE DEF p, q, r, t
    <3>3. p + q + r + (t + 1) = (s + 1) + a /\ s + 1 = p + q + (r - a) + (t + 1)
      BY <3>1, <3>2
    <3> QED BY <3>3, <1>2, Zenon DEF p, q, r, t
  <2>3. e = <<Len(g) + Len(x) + (Len(y) - a) + (Len(z) + 1)>>
    BY <2>2 DEF e
  <2> QED BY <2>1, <2>2, <2>3, <1>2
<1>5. Len(g) + Len(x) <= s + 1 /\ (c >= 1 => Len(g) + Len(x) + Len(y) <= (s + 1) + a)
      /\ (c >= 2 => Len(g) + Len(x) + Len(y) + Len(z2) <= (s + 1) + a)
  <2>1. Len(g) + Len(x) <= s /\ (c >= 1 => Len(g) + Len(x) + Len(y) <= s + a)
    BY DEF Flow
  <2>2. (s + 1) + a <= (s + 1) + a
    OBVIOUS
  <2> QED BY <2>1, <2>2, <1>3, <1>4
<1>6. Flow(g, x, y, z2, s + 1, a, c)
  BY <1>4, <1>5, SMTT(30) DEF Flow
<1> QED BY <1>6 DEF z2, e

\* The header goes to the vsock hop, before anything else.
LEMMA FlowHeader ==
  ASSUME NEW g \in Seq(Contents), NEW x \in Seq(Contents), NEW z \in Seq(Contents), NEW s \in Nat, NEW y2 \in Seq(Contents), NEW b \in Nat,
         NEW c \in 0..3, Flow(g, x, <<>>, z, s, 0, c),
         c >= 1 => Len(y2) = b
  PROVE  Flow(g, x, y2, z, s, b, c)
<1>1. Len(g) \in Nat /\ Len(x) \in Nat /\ Len(z) \in Nat /\ Len(<<>>) = 0 /\ Len(y2) \in Nat
  OBVIOUS
<1>2. Len(g) + Len(x) <= s
  BY DEF Flow
<1>3. ASSUME c >= 1
      PROVE  Len(g) + Len(x) + Len(y2) <= s + b /\ \A i \in 1..Len(y2) : i > b => y2[i] = <<Len(g) + Len(x) + (i - b)>>
  BY <1>1, <1>2, <1>3
<1>4. ASSUME c >= 2
      PROVE  /\ b <= Len(y2) /\ Len(g) + Len(x) + Len(y2) + Len(z) <= s + b
             /\ \A i \in 1..Len(z) : z[i] = <<Len(g) + Len(x) + (Len(y2) - b) + i>>
             /\ c >= 3 => Len(g) + Len(x) + Len(y2) + Len(z) = s + b
  <2>1. /\ Len(g) + Len(x) + 0 + Len(z) <= s + 0
        /\ \A i \in 1..Len(z) : z[i] = <<Len(g) + Len(x) + (0 - 0) + i>>
        /\ c >= 3 => Len(g) + Len(x) + 0 + Len(z) = s + 0
    BY <1>1, <1>4 DEF Flow
  <2>2. Len(y2) - b = 0 - 0 /\ b <= Len(y2)
    BY <1>1, <1>4
  <2>3. Len(g) + Len(x) + Len(y2) + Len(z) <= s + b /\ (c >= 3 => Len(g) + Len(x) + Len(y2) + Len(z) = s + b)
    <3>1. Len(y2) = b
      BY <1>4
    <3>2. Len(g) + Len(x) + b + Len(z) <= s + b /\ (c >= 3 => Len(g) + Len(x) + b + Len(z) = s + b)
      <4>1. \A p, q, t \in Nat : p + q + 0 + t <= s + 0 => p + q + b + t <= s + b
        OBVIOUS
      <4>2. \A p, q, t \in Nat : p + q + 0 + t = s + 0 => p + q + b + t = s + b
        OBVIOUS
      <4> QED BY <4>1, <4>2, <2>1, <1>1, ZenonT(60)
    <3> QED BY <3>1, <3>2, Zenon
  <2> QED BY <2>1, <2>2, <2>3
<1> QED BY <1>2, <1>3, <1>4 DEF Flow

\* A piece of the header is read.
LEMMA FlowReadHeader ==
  ASSUME NEW g \in Seq(Contents), NEW x \in Seq(Contents), NEW y \in Seq(Contents), NEW z \in Seq(Contents), NEW s \in Nat, NEW b \in Nat,
         NEW c \in 0..3, Flow(g, x, y, z, s, b + 1, c), y # <<>>
  PROVE  Flow(g, x, Tail(y), z, s, b, c)
<1> DEFINE y2 == Tail(y)
<1>1. /\ y2 \in Seq(Contents) /\ Len(y) \in Nat /\ Len(y) >= 1
      /\ Len(y2) = Len(y) - 1 /\ \A i \in 1..Len(y2) : y2[i] = y[i + 1]
  BY PopPiece
<1>2. Len(g) \in Nat /\ Len(x) \in Nat /\ Len(z) \in Nat
  OBVIOUS
<1> HIDE DEF y2
<1>3. ASSUME c >= 1
      PROVE  Len(g) + Len(x) + Len(y2) <= s + b /\ \A i \in 1..Len(y2) : i > b => y2[i] = <<Len(g) + Len(x) + (i - b)>>
  <2>1. Len(g) + Len(x) + Len(y) <= s + (b + 1) /\ \A i \in 1..Len(y) : i > b + 1 => y[i] = <<Len(g) + Len(x) + (i - (b + 1))>>
    BY <1>3 DEF Flow
  <2>2. Len(g) + Len(x) + Len(y2) <= s + b
    BY <2>1, <1>1, <1>2
  <2>3. ASSUME NEW i \in 1..Len(y2), i > b PROVE y2[i] = <<Len(g) + Len(x) + (i - b)>>
    <3>1. i + 1 \in 1..Len(y) /\ i + 1 > b + 1 /\ (i + 1) - (b + 1) = i - b
      BY <2>3, <1>1
    <3> QED BY <3>1, <2>1, <1>1
  <2> QED BY <2>2, <2>3
<1>4. ASSUME c >= 2
      PROVE  /\ b <= Len(y2) /\ Len(g) + Len(x) + Len(y2) + Len(z) <= s + b
             /\ \A i \in 1..Len(z) : z[i] = <<Len(g) + Len(x) + (Len(y2) - b) + i>>
  <2>1. /\ b + 1 <= Len(y) /\ Len(g) + Len(x) + Len(y) + Len(z) <= s + (b + 1)
        /\ \A i \in 1..Len(z) : z[i] = <<Len(g) + Len(x) + (Len(y) - (b + 1)) + i>>
    BY <1>4 DEF Flow
  <2>2. Len(y) - (b + 1) = Len(y2) - b /\ b <= Len(y2) /\ Len(g) + Len(x) + Len(y2) + Len(z) <= s + b
    BY <2>1, <1>1, <1>2
  <2> QED BY <2>1, <2>2
<1>5. ASSUME c >= 3 PROVE Len(g) + Len(x) + Len(y2) + Len(z) = s + b
  <2>1. Len(g) + Len(x) + Len(y) + Len(z) = s + (b + 1)
    BY <1>5 DEF Flow
  <2> QED BY <2>1, <1>1, <1>2
<1>6. Flow(g, x, y2, z, s, b, c)
  BY <1>3, <1>4, <1>5 DEF Flow
<1> QED BY <1>6 DEF y2

-----------------------------------------------------------------------------
(* What the ways of changing a hop do, cell by cell                        *)

HopType == hop \in [1..3 -> [Dirs -> Cells]]

\* Everything but the data of a cell is as before.
SameMarks == \A k \in 1..3, q \in Dirs : hop'[k][q].fin = hop[k][q].fin /\ hop'[k][q].deaf = hop[k][q].deaf

\* A cell of a hop is given other data.
LEMMA SetData ==
  ASSUME HopType, NEW h \in 1..3, NEW d \in Dirs, NEW e \in Seq(Contents), hop' = [hop EXCEPT ![h][d].data = e]
  PROVE  /\ HopType' /\ SameMarks /\ Data(h, d)' = e
         /\ \A k \in 1..3, q \in Dirs : k # h \/ q # d => Data(k, q)' = Data(k, q)
<1> DEFINE b == hop[h][d]  c == [b EXCEPT !.data = e]
<1>1. b \in Cells
  BY DEF HopType
<1> HIDE DEF b
<1>2. c \in Cells /\ c.data = e /\ c.fin = b.fin /\ c.deaf = b.deaf
  BY <1>1 DEF Cells
<1>3. hop' = [hop EXCEPT ![h] = [hop[h] EXCEPT ![d] = c]]
  BY DEF b
<1> HIDE DEF c
<1>4. hop' \in [1..3 -> [Dirs -> Cells]]
  <2>1. [hop[h] EXCEPT ![d] = c] \in [Dirs -> Cells]
    BY <1>2 DEF HopType
  <2> QED BY <2>1, <1>3 DEF HopType
<1>5. hop'[h][d] = c /\ \A k \in 1..3, q \in Dirs : k # h \/ q # d => hop'[k][q] = hop[k][q]
  BY <1>2, <1>3 DEF HopType
<1> QED BY <1>2, <1>4, <1>5 DEF HopType, SameMarks, Data, b

\* A direction of a hop is ended.
LEMMA SetFin ==
  ASSUME HopType, NEW h \in 1..3, NEW d \in Dirs, hop' = [hop EXCEPT ![h][d].fin = TRUE]
  PROVE  /\ HopType'
         /\ \A k \in 1..3, q \in Dirs :
              /\ Data(k, q)' = Data(k, q) /\ hop'[k][q].deaf = hop[k][q].deaf
              /\ k # h \/ q # d => hop'[k][q].fin = hop[k][q].fin
<1> DEFINE b == hop[h][d]  c == [b EXCEPT !.fin = TRUE]
<1>1. b \in Cells
  BY DEF HopType
<1> HIDE DEF b
<1>2. c \in Cells /\ c.data = b.data /\ c.fin = TRUE /\ c.deaf = b.deaf
  BY <1>1 DEF Cells
<1>3. hop' = [hop EXCEPT ![h] = [hop[h] EXCEPT ![d] = c]]
  BY DEF b
<1> HIDE DEF c
<1>4. hop' \in [1..3 -> [Dirs -> Cells]]
  <2>1. [hop[h] EXCEPT ![d] = c] \in [Dirs -> Cells]
    BY <1>2 DEF HopType
  <2> QED BY <2>1, <1>3 DEF HopType
<1>5. hop'[h][d] = c /\ \A k \in 1..3, q \in Dirs : k # h \/ q # d => hop'[k][q] = hop[k][q]
  BY <1>2, <1>3 DEF HopType
<1> QED BY <1>2, <1>4, <1>5 DEF HopType, Data, b

\* The hops when the first piece of hop f has gone to hop t.
Moved(f, t, d) == [hop EXCEPT ![t][d].data = Append(@, Head(hop[f][d].data)), ![f][d].data = Tail(@)]

\* io::copy moves a piece from a hop to another one.
LEMMA MoveData ==
  ASSUME HopType, NEW f \in 1..3, NEW t \in 1..3, f # t, NEW d \in Dirs, Data(f, d) # <<>>,
         hop' = Moved(f, t, d)
  PROVE  /\ HopType' /\ SameMarks
         /\ Data(t, d)' = Append(Data(t, d), Head(Data(f, d))) /\ Data(f, d)' = Tail(Data(f, d))
         /\ \A k \in 1..3, q \in Dirs : (k # f /\ k # t) \/ q # d => Data(k, q)' = Data(k, q)
<1>1. hop[f][d] \in Cells /\ hop[t][d] \in Cells /\ hop[f][d].data \in Seq(Contents) /\ hop[t][d].data \in Seq(Contents)
  BY DEF HopType, Cells
<1> DEFINE a == Append(hop[t][d].data, Head(hop[f][d].data))  b == Tail(hop[f][d].data)
<1>2. a \in Seq(Contents) /\ b \in Seq(Contents)
  BY <1>1, PopPiece, PushPiece DEF Data
<1> DEFINE ct == [hop[t][d] EXCEPT !.data = a]  cf == [hop[f][d] EXCEPT !.data = b]
<1>3. /\ ct \in Cells /\ ct.data = a /\ ct.fin = hop[t][d].fin /\ ct.deaf = hop[t][d].deaf
      /\ cf \in Cells /\ cf.data = b /\ cf.fin = hop[f][d].fin /\ cf.deaf = hop[f][d].deaf
  <2> HIDE DEF a, b
  <2> QED BY <1>1, <1>2 DEF Cells
<1>4. hop' = [[hop EXCEPT ![t] = [hop[t] EXCEPT ![d] = ct]] EXCEPT ![f] = [hop[f] EXCEPT ![d] = cf]]
  BY DEF HopType, Moved
<1> HIDE DEF ct, cf
<1>5. /\ hop' \in [1..3 -> [Dirs -> Cells]] /\ hop'[t][d] = ct /\ hop'[f][d] = cf
      /\ \A k \in 1..3, q \in Dirs : (k # f /\ k # t) \/ q # d => hop'[k][q] = hop[k][q]
  <2> DEFINE nt == [hop[t] EXCEPT ![d] = ct]  nf == [hop[f] EXCEPT ![d] = cf]
  <2>1. /\ nt \in [Dirs -> Cells] /\ nt[d] = ct /\ \A q \in Dirs : q # d => nt[q] = hop[t][q]
        /\ nf \in [Dirs -> Cells] /\ nf[d] = cf /\ \A q \in Dirs : q # d => nf[q] = hop[f][q]
    BY <1>3 DEF HopType
  <2> HIDE DEF nt, nf
  <2>2. hop' = [[hop EXCEPT ![t] = nt] EXCEPT ![f] = nf]
    BY <1>4 DEF nt, nf
  <2>3. hop' \in [1..3 -> [Dirs -> Cells]] /\ hop'[t] = nt /\ hop'[f] = nf /\ \A k \in 1..3 : k # f /\ k # t => hop'[k] = hop[k]
    BY <2>1, <2>2, ZenonT(60) DEF HopType
  <2> QED BY <2>1, <2>3, ZenonT(60)
<1>6. SameMarks
  <2>1. ASSUME NEW k \in 1..3, NEW q \in Dirs
        PROVE  hop'[k][q].fin = hop[k][q].fin /\ hop'[k][q].deaf = hop[k][q].deaf
    <3>1. CASE k = t /\ q = d
      BY <3>1, <1>3, <1>5
    <3>2. CASE k = f /\ q = d
      BY <3>2, <1>3, <1>5
    <3>3. CASE (k # f /\ k # t) \/ q # d
      BY <3>3, <1>5
    <3> QED BY <3>1, <3>2, <3>3
  <2> QED BY <2>1 DEF SameMarks
<1> QED BY <1>3, <1>5, <1>6 DEF HopType, Data

\* A relay drops its streams.
LEMMA DropCells ==
  ASSUME HopType, NEW r \in Relays, NEW hops, Drop(r, hops)
  PROVE  /\ HopType' /\ reset \subseteq reset'
         /\ \A k \in 1..3, q \in Dirs :
              /\ Data(k, q)' = Data(k, q) \/ (Data(k, q)' = <<>> /\ hop'[k][q].deaf)
              /\ hop[k][q].deaf => hop'[k][q].deaf
              /\ hop[k][q].fin => hop'[k][q].fin
<1> DEFINE reads(h) == IF h = Near(r) THEN "up" ELSE "down"
           writes(h) == IF h = Near(r) THEN "down" ELSE "up"
           upd(h, w, v) == [hop[h] EXCEPT ![w].fin = TRUE, ![v].deaf = TRUE, ![v].data = <<>>]
           new(h) == upd(h, writes(h), reads(h))
<1>1. hop' = [h \in 1..3 |-> IF h \notin hops THEN hop[h] ELSE new(h)] /\ reset \subseteq reset'
  BY DEF Drop
<1>2. ASSUME NEW h \in 1..3, NEW w \in Dirs, NEW v \in Dirs, w # v
      PROVE  /\ upd(h, w, v) \in [Dirs -> Cells]
             /\ upd(h, w, v)[w].data = hop[h][w].data /\ upd(h, w, v)[w].deaf = hop[h][w].deaf /\ upd(h, w, v)[w].fin
             /\ upd(h, w, v)[v].data = <<>> /\ upd(h, w, v)[v].deaf /\ upd(h, w, v)[v].fin = hop[h][v].fin
  <2>1. hop[h] \in [Dirs -> Cells] /\ hop[h][w] \in Cells /\ hop[h][v] \in Cells
    BY DEF HopType
  <2> DEFINE cw == [hop[h][w] EXCEPT !.fin = TRUE]
             cv == [hop[h][v] EXCEPT !.deaf = TRUE]
             cv2 == [cv EXCEPT !.data = <<>>]
             n == upd(h, w, v)
  <2>2. /\ cw \in Cells /\ cw.data = hop[h][w].data /\ cw.deaf = hop[h][w].deaf /\ cw.fin
        /\ cv \in Cells /\ cv.deaf /\ cv.fin = hop[h][v].fin
    BY <2>1 DEF Cells
  <2>3. <<>> \in Seq(Contents)
    OBVIOUS
  <2>4. /\ cv2 \in Cells /\ cv2.data = <<>> /\ cv2.deaf /\ cv2.fin = hop[h][v].fin
    <3> HIDE DEF cv
    <3> QED BY <2>2, <2>3 DEF Cells
  <2>5. n = [[hop[h] EXCEPT ![w] = cw] EXCEPT ![v] = cv2]
    BY <2>1, <1>2
  <2> HIDE DEF cw, cv, cv2, n, upd
  <2>6. n \in [Dirs -> Cells] /\ n[w] = cw /\ n[v] = cv2
    BY <2>1, <2>2, <2>4, <2>5, <1>2
  <2>7. /\ n \in [Dirs -> Cells]
        /\ n[w].data = hop[h][w].data /\ n[w].deaf = hop[h][w].deaf /\ n[w].fin
        /\ n[v].data = <<>> /\ n[v].deaf /\ n[v].fin = hop[h][v].fin
    BY <2>2, <2>4, <2>6
  <2> QED BY <2>7 DEF n
<1>3. \A h \in 1..3 : reads(h) \in Dirs /\ writes(h) \in Dirs /\ writes(h) # reads(h) /\ Dirs = {reads(h), writes(h)}
  BY DEF Dirs
<1>4. ASSUME NEW h \in 1..3
      PROVE  /\ new(h) \in [Dirs -> Cells]
             /\ new(h)[writes(h)].data = hop[h][writes(h)].data /\ new(h)[writes(h)].deaf = hop[h][writes(h)].deaf
             /\ new(h)[writes(h)].fin
             /\ new(h)[reads(h)].data = <<>> /\ new(h)[reads(h)].deaf /\ new(h)[reads(h)].fin = hop[h][reads(h)].fin
  <2>1. reads(h) \in Dirs /\ writes(h) \in Dirs /\ writes(h) # reads(h)
    BY <1>3
  <2> HIDE DEF reads, writes, upd
  <2> QED BY <1>2, <2>1
<1> HIDE DEF new, reads, writes, upd
<1>5. HopType'
  BY <1>1, <1>4 DEF HopType
<1>6. ASSUME NEW k \in 1..3, NEW q \in Dirs
      PROVE  /\ Data(k, q)' = Data(k, q) \/ (Data(k, q)' = <<>> /\ hop'[k][q].deaf)
             /\ hop[k][q].deaf => hop'[k][q].deaf
             /\ hop[k][q].fin => hop'[k][q].fin
  <2>1. CASE k \notin hops
    BY <2>1, <1>1 DEF Data
  <2>2. CASE k \in hops
    <3>1. hop'[k] = new(k)
      BY <2>2, <1>1
    <3>2. CASE q = reads(k)
      BY <3>1, <3>2, <1>4 DEF Data
    <3>3. CASE q = writes(k)
      BY <3>1, <3>3, <1>4 DEF Data
    <3> QED BY <3>2, <3>3, <1>3
  <2> QED BY <2>1, <2>2
<1> QED BY <1>1, <1>5, <1>6

\* A hop is reset: each of its directions keeps a part of what it holds.
LEMMA ResetCells ==
  ASSUME HopType, NEW h \in 1..3, NEW k \in [Dirs -> 0..HopCap], \A d \in Dirs : k[d] <= Len(hop[h][d].data),
         hop' = [hop EXCEPT ![h] = [d \in Dirs |-> [hop[h][d] EXCEPT !.data = SubSeq(hop[h][d].data, 1, k[d])]]]
  PROVE  /\ HopType' /\ SameMarks
         /\ \A j \in 1..3, d \in Dirs : j # h => Data(j, d)' = Data(j, d)
         /\ \A d \in Dirs : Begins(Data(h, d)', Data(h, d))
<1> DEFINE part(d) == SubSeq(hop[h][d].data, 1, k[d])  new(d) == [hop[h][d] EXCEPT !.data = part(d)]
<1>1. \A d \in Dirs : hop[h][d] \in Cells /\ hop[h][d].data \in Seq(Contents)
  BY DEF HopType, Cells
<1>2. ASSUME NEW d \in Dirs
      PROVE  /\ part(d) \in Seq(Contents) /\ Len(part(d)) <= Len(hop[h][d].data)
             /\ \A i \in 1..Len(part(d)) : part(d)[i] = hop[h][d].data[i]
  <2>1. k[d] \in 0..HopCap /\ k[d] <= Len(hop[h][d].data) /\ hop[h][d].data \in Seq(Contents)
    BY <1>1
  <2>2. k[d] \in Nat /\ k[d] \in 0..Len(hop[h][d].data) /\ Len(hop[h][d].data) \in Nat
    BY <2>1, TcpBoundsAssumption
  <2> DEFINE t == hop[h][d].data  m == k[d]
  <2> HIDE DEF t, m
  <2>3. SubSeq(t, 1, m) \in Seq(Contents) /\ Len(SubSeq(t, 1, m)) = m /\ \A i \in 1..m : SubSeq(t, 1, m)[i] = t[i]
    BY <2>1, <2>2 DEF t, m
  <2> QED BY <2>1, <2>2, <2>3 DEF t, m
<1> HIDE DEF part
<1>3. ASSUME NEW d \in Dirs
      PROVE  new(d) \in Cells /\ new(d).data = part(d) /\ new(d).fin = hop[h][d].fin /\ new(d).deaf = hop[h][d].deaf
  BY <1>1, <1>2 DEF Cells
<1>4. hop' = [hop EXCEPT ![h] = [d \in Dirs |-> new(d)]]
  BY DEF part
<1> HIDE DEF new
<1>5. /\ hop' \in [1..3 -> [Dirs -> Cells]] /\ \A d \in Dirs : hop'[h][d] = new(d)
      /\ \A j \in 1..3 : j # h => hop'[j] = hop[j]
  <2> DEFINE n == [d \in Dirs |-> new(d)]
  <2>1. n \in [Dirs -> Cells] /\ \A d \in Dirs : n[d] = new(d)
    BY <1>3
  <2>2. hop' = [hop EXCEPT ![h] = n]
    BY <1>4
  <2> HIDE DEF n
  <2>3. hop' \in [1..3 -> [Dirs -> Cells]] /\ hop'[h] = n /\ \A j \in 1..3 : j # h => hop'[j] = hop[j]
    BY <2>1, <2>2 DEF HopType
  <2> QED BY <2>1, <2>3
<1>6. SameMarks
  BY <1>3, <1>5 DEF SameMarks
<1> QED BY <1>2, <1>3, <1>5, <1>6 DEF HopType, Data, Begins

-----------------------------------------------------------------------------
(* Steps that move nothing, and what they leave of a direction             *)

\* In direction d nothing moves: what a hop loses comes with a gap that stays.
CutOnly(d) ==
  /\ got'[d] = got[d] /\ sent'[d] = sent[d]
  /\ \A h \in 1..3 :
       /\ Begins(Data(h, d)', Data(h, d))
       /\ Data(h, d)' = Data(h, d) \/ Gap(h, d)'
       /\ Gap(h, d) => Gap(h, d)'
  /\ \A r \in Relays : relay[r] = "error" => relay'[r] = "error"

\* Where the places of a direction are.
LEMMA Places ==
  \A d \in Dirs : /\ EndHop(d) \in 1..3 /\ 4 - EndHop(d) \in 1..3 /\ EndHop(d) # 2 /\ 4 - EndHop(d) # 2 /\ 4 - EndHop(d) # EndHop(d)
                  /\ In(d) \in Relays /\ Out(d) \in Relays /\ In(d) # Out(d)
BY DEF Dirs, EndHop, In, Out, Relays

\* The types of what a flow is stated about.
FlowTyped ==
  \A d \in Dirs : /\ got[d] \in Seq(Contents) /\ sent[d] \in Nat /\ Ahead(d) \in Nat /\ Clear(d) \in 0..3
                 /\ \A h \in 1..3 : Data(h, d) \in Seq(Contents) /\ hop[h][d] \in Cells

\* They follow from the types of the variables.
LEMMA FlowTypes == TcpTypes => FlowTyped
<1> SUFFICES ASSUME TcpTypes, NEW d \in Dirs
             PROVE  /\ got[d] \in Seq(Contents) /\ sent[d] \in Nat /\ Ahead(d) \in Nat /\ Clear(d) \in 0..3
                    /\ \A h \in 1..3 : Data(h, d) \in Seq(Contents) /\ hop[h][d] \in Cells
  BY DEF FlowTyped
<1>1. got[d] \in Seq(Contents) /\ sent[d] \in Nat
  BY DEF TcpTypes
<1>2. Ahead(d) \in Nat
  BY DEF Ahead
<1>3. \A h \in 1..3 : hop[h][d] \in Cells
  BY DEF TcpTypes
<1>4. \A h \in 1..3 : Data(h, d) \in Seq(Contents)
  BY <1>3 DEF Data, Cells
<1>5. Clear(d) \in 0..3
  BY DEF Clear
<1> QED BY <1>1, <1>2, <1>3, <1>4, <1>5

\* The same for the next state.
LEMMA FlowTypesNext == TcpTypes' => FlowTyped'
BY FlowTypes, PTL

\* What is clear after such a step was clear, and is complete.
LEMMA CutClear ==
  ASSUME NEW d \in Dirs, CutOnly(d)
  PROVE  /\ Clear(d)' <= Clear(d)
         /\ Clear(d)' >= 1 => Data(4 - EndHop(d), d)' = Data(4 - EndHop(d), d)
         /\ Clear(d)' >= 2 => Data(2, d)' = Data(2, d)
         /\ Clear(d)' >= 3 => Data(EndHop(d), d)' = Data(EndHop(d), d)
<1>1. /\ \A h \in 1..3 : (Data(h, d)' = Data(h, d) \/ Gap(h, d)') /\ (Gap(h, d) => Gap(h, d)')
      /\ \A r \in Relays : relay[r] = "error" => relay'[r] = "error"
  BY DEF CutOnly
<1>2. EndHop(d) \in 1..3 /\ 4 - EndHop(d) \in 1..3 /\ 2 \in 1..3 /\ In(d) \in Relays /\ Out(d) \in Relays
  BY Places
<1>3. /\ relay[Out(d)] = "error" => relay'[Out(d)] = "error"
      /\ relay[In(d)] = "error" => relay'[In(d)] = "error"
      /\ Gap(4 - EndHop(d), d) => Gap(4 - EndHop(d), d)'
      /\ Gap(2, d) => Gap(2, d)'
      /\ Gap(EndHop(d), d) => Gap(EndHop(d), d)'
  BY <1>1, <1>2, Zenon
<1>4. /\ ~Gap(4 - EndHop(d), d)' => Data(4 - EndHop(d), d)' = Data(4 - EndHop(d), d)
      /\ ~Gap(2, d)' => Data(2, d)' = Data(2, d)
      /\ ~Gap(EndHop(d), d)' => Data(EndHop(d), d)' = Data(EndHop(d), d)
  BY <1>1, <1>2, Zenon
<1>5. Clear(d)' = IF relay'[Out(d)] = "error" \/ Gap(4 - EndHop(d), d)' THEN 0
                  ELSE IF relay'[In(d)] = "error" \/ Gap(2, d)' THEN 1
                  ELSE IF Gap(EndHop(d), d)' THEN 2 ELSE 3
  BY DEF Clear
<1>6. Clear(d)' <= Clear(d)
  BY <1>3, <1>5 DEF Clear
<1> QED BY <1>4, <1>5, <1>6

\* The flow of a direction in which nothing moves.
LEMMA CutKeepsFlow ==
  ASSUME TcpTypes, TcpTypes', NEW d \in Dirs, FlowOf(d), CutOnly(d),
         Clear(d)' >= 1 => Ahead(d)' = Ahead(d) \/ (Data(2, d)' = <<>> /\ Clear(d)' < 2)
  PROVE  FlowOf(d)'
<1> DEFINE x == Data(4 - EndHop(d), d)  y == Data(2, d)  z == Data(EndHop(d), d)
           g == got[d]  n == sent[d]  a == Ahead(d)  c == Clear(d)
           x2 == x'  y2 == y'  z2 == z'  b == Ahead(d)'  c2 == Clear(d)'
<1>1. EndHop(d) \in 1..3 /\ 4 - EndHop(d) \in 1..3 /\ 2 \in 1..3
  BY Places
<1>2. /\ g \in Seq(Contents) /\ n \in Nat /\ a \in Nat /\ c \in 0..3
      /\ x \in Seq(Contents) /\ y \in Seq(Contents) /\ z \in Seq(Contents)
  BY <1>1, FlowTypes DEF FlowTyped
<1>3. b \in Nat /\ c2 \in 0..3 /\ x2 \in Seq(Contents) /\ y2 \in Seq(Contents) /\ z2 \in Seq(Contents)
  BY <1>1, FlowTypesNext DEF FlowTyped
<1>4. got'[d] = g /\ sent'[d] = n /\ Begins(x2, x) /\ Begins(y2, y) /\ Begins(z2, z)
  BY <1>1, Zenon DEF CutOnly
<1>5. /\ c2 <= c
      /\ c2 >= 1 => x2 = x /\ (b = a \/ (y2 = <<>> /\ c2 < 2))
      /\ c2 >= 2 => y2 = y
      /\ c2 >= 3 => z2 = z
  BY CutClear
<1>6. Flow(g, x, y, z, n, a, c)
  BY DEF FlowOf
<1> HIDE DEF g, n, a, c, x, y, z, x2, y2, z2, b, c2
<1>7. Flow(g, x2, y2, z2, n, b, c2)
  BY <1>2, <1>3, <1>4, <1>5, <1>6, FlowCut
<1>8. Flow(got'[d], x2, y2, z2, sent'[d], b, c2)
  BY <1>4, <1>7
<1> QED BY <1>8 DEF FlowOf, x, y, z, x2, y2, z2, b, c2

\* The end of a direction in which nothing moves or ends.
LEMMA CutKeepsEnd ==
  ASSUME NEW d \in Dirs, EndOf(d), CutOnly(d), Ahead(d)' = Ahead(d), TcpTypes, TcpTypes',
         \A h \in 1..3 : hop'[h][d].fin = hop[h][d].fin /\ hop'[h][d].deaf = hop[h][d].deaf,
         \A r \in Relays : d \in copied'[r] <=> d \in copied[r],
         d \in shut' <=> d \in shut, d \in ended' <=> d \in ended
  PROVE  EndOf(d)'
<1> DEFINE x == Data(4 - EndHop(d), d)  y == Data(2, d)  z == Data(EndHop(d), d)
<1>1. EndHop(d) \in 1..3 /\ 4 - EndHop(d) \in 1..3 /\ 2 \in 1..3 /\ In(d) \in Relays /\ Out(d) \in Relays
  BY Places
<1>2. /\ Clear(d)' >= 1 => Clear(d) >= 1 /\ x' = x
      /\ Clear(d)' >= 2 => Clear(d) >= 2 /\ x' = x /\ y' = y
  <2>1. Clear(d) \in 0..3 /\ Clear(d)' \in 0..3
    BY FlowTypes, FlowTypesNext DEF FlowTyped
  <2> QED BY <2>1, CutClear
<1>3. got'[d] = got[d] /\ sent'[d] = sent[d] /\ Len(y') <= Len(y) /\ Len(z') <= Len(z)
  BY <1>1, Zenon DEF CutOnly, Begins
<1>4. (y = <<>> => y' = <<>>) /\ (z = <<>> => z' = <<>>)
  <2>1. \A t \in Seq(Contents) : Len(t) <= 0 => t = <<>>
    BY EmptySeq
  <2>2. y' \in Seq(Contents) /\ z' \in Seq(Contents)
    BY <1>1, FlowTypesNext DEF FlowTyped
  <2> QED BY <2>1, <2>2, <1>3
<1>5. /\ \A h \in 1..3 : ~hop'[h][d].deaf
      /\ hop'[EndHop(d)][d].fin => d \in shut'
      /\ hop'[2][d].fin => d \in copied'[In(d)]
      /\ hop'[4 - EndHop(d)][d].fin => d \in copied'[Out(d)]
      /\ d \in ended' => d \in shut' /\ Len(got'[d]) = sent'[d]
  BY <1>1, <1>3, Zenon DEF EndOf
<1>6. /\ d \in copied'[In(d)] => d \in shut' /\ z' = <<>>
      /\ d \in copied'[Out(d)] => d \in copied'[In(d)] /\ y' = <<>>
  BY <1>1, <1>4, Zenon DEF EndOf
<1>7. d \in copied'[In(d)] /\ Clear(d)' >= 2 => Len(got'[d]) + Len(x') + Len(y') = sent'[d] + Ahead(d)'
  <2>1. d \in copied[In(d)] /\ Clear(d) >= 2 => Len(got[d]) + Len(x) + Len(y) = sent[d] + Ahead(d)
    BY DEF EndOf
  <2> HIDE DEF x, y
  <2> QED BY <2>1, <1>1, <1>2, <1>3, Zenon
<1>8. d \in copied'[Out(d)] /\ Clear(d)' >= 1 => Len(got'[d]) + Len(x') = sent'[d]
  <2>1. d \in copied[Out(d)] /\ Clear(d) >= 1 => Len(got[d]) + Len(x) = sent[d]
    BY DEF EndOf
  <2> HIDE DEF x, y
  <2> QED BY <2>1, <1>1, <1>2, <1>3, Zenon
<1> QED BY <1>5, <1>6, <1>7, <1>8, Zenon DEF EndOf

\* Nothing moves when the hops stay as they are.
LEMMA StillCuts ==
  ASSUME TcpTypes, NEW d \in Dirs, got'[d] = got[d], sent'[d] = sent[d], reset \subseteq reset',
         \A h \in 1..3 : Data(h, d)' = Data(h, d) /\ hop'[h][d].deaf = hop[h][d].deaf,
         \A r \in Relays : relay[r] = "error" => relay'[r] = "error"
  PROVE  CutOnly(d)
<1>1. \A h \in 1..3 : Begins(Data(h, d), Data(h, d))
  BY FlowTypes DEF FlowTyped, Begins
<1>2. \A h \in 1..3 : Gap(h, d) => Gap(h, d)'
  BY DEF Gap
<1> QED BY <1>1, <1>2 DEF CutOnly

-----------------------------------------------------------------------------
(* A transfer that fails                                                   *)

\* The transfer task of a relay that ends with an error keeps the invariant: what is lost is
\* behind a gap, and nothing is promised of the end of a stream any more.
LEMMA FailingKeepsInv ==
  ASSUME TcpInv, NEW r \in Relays, NEW hops \in SUBSET (1..3), TransferFails(r, hops), r = "B" => relay["A"] # "accept"
  PROVE  TcpInv'
<1>1. /\ relay' = [relay EXCEPT ![r] = "error"] /\ Drop(r, hops)
      /\ chain' = chain /\ dst' = dst /\ copied' = copied /\ addr' = addr /\ reached' = reached
      /\ sent' = sent /\ got' = got /\ shut' = shut /\ ended' = ended
  BY DEF TransferFails, ends
<1>2. TcpTypes /\ SetUp /\ HeaderRead /\ Flows
  BY DEF TcpInv
<1>3. /\ HopType' /\ reset \subseteq reset'
      /\ \A k \in 1..3, q \in Dirs :
           /\ Data(k, q)' = Data(k, q) \/ (Data(k, q)' = <<>> /\ hop'[k][q].deaf)
           /\ hop[k][q].deaf => hop'[k][q].deaf
  BY <1>1, <1>2, DropCells DEF TcpTypes, HopType
<1>4. relay'[r] = "error" /\ \A q \in Relays : q # r => relay'[q] = relay[q]
  BY <1>1, <1>2 DEF TcpTypes
<1>5. TcpTypes'
  <2>1. reset' \subseteq 1..3
    BY <1>1, <1>2 DEF TcpTypes, Drop
  <2>2. /\ relay' \in [Relays -> {"accept", "header", "ip", "port", "connect", "copy", "done", "error"}]
        /\ relay'["A"] \in {"accept", "header", "copy", "done", "error"}
        /\ relay'["B"] \in {"accept", "ip", "port", "connect", "copy", "done", "error"}
    BY <1>1, <1>2 DEF TcpTypes, Relays
  <2> QED BY <1>1, <1>2, <1>3, <2>1, <2>2 DEF TcpTypes, HopType
<1>6. \A k \in 1..3, q \in Dirs : Begins(Data(k, q)', Data(k, q)) /\ (Data(k, q)' = Data(k, q) \/ Gap(k, q)') /\ (Gap(k, q) => Gap(k, q)')
  <2> TAKE k \in 1..3, q \in Dirs
  <2>1. Data(k, q) \in Seq(Contents)
    BY <1>2, FlowTypes DEF FlowTyped
  <2>2. Begins(<<>>, Data(k, q)) /\ Begins(Data(k, q), Data(k, q))
    BY <2>1 DEF Begins
  <2> QED BY <2>2, <1>3 DEF Gap
<1>7. \A q \in Dirs : CutOnly(q)
  BY <1>1, <1>4, <1>6 DEF CutOnly
<1>8. relay["A"] \in {"accept", "header"} => Data(2, "up")' = <<>>
  BY <1>2, <1>3 DEF SetUp, Dirs
<1>9. Ahead("up")' = Ahead("up") \/ Data(2, "up")' = <<>> \/ r = "B"
  BY <1>1, <1>4, <1>8 DEF Ahead, Relays
<1>10. Flows'
  <2>1. ASSUME NEW d \in Dirs PROVE FlowOf(d)'
    <3>1. FlowOf(d) /\ CutOnly(d)
      BY <1>2, <1>7 DEF Flows
    <3>2. Ahead("down") = 0 /\ Ahead("down")' = 0
      BY DEF Ahead
    <3>3. d = "up" => /\ r = "B" => ~(Clear(d)' >= 1)
                      /\ r = "A" => ~(Clear(d)' >= 2)
      BY <1>4 DEF Clear, In, Out
    <3>4. Clear(d)' >= 1 => Ahead(d)' = Ahead(d) \/ (Data(2, d)' = <<>> /\ Clear(d)' < 2)
      <4>1. Clear(d)' \in 0..3
        BY <1>5, FlowTypesNext DEF FlowTyped
      <4>2. CASE d = "up"
        BY <4>1, <4>2, <1>9, <3>3 DEF Relays
      <4> QED BY <4>2, <3>2 DEF Dirs
    <3> QED BY <1>2, <1>5, <3>1, <3>4, CutKeepsFlow
  <2> QED BY <2>1 DEF Flows
<1>11. SetUp'
  <2>1. relay'["A"] # "accept" \/ relay'["B"] = "accept"
    BY <1>2, <1>4 DEF SetUp, Relays
  <2>2. relay'["A"] = "header" => chain' = "transparent" /\ relay'["B"] \in {"accept", "ip", "error"}
    BY <1>1, <1>2, <1>4 DEF SetUp, Relays
  <2>3. relay'["A"] \in {"accept", "header"} => Data(2, "up")' = <<>>
    BY <1>4, <1>8 DEF Relays
  <2>4. relay'["B"] \in {"ip", "port"} => chain' = "transparent"
    BY <1>1, <1>2, <1>4 DEF SetUp, Relays
  <2>5. \A q \in Relays : relay'[q] \notin {"copy", "done", "error"} => copied'[q] = {}
    BY <1>1, <1>2, <1>4 DEF SetUp
  <2> QED BY <2>1, <2>2, <2>3, <2>4, <2>5 DEF SetUp
<1>12. HeaderRead'
  <2>1. /\ reached' # <<>> /\ chain' = "transparent" => reached' = [ip |-> dst'.ip, port |-> dst'.port]
        /\ reached' # <<>> /\ chain' = "port" => reached'.port = dst'.port
    BY <1>1, <1>2 DEF HeaderRead
  <2>2. CASE r = "B"
    BY <2>1, <2>2, <1>4 DEF HeaderRead
  <2>3. CASE r = "A"
    <3>1. relay'["B"] = relay["B"] /\ Header(dst)' = Header(dst)
      BY <2>3, <1>1, <1>4 DEF Relays, Header
    <3>2. /\ relay'["B"] \in {"accept", "ip"} => addr' = <<>>
          /\ relay'["B"] = "port" => addr' = <<Header(dst)'[1]>>
          /\ relay'["B"] = "connect" /\ chain' = "transparent" => addr' = Header(dst)'
      BY <3>1, <1>1, <1>2 DEF HeaderRead
    <3>3. ASSUME relay'["B"] \in {"accept", "ip", "port"}, NEW i \in 1..Len(Data(2, "up")'), i <= Ahead("up")'
          PROVE  Data(2, "up")'[i] = Header(dst)'[(2 - Ahead("up")') + i]
      <4>1. CASE Data(2, "up")' = <<>>
        BY <4>1, <3>3
      <4>2. CASE Data(2, "up")' = Data(2, "up") /\ Data(2, "up")' # <<>>
        <5>1. Ahead("up")' = Ahead("up")
          BY <4>2, <1>9, <2>3
        <5> QED BY <5>1, <4>2, <3>1, <3>3, <1>2 DEF HeaderRead
      <4> QED BY <4>1, <4>2, <1>3 DEF Dirs
    <3> QED BY <2>1, <2>3, <3>2, <3>3, <1>4 DEF HeaderRead
  <2> QED BY <2>2, <2>3 DEF Relays
<1>13. Ending'
  BY <1>4 DEF Ending, NoTransferFailed
<1> QED BY <1>5, <1>10, <1>11, <1>12, <1>13 DEF TcpInv

-----------------------------------------------------------------------------
(* Setting the transfers up                                                *)

\* A relay that goes on without touching a stream keeps the flows and their ends.
LEMMA StillKeeps ==
  ASSUME TcpInv, TcpTypes', hop' = hop, reset' = reset, sent' = sent, got' = got, shut' = shut, ended' = ended, copied' = copied,
         \A r \in Relays : relay'[r] = "error" <=> relay[r] = "error", Ahead("up")' = Ahead("up")
  PROVE  Flows' /\ Ending'
<1>1. TcpTypes /\ Flows /\ Ending
  BY DEF TcpInv
<1>2. \A d \in Dirs : CutOnly(d)
  BY <1>1, StillCuts DEF Data
<1>3. \A d \in Dirs : Ahead(d)' = Ahead(d)
  BY DEF Dirs, Ahead
<1>4. \A d \in Dirs : FlowOf(d)'
  BY <1>1, <1>2, <1>3, CutKeepsFlow DEF Flows
<1>5. NoTransferFailed' => NoTransferFailed
  BY DEF NoTransferFailed
<1>6. ASSUME NoTransferFailed', NEW d \in Dirs PROVE EndOf(d)'
  <2>1. EndOf(d)
    BY <1>1, <1>5, <1>6 DEF Ending
  <2> QED BY <2>1, <1>1, <1>2, <1>3, CutKeepsEnd
<1> QED BY <1>4, <1>6 DEF Flows, Ending

\* Relay A connects onwards.
LEMMA ConnectAKeepsInv ==
  ASSUME TcpInv, ConnectA
  PROVE  TcpInv'
<1>1. TcpTypes /\ SetUp /\ HeaderRead
  BY DEF TcpInv
<1>2. /\ relay["A"] = "accept" /\ relay' = [relay EXCEPT !["A"] = IF chain = "transparent" THEN "header" ELSE "copy"]
      /\ chain' = chain /\ dst' = dst /\ copied' = copied /\ hop' = hop /\ reset' = reset /\ addr' = addr /\ reached' = reached
      /\ sent' = sent /\ got' = got /\ shut' = shut /\ ended' = ended
  BY DEF ConnectA, ends
<1>3. relay'["B"] = relay["B"] /\ relay'["A"] = IF chain = "transparent" THEN "header" ELSE "copy"
  BY <1>1, <1>2 DEF TcpTypes, Relays
<1>4. TcpTypes'
  BY <1>1, <1>2, <1>3 DEF TcpTypes, Relays
<1>5. Ahead("up") = 0 /\ Ahead("up")' = 0
  BY <1>2, <1>3 DEF Ahead
<1>6. \A r \in Relays : relay'[r] = "error" <=> relay[r] = "error"
  BY <1>2, <1>3 DEF Relays
<1>7. SetUp'
  BY <1>1, <1>2, <1>3 DEF SetUp, Data, Relays
<1>8. HeaderRead'
  <2>1. Len(Data(2, "up")) \in Nat
    BY <1>1, FlowTypes DEF FlowTyped, Dirs
  <2> QED BY <1>1, <1>2, <1>3, <1>5, <2>1 DEF HeaderRead, Header, Data
<1> QED BY <1>2, <1>4, <1>5, <1>6, <1>7, <1>8, StillKeeps DEF TcpInv

\* Relay B accepts the connection.
LEMMA AcceptBKeepsInv ==
  ASSUME TcpInv, AcceptB
  PROVE  TcpInv'
<1>1. TcpTypes /\ SetUp /\ HeaderRead /\ Ending
  BY DEF TcpInv
<1>2. /\ relay["B"] = "accept" /\ relay' = [relay EXCEPT !["B"] = IF chain = "transparent" THEN "ip" ELSE "connect"]
      /\ chain' = chain /\ dst' = dst /\ copied' = copied /\ hop' = hop /\ reset' = reset /\ addr' = addr /\ reached' = reached
      /\ sent' = sent /\ got' = got /\ shut' = shut /\ ended' = ended
      /\ relay["A"] \notin {"accept", "error"} \/ hop[2]["up"].fin
  BY DEF AcceptB, ends
<1>3. relay'["A"] = relay["A"] /\ relay'["B"] = IF chain = "transparent" THEN "ip" ELSE "connect"
  BY <1>1, <1>2 DEF TcpTypes, Relays
<1>4. TcpTypes'
  BY <1>1, <1>2, <1>3 DEF TcpTypes, Relays
<1>5. Ahead("up")' = Ahead("up")
  BY <1>2, <1>3 DEF Ahead
<1>6. \A r \in Relays : relay'[r] = "error" <=> relay[r] = "error"
  BY <1>2, <1>3 DEF Relays
<1>7. relay["A"] # "accept"
  <2> SUFFICES ASSUME relay["A"] = "accept" PROVE FALSE
    OBVIOUS
  <2>1. NoTransferFailed /\ copied["A"] = {} /\ hop[2]["up"].fin
    BY <1>1, <1>2 DEF NoTransferFailed, Relays, SetUp
  <2> QED BY <2>1, <1>1 DEF Ending, EndOf, Dirs, In
<1>8. SetUp'
  BY <1>1, <1>2, <1>3, <1>7 DEF SetUp, Data, Relays
<1>9. HeaderRead'
  <2>1. Data(2, "up")' = Data(2, "up") /\ Header(dst)' = Header(dst) /\ (Gap(2, "up")' <=> Gap(2, "up"))
    BY <1>2 DEF Data, Header, Gap
  <2>2. /\ relay'["B"] \in {"accept", "ip"} => addr' = <<>>
        /\ relay'["B"] = "port" => addr' = <<Header(dst)'[1]>>
        /\ relay'["B"] = "connect" /\ chain' = "transparent" => addr' = Header(dst)'
        /\ reached' # <<>> /\ chain' = "transparent" => reached' = [ip |-> dst'.ip, port |-> dst'.port]
        /\ reached' # <<>> /\ chain' = "port" => reached'.port = dst'.port
    BY <1>1, <1>2, <1>3 DEF HeaderRead
  <2>3. /\ \A i \in 1..Len(Data(2, "up")) : i <= Ahead("up") => Data(2, "up")[i] = Header(dst)[(2 - Ahead("up")) + i]
        /\ relay["A"] # "error" /\ ~Gap(2, "up") => Ahead("up") <= Len(Data(2, "up"))
    BY <1>1, <1>2 DEF HeaderRead
  <2> QED BY <2>1, <2>2, <2>3, <1>3, <1>5 DEF HeaderRead
<1> QED BY <1>2, <1>4, <1>5, <1>6, <1>8, <1>9, StillKeeps DEF TcpInv

\* Reversing twice gives the sequence back.
LEMMA ReverseTwice ==
  ASSUME NEW S, NEW t \in Seq(S)
  PROVE  Reverse(t) \in Seq(S) /\ Reverse(Reverse(t)) = t
<1> DEFINE u == Reverse(t)
<1>1. Len(t) \in Nat /\ \A i \in 1..Len(t) : (Len(t) - i) + 1 \in 1..Len(t) /\ (Len(t) - ((Len(t) - i) + 1)) + 1 = i /\ t[i] \in S
  OBVIOUS
<1>2. u = [i \in 1..Len(t) |-> t[(Len(t) - i) + 1]]
  BY DEF Reverse
<1>3. u \in Seq(S) /\ Len(u) = Len(t) /\ \A i \in 1..Len(t) : u[i] = t[(Len(t) - i) + 1]
  BY <1>1, <1>2
<1> HIDE DEF u
<1>4. Reverse(u) = [i \in 1..Len(t) |-> u[(Len(t) - i) + 1]]
  BY <1>3 DEF Reverse
<1>5. \A i \in 1..Len(t) : u[(Len(t) - i) + 1] = t[i]
  BY <1>1, <1>3
<1>6. Reverse(u) = [i \in 1..Len(t) |-> t[i]]
  BY <1>4, <1>5
<1> QED BY <1>3, <1>6 DEF u

\* Relay B connects to the address it was told.
LEMMA ConnectBKeepsInv ==
  ASSUME TcpInv, ConnectB
  PROVE  TcpInv'
<1>1. TcpTypes /\ SetUp /\ HeaderRead
  BY DEF TcpInv
<1>2. /\ relay["B"] = "connect" /\ relay' = [relay EXCEPT !["B"] = "copy"] /\ reached' = Target
      /\ chain' = chain /\ dst' = dst /\ copied' = copied /\ hop' = hop /\ reset' = reset /\ addr' = addr
      /\ sent' = sent /\ got' = got /\ shut' = shut /\ ended' = ended
  BY DEF ConnectB, ends
<1>3. relay'["A"] = relay["A"] /\ relay'["B"] = "copy"
  BY <1>1, <1>2 DEF TcpTypes, Relays
<1>4. TcpTypes'
  BY <1>1, <1>2, <1>3 DEF TcpTypes, Relays
<1>5. Ahead("up")' = Ahead("up")
  BY <1>2, <1>3 DEF Ahead
<1>6. \A r \in Relays : relay'[r] = "error" <=> relay[r] = "error"
  BY <1>2, <1>3 DEF Relays
<1>7. SetUp'
  BY <1>1, <1>2, <1>3 DEF SetUp, Data, Relays
<1>8. ASSUME chain = "transparent" PROVE Target = [ip |-> dst.ip, port |-> dst.port]
  <2>1. dst.ip \in Seq(0..255) /\ dst.port \in Seq(0..255)
    BY <1>1, DestinationsAssumption DEF TcpTypes
  <2>2. addr = << Reverse(dst.ip), Reverse(dst.port) >>
    BY <1>1, <1>2, <1>8 DEF HeaderRead, Header
  <2>3. Reverse(addr[1]) = dst.ip /\ Reverse(addr[2]) = dst.port
    BY <2>1, <2>2, ReverseTwice
  <2> QED BY <1>8, <2>3 DEF Target
<1>9. chain = "port" => Target.port = dst.port
  BY DEF Target
<1>10. HeaderRead'
  BY <1>2, <1>3, <1>8, <1>9 DEF HeaderRead
<1> QED BY <1>2, <1>4, <1>5, <1>6, <1>7, <1>10, StillKeeps DEF TcpInv

\* The header is two sequences of octets.
LEMMA HeaderPieces ==
  ASSUME TcpTypes
  PROVE  Header(dst) \in Seq(Contents) /\ Len(Header(dst)) = 2
<1>1. dst.ip \in Seq(0..255) /\ dst.port \in Seq(0..255)
  BY DestinationsAssumption DEF TcpTypes
<1>2. Reverse(dst.ip) \in Seq(0..255) /\ Reverse(dst.port) \in Seq(0..255)
  BY <1>1, ReverseTwice
<1>3. ASSUME NEW t \in Seq(0..255) PROVE t \in Seq(Nat)
  <2>1. Len(t) \in Nat /\ t \in [1..Len(t) -> 0..255]
    BY LenProperties, ZenonT(60)
  <2>2. t \in [1..Len(t) -> Nat]
    <3>1. \A i \in 1..Len(t) : t[i] \in 0..255
      BY <2>1, Zenon
    <3>2. \A k \in 0..255 : k \in Nat
      OBVIOUS
    <3>3. \A i \in 1..Len(t) : t[i] \in Nat
      BY <3>1, <3>2, Zenon
    <3>4. t = [i \in 1..Len(t) |-> t[i]]
      BY <2>1, Zenon
    <3> QED BY <3>3, <3>4, Zenon
  <2> QED BY <2>1, <2>2, SeqDef
<1> QED BY <1>2, <1>3 DEF Header, Contents

\* In the direction that a step does not touch, the flow and the end stay as they are.
LEMMA OtherDirection ==
  ASSUME TcpTypes, TcpTypes', NEW d \in Dirs, FlowOf(d), NoTransferFailed' => EndOf(d), Ahead(d)' = Ahead(d),
         got'[d] = got[d], sent'[d] = sent[d], reset' = reset,
         \A h \in 1..3 : Data(h, d)' = Data(h, d) /\ hop'[h][d].fin = hop[h][d].fin /\ hop'[h][d].deaf = hop[h][d].deaf,
         \A r \in Relays : relay[r] = "error" => relay'[r] = "error",
         \A r \in Relays : d \in copied'[r] <=> d \in copied[r],
         d \in shut' <=> d \in shut, d \in ended' <=> d \in ended
  PROVE  FlowOf(d)' /\ (NoTransferFailed' => EndOf(d)')
<1>1. CutOnly(d)
  BY StillCuts
<1>2. FlowOf(d)'
  BY <1>1, CutKeepsFlow
<1>3. NoTransferFailed' => EndOf(d)'
  BY <1>1, CutKeepsEnd
<1> QED BY <1>2, <1>3

\* Where nothing but data changes, a direction stays as clear as it was.
LEMMA SameClear ==
  ASSUME NEW d \in Dirs, reset' = reset, SameMarks, \A r \in Relays : relay'[r] = "error" <=> relay[r] = "error"
  PROVE  Clear(d)' = Clear(d) /\ \A h \in 1..3 : Gap(h, d)' <=> Gap(h, d)
<1>1. \A h \in 1..3 : Gap(h, d)' <=> Gap(h, d)
  BY DEF Gap, SameMarks
<1>2. EndHop(d) \in 1..3 /\ 4 - EndHop(d) \in 1..3 /\ 2 \in 1..3 /\ In(d) \in Relays /\ Out(d) \in Relays
  BY Places
<1>3. Clear(d)' = IF relay'[Out(d)] = "error" \/ Gap(4 - EndHop(d), d)' THEN 0
                  ELSE IF relay'[In(d)] = "error" \/ Gap(2, d)' THEN 1
                  ELSE IF Gap(EndHop(d), d)' THEN 2 ELSE 3
  BY DEF Clear
<1>4. /\ relay'[Out(d)] = "error" <=> relay[Out(d)] = "error"
      /\ relay'[In(d)] = "error" <=> relay[In(d)] = "error"
      /\ Gap(4 - EndHop(d), d)' <=> Gap(4 - EndHop(d), d)
      /\ Gap(2, d)' <=> Gap(2, d)
      /\ Gap(EndHop(d), d)' <=> Gap(EndHop(d), d)
  BY <1>1, <1>2
<1> QED BY <1>1, <1>3, <1>4 DEF Clear

\* Relay A writes the header.
LEMMA SendHeaderKeepsInv ==
  ASSUME TcpInv, SendHeader
  PROVE  TcpInv'
<1>1. TcpTypes /\ SetUp /\ HeaderRead /\ Flows /\ Ending
  BY DEF TcpInv
<1>2. /\ relay["A"] = "header" /\ relay' = [relay EXCEPT !["A"] = "copy"]
      /\ hop' = [hop EXCEPT ![2]["up"].data = hop[2]["up"].data \o Header(dst)]
      /\ chain' = chain /\ dst' = dst /\ copied' = copied /\ reset' = reset /\ addr' = addr /\ reached' = reached
      /\ sent' = sent /\ got' = got /\ shut' = shut /\ ended' = ended
  BY DEF SendHeader, ends
<1>3. relay'["B"] = relay["B"] /\ relay'["A"] = "copy"
  BY <1>1, <1>2 DEF TcpTypes, Relays
<1>4. chain = "transparent" /\ relay["B"] \in {"accept", "ip", "error"} /\ Data(2, "up") = <<>> /\ copied["A"] = {}
  BY <1>1, <1>2 DEF SetUp, Relays
<1>5. Header(dst) \in Seq(Contents) /\ Len(Header(dst)) = 2
  BY <1>1, HeaderPieces
<1>6. /\ HopType' /\ SameMarks /\ Data(2, "up")' = Header(dst)
      /\ \A k \in 1..3, q \in Dirs : k # 2 \/ q # "up" => Data(k, q)' = Data(k, q)
  <2>1. hop[2]["up"].data \o Header(dst) = Header(dst)
    BY <1>4, <1>5 DEF Data
  <2>2. hop' = [hop EXCEPT ![2]["up"].data = Header(dst)]
    BY <1>2, <2>1
  <2>3. HopType /\ 2 \in 1..3 /\ "up" \in Dirs
    BY <1>1 DEF TcpTypes, HopType, Dirs
  <2> HIDE DEF HopType, SameMarks
  <2> QED BY <2>2, <2>3, <1>5, SetData
<1>7. TcpTypes'
  BY <1>1, <1>2, <1>3, <1>6 DEF TcpTypes, Relays, HopType
<1>8. \A r \in Relays : relay'[r] = "error" <=> relay[r] = "error"
  BY <1>2, <1>3 DEF Relays
<1>9. Ahead("up") = 0 /\ Ahead("up")' = (IF relay["B"] = "error" THEN 0 ELSE 2) /\ Ahead("down") = 0 /\ Ahead("down")' = 0
  BY <1>2, <1>3, <1>4 DEF Ahead
<1>10. NoTransferFailed' => NoTransferFailed
  BY <1>8 DEF NoTransferFailed
<1>11. FlowOf("down")' /\ (NoTransferFailed' => EndOf("down")')
  <2>1. "down" \in Dirs /\ "down" # "up"
    BY DEF Dirs
  <2>2. FlowOf("down") /\ (NoTransferFailed' => EndOf("down"))
    BY <2>1, <1>1, <1>10 DEF Flows, Ending
  <2>3. \A h \in 1..3 : Data(h, "down")' = Data(h, "down") /\ hop'[h]["down"].fin = hop[h]["down"].fin /\ hop'[h]["down"].deaf = hop[h]["down"].deaf
    BY <1>6, <2>1 DEF SameMarks
  <2> QED BY <2>1, <2>2, <2>3, <1>1, <1>2, <1>7, <1>8, <1>9, OtherDirection
<1>12. FlowOf("up")'
  <2> DEFINE d == "up"
             g == got[d]  x == Data(4 - EndHop(d), d)  z == Data(EndHop(d), d)  n == sent[d]  b == Ahead(d)'  c == Clear(d)  y2 == Header(dst)
  <2>1. d \in Dirs /\ EndHop(d) \in 1..3 /\ 4 - EndHop(d) \in 1..3 /\ EndHop(d) # 2 /\ 4 - EndHop(d) # 2
    BY Places DEF Dirs
  <2>2. g \in Seq(Contents) /\ x \in Seq(Contents) /\ z \in Seq(Contents) /\ n \in Nat /\ c \in 0..3 /\ y2 \in Seq(Contents)
    BY <2>1, <1>1, <1>5, FlowTypes DEF FlowTyped
  <2>3. b \in Nat /\ (c >= 1 => Len(y2) = b)
    <3>1. relay["B"] = "error" => c = 0
      BY DEF Clear, Out
    <3> QED BY <3>1, <1>5, <1>9
  <2>4. Flow(g, x, <<>>, z, n, 0, c)
    BY <2>1, <1>1, <1>4, <1>9 DEF Flows, FlowOf
  <2>5. x' = x /\ z' = z /\ got'[d] = g /\ sent'[d] = n
    BY <2>1, <1>2, <1>6
  <2>6. Clear(d)' = c
    BY <2>1, <1>2, <1>6, <1>8, SameClear
  <2> HIDE DEF g, x, z, n, b, c, y2
  <2>7. Flow(g, x, y2, z, n, b, c)
    BY <2>2, <2>3, <2>4, FlowHeader
  <2>8. Flow(got'[d], x', y2, z', sent'[d], b, Clear(d)')
    BY <2>5, <2>6, <2>7
  <2> QED BY <2>8, <1>6 DEF FlowOf, x, z, b, y2
<1>13. ASSUME NoTransferFailed' PROVE EndOf("up")'
  <2>1. "up" \in Dirs /\ In("up") = "A" /\ Out("up") = "B" /\ EndHop("up") = 1 /\ 4 - EndHop("up") = 3
    BY DEF Dirs, In, Out, EndHop
  <2>2. EndOf("up")
    BY <2>1, <1>1, <1>10, <1>13 DEF Ending
  <2>3. "up" \notin copied["A"] /\ "up" \notin copied["B"]
    BY <2>1, <2>2, <1>4 DEF EndOf
  <2>4. \A h \in 1..3 : hop'[h]["up"].fin = hop[h]["up"].fin /\ hop'[h]["up"].deaf = hop[h]["up"].deaf
    BY <2>1, <1>6 DEF SameMarks
  <2>5. "up" \notin copied'["A"] /\ "up" \notin copied'["B"]
    BY <2>3, <1>2
  <2>6. /\ \A h \in 1..3 : ~hop'[h]["up"].deaf
        /\ hop'[1]["up"].fin => "up" \in shut'
        /\ ~hop'[2]["up"].fin /\ ~hop'[3]["up"].fin
        /\ "up" \in ended' => "up" \in shut' /\ Len(got'["up"]) = sent'["up"]
    BY <2>1, <2>2, <2>3, <2>4, <1>2 DEF EndOf
  <2> QED BY <2>1, <2>5, <2>6 DEF EndOf
<1>14. Flows' /\ Ending'
  BY <1>11, <1>12, <1>13 DEF Flows, Ending, Dirs
<1>15. SetUp'
  BY <1>1, <1>2, <1>3, <1>4 DEF SetUp, Relays
<1>16. HeaderRead'
  <2>1. Header(dst)' = Header(dst)
    BY <1>2 DEF Header
  <2>2. /\ relay'["B"] \in {"accept", "ip"} => addr' = <<>>
        /\ relay'["B"] \notin {"port", "connect"}
        /\ reached' # <<>> /\ chain' = "transparent" => reached' = [ip |-> dst'.ip, port |-> dst'.port]
        /\ reached' # <<>> /\ chain' = "port" => reached'.port = dst'.port
    BY <1>1, <1>2, <1>3, <1>4 DEF HeaderRead
  <2>3. ASSUME relay'["B"] \in {"accept", "ip", "port"}
        PROVE  /\ \A i \in 1..Len(Data(2, "up")') : Data(2, "up")'[i] = Header(dst)'[(2 - Ahead("up")') + i]
               /\ Ahead("up")' <= Len(Data(2, "up")')
    <3>1. Ahead("up")' = 2 /\ \A i \in 1..2 : (2 - 2) + i = i
      BY <2>3, <1>3, <1>9
    <3>2. Len(Data(2, "up")') = 2
      BY <1>5, <1>6
    <3>3. Header(dst)' = Data(2, "up")'
      BY <2>1, <1>6
    <3> HIDE DEF Data
    <3> QED BY <3>1, <3>2, <3>3
  <2> QED BY <2>2, <2>3 DEF HeaderRead
<1> QED BY <1>7, <1>14, <1>15, <1>16 DEF TcpInv

\* Relay B reads a piece of the header.
LEMMA ReadHeaderKeepsInv ==
  ASSUME TcpInv, ReadHeader
  PROVE  TcpInv'
<1>1. TcpTypes /\ SetUp /\ HeaderRead /\ Flows /\ Ending
  BY DEF TcpInv
<1> DEFINE y == Data(2, "up")
<1>2. /\ relay["B"] \in {"ip", "port"} /\ y # <<>>
      /\ relay' = [relay EXCEPT !["B"] = IF relay["B"] = "ip" THEN "port" ELSE "connect"]
      /\ addr' = Append(addr, Head(y))
      /\ hop' = [hop EXCEPT ![2]["up"].data = Tail(y)]
      /\ chain' = chain /\ dst' = dst /\ copied' = copied /\ reset' = reset /\ reached' = reached
      /\ sent' = sent /\ got' = got /\ shut' = shut /\ ended' = ended
  BY DEF ReadHeader, ends, Data
<1>3. relay'["A"] = relay["A"] /\ relay'["B"] = IF relay["B"] = "ip" THEN "port" ELSE "connect"
  BY <1>1, <1>2 DEF TcpTypes, Relays
<1>4. chain = "transparent" /\ relay["A"] \notin {"accept", "header"} /\ copied["B"] = {}
  BY <1>1, <1>2 DEF SetUp, Relays
<1>5. Ahead("up") = (IF relay["B"] = "ip" THEN 2 ELSE 1) /\ Ahead("up")' = (IF relay["B"] = "ip" THEN 1 ELSE 0)
      /\ Ahead("down") = 0 /\ Ahead("down")' = 0
  BY <1>2, <1>3, <1>4 DEF Ahead
<1>6. "up" \in Dirs /\ "down" \in Dirs /\ 2 \in 1..3 /\ y \in Seq(Contents)
  BY <1>1, FlowTypes DEF FlowTyped, Dirs
<1>7. /\ Head(y) = y[1] /\ Tail(y) \in Seq(Contents) /\ Len(y) \in Nat /\ Len(y) >= 1
      /\ Len(Tail(y)) = Len(y) - 1 /\ \A i \in 1..Len(Tail(y)) : Tail(y)[i] = y[i + 1]
  BY <1>2, <1>6, PopPiece
<1>8. /\ HopType' /\ SameMarks /\ y' = Tail(y)
      /\ \A k \in 1..3, q \in Dirs : k # 2 \/ q # "up" => Data(k, q)' = Data(k, q)
  <2>1. HopType
    BY <1>1 DEF TcpTypes, HopType
  <2> DEFINE e == Tail(y)
  <2>2. hop' = [hop EXCEPT ![2]["up"].data = e] /\ e \in Seq(Contents)
    BY <1>2, <1>7
  <2> HIDE DEF e
  <2>3. /\ HopType' /\ SameMarks /\ Data(2, "up")' = e
        /\ \A k \in 1..3, q \in Dirs : k # 2 \/ q # "up" => Data(k, q)' = Data(k, q)
    BY <2>1, <2>2, <1>6, SetData
  <2> QED BY <2>3 DEF e
<1>9. TcpTypes'
  BY <1>1, <1>2, <1>3, <1>8 DEF TcpTypes, Relays, HopType
<1>10. \A r \in Relays : relay'[r] = "error" <=> relay[r] = "error"
  BY <1>2, <1>3 DEF Relays
<1>11. NoTransferFailed' => NoTransferFailed
  BY <1>10 DEF NoTransferFailed
<1>12. FlowOf("down")' /\ (NoTransferFailed' => EndOf("down")')
  <2>1. "down" # "up"
    OBVIOUS
  <2>2. FlowOf("down") /\ (NoTransferFailed' => EndOf("down"))
    BY <1>1, <1>6, <1>11 DEF Flows, Ending
  <2>3. \A h \in 1..3 : Data(h, "down")' = Data(h, "down") /\ hop'[h]["down"].fin = hop[h]["down"].fin /\ hop'[h]["down"].deaf = hop[h]["down"].deaf
    BY <1>6, <1>8, <2>1 DEF SameMarks
  <2> QED BY <2>2, <2>3, <1>1, <1>2, <1>5, <1>6, <1>9, <1>10, OtherDirection
<1>13. Clear("up")' = Clear("up") /\ (Gap(2, "up")' <=> Gap(2, "up"))
  BY <1>2, <1>6, <1>8, <1>10, SameClear
<1>14. EndHop("up") = 1 /\ 4 - EndHop("up") = 3 /\ In("up") = "A" /\ Out("up") = "B"
  BY DEF EndHop, In, Out
<1>15. Data(1, "up")' = Data(1, "up") /\ Data(3, "up")' = Data(3, "up")
  BY <1>6, <1>8
<1>16. FlowOf("up")'
  <2> DEFINE g == got["up"]  x == Data(3, "up")  z == Data(1, "up")  n == sent["up"]  b == Ahead("up")'  c == Clear("up")
  <2>1. g \in Seq(Contents) /\ x \in Seq(Contents) /\ z \in Seq(Contents) /\ n \in Nat /\ c \in 0..3
    BY <1>1, <1>6, FlowTypes DEF FlowTyped
  <2>2. b \in Nat /\ Ahead("up") = b + 1
    BY <1>5
  <2>3. Flow(g, x, y, z, n, b + 1, c)
    BY <2>2, <1>1, <1>6, <1>14 DEF Flows, FlowOf
  <2>4. Flow(got'["up"], x', y', z', sent'["up"], b, Clear("up")') <=> Flow(g, x, Tail(y), z, n, b, c)
    BY <1>2, <1>8, <1>13, <1>15
  <2> HIDE DEF g, x, z, n, b, c, y
  <2>5. Flow(g, x, Tail(y), z, n, b, c)
    BY <2>1, <2>2, <2>3, <1>2, <1>6, FlowReadHeader
  <2> QED BY <2>4, <2>5, <1>14 DEF FlowOf, x, y, z, b
<1>17. ASSUME NoTransferFailed' PROVE EndOf("up")'
  <2>1. EndOf("up")
    BY <1>1, <1>6, <1>11, <1>17 DEF Ending
  <2>2. "up" \notin copied'["B"] /\ copied' = copied
    BY <1>2, <1>4
  <2>3. \A h \in 1..3 : hop'[h]["up"].fin = hop[h]["up"].fin /\ hop'[h]["up"].deaf = hop[h]["up"].deaf
    BY <1>6, <1>8 DEF SameMarks
  <2>4. /\ \A h \in 1..3 : ~hop'[h]["up"].deaf
        /\ hop'[1]["up"].fin => "up" \in shut'
        /\ hop'[2]["up"].fin => "up" \in copied'["A"]
        /\ hop'[3]["up"].fin => "up" \in copied'["B"]
        /\ "up" \in copied'["A"] => "up" \in shut' /\ Data(1, "up")' = <<>>
        /\ "up" \in ended' => "up" \in shut' /\ Len(got'["up"]) = sent'["up"]
    BY <2>1, <2>3, <1>2, <1>14, <1>15 DEF EndOf
  <2>5. ASSUME "up" \in copied'["A"], Clear("up")' >= 2
        PROVE  Len(got'["up"]) + Len(Data(3, "up")') + Len(y') = sent'["up"] + Ahead("up")'
    <3> DEFINE p == Len(got["up"])  q == Len(Data(3, "up"))  m == Len(y)  n == sent["up"]
    <3>1. p + q + m = n + Ahead("up")
      BY <2>1, <2>2, <2>5, <1>13, <1>14 DEF EndOf
    <3>2. p \in Nat /\ q \in Nat /\ m \in Nat /\ n \in Nat
      BY <1>1, <1>6, FlowTypes, SMTT(30) DEF FlowTyped
    <3>3. Len(y') = m - 1 /\ got' = got /\ sent' = sent /\ Data(3, "up")' = Data(3, "up")
      BY <1>2, <1>7, <1>8, <1>15
    <3>4. Ahead("up")' = Ahead("up") - 1 /\ Ahead("up") \in Nat
      BY <1>5
    <3> DEFINE a == Ahead("up")
    <3> HIDE DEF p, q, m, n, a
    <3>5. p + q + (m - 1) = n + (a - 1)
      BY <3>1, <3>2, <3>4 DEF a
    <3> QED BY <3>3, <3>4, <3>5, Zenon DEF p, q, n, a
  <2> QED BY <2>2, <2>4, <2>5, <1>14 DEF EndOf
<1>18. Flows' /\ Ending'
  BY <1>12, <1>16, <1>17 DEF Flows, Ending, Dirs
<1>19. SetUp'
  BY <1>1, <1>2, <1>3, <1>4 DEF SetUp, Relays
<1>20. HeaderRead'
  <2> DEFINE H == Header(dst)  a == Ahead("up")
  <2>1. Header(dst)' = H /\ H = <<H[1], H[2]>>
    BY <1>2 DEF Header
  <2>2. /\ relay["B"] = "ip" => addr = <<>>
        /\ relay["B"] = "port" => addr = <<H[1]>>
        /\ \A i \in 1..Len(y) : i <= a => y[i] = H[(2 - a) + i]
        /\ relay["A"] # "error" /\ ~Gap(2, "up") => a <= Len(y)
    BY <1>1, <1>2 DEF HeaderRead
  <2>3. Head(y) = IF relay["B"] = "ip" THEN H[1] ELSE H[2]
    <3>1. 1 \in 1..Len(y) /\ 1 <= a /\ (2 - a) + 1 = IF relay["B"] = "ip" THEN 1 ELSE 2
      BY <1>2, <1>5, <1>7
    <3> QED BY <3>1, <2>2, <1>2, <1>7
  <2> HIDE DEF H, a, y
  <2>4. /\ relay'["B"] = "port" => addr' = <<H[1]>>
        /\ relay'["B"] = "connect" => addr' = H
        /\ relay'["B"] \in {"port", "connect"}
    <3>1. Append(<<>>, H[1]) = <<H[1]>> /\ Append(<<H[1]>>, H[2]) = <<H[1], H[2]>>
      <4>1. H[1] \in Contents /\ H[2] \in Contents
        BY <1>1, HeaderPieces, SMTT(30) DEF H
      <4> DEFINE e == H[1]  f == H[2]
      <4> HIDE DEF e, f
      <4>2. e \in Contents /\ f \in Contents /\ <<>> \in Seq(Contents) /\ <<e>> \in Seq(Contents)
        BY <4>1 DEF e, f
      <4>3. Append(<<>>, e) = <<e>>
        BY <4>2
      <4>4. Append(<<e>>, f) = <<e, f>>
        <5> DEFINE t == Append(<<e>>, f)
        <5>1. Len(<<e>>) = 1 /\ <<e>>[1] = e /\ <<e, f>> \in Seq(Contents) /\ Len(<<e, f>>) = 2 /\ <<e, f>>[1] = e /\ <<e, f>>[2] = f
          BY <4>2
        <5>2. t \in Seq(Contents) /\ Len(t) = 2 /\ t[1] = e /\ t[2] = f
          BY <4>2, <5>1, PushPiece
        <5> HIDE DEF t
        <5>3. \A i \in 1..Len(t) : t[i] = <<e, f>>[i]
          BY <5>1, <5>2
        <5>4. t = <<e, f>>
          BY <5>1, <5>2, <5>3, SeqEqual
        <5> QED BY <5>4 DEF t
      <4> QED BY <4>3, <4>4 DEF e, f
    <3>2. addr' = Append(addr, Head(y))
      BY <1>2
    <3>3. CASE relay["B"] = "ip"
      BY <3>1, <3>2, <3>3, <2>2, <2>3, <1>3
    <3>4. CASE relay["B"] = "port"
      <4>1. addr' = <<H[1], H[2]>>
        BY <3>1, <3>2, <3>4, <2>2, <2>3
      <4> QED BY <4>1, <3>4, <2>1, <1>3, Zenon
    <3> QED BY <3>3, <3>4, <1>2
  <2>5. ASSUME relay'["B"] = "port"
        PROVE  /\ \A i \in 1..Len(y') : i <= Ahead("up")' => y'[i] = H[(2 - Ahead("up")') + i]
               /\ relay["A"] # "error" /\ ~Gap(2, "up") => Ahead("up")' <= Len(y')
    <3>1. a = 2 /\ Ahead("up")' = 1
      BY <2>5, <1>3, <1>5 DEF a
    <3>2. Len(y') = Len(y) - 1 /\ \A i \in 1..Len(y') : y'[i] = y[i + 1]
      BY <1>7, <1>8
    <3>3. ASSUME NEW i \in 1..Len(y'), i <= 1 PROVE y'[i] = H[(2 - 1) + i]
      <4>1. i = 1 /\ 2 \in 1..Len(y) /\ (2 - 2) + 2 = 2 /\ (2 - 1) + 1 = 2
        BY <3>2, <3>3, <1>7
      <4>2. y[2] = H[2]
        BY <4>1, <3>1, <2>2
      <4> QED BY <4>1, <4>2, <3>2
    <3>4. relay["A"] # "error" /\ ~Gap(2, "up") => 1 <= Len(y')
      BY <2>2, <3>1, <3>2, <1>7
    <3> QED BY <3>1, <3>3, <3>4
  <2>6. /\ reached' # <<>> /\ chain' = "transparent" => reached' = [ip |-> dst'.ip, port |-> dst'.port]
        /\ reached' # <<>> /\ chain' = "port" => reached'.port = dst'.port
    BY <1>1, <1>2 DEF HeaderRead
  <2> QED BY <2>1, <2>4, <2>5, <2>6, <1>3, <1>13 DEF HeaderRead, y
<1> QED BY <1>9, <1>18, <1>19, <1>20 DEF TcpInv

-----------------------------------------------------------------------------
(* Copying, and the two ends                                               *)

\* A relay moves what is sent in a direction onto the vsock hop, or off it.
LEMMA CopyPlaces ==
  ASSUME NEW r \in Relays, NEW d \in Dirs
  PROVE  \/ r = In(d) /\ From(r, d) = EndHop(d) /\ To(r, d) = 2
         \/ r = Out(d) /\ From(r, d) = 2 /\ To(r, d) = 4 - EndHop(d)
BY DEF Relays, Dirs, In, Out, From, To, Near, Far, EndHop

\* A relay copies a piece.
LEMMA CopyStepKeepsInv ==
  ASSUME TcpInv, NEW r \in Relays, NEW d \in Dirs, CopyStep(r, d)
  PROVE  TcpInv'
<1> DEFINE f == From(r, d)  t == To(r, d)  e == EndHop(d)  w == 4 - EndHop(d)
<1>1. TcpTypes /\ SetUp /\ HeaderRead /\ Flows /\ Ending
  BY DEF TcpInv
<1>2. /\ relay[r] = "copy" /\ d \notin copied[r] /\ Data(f, d) # <<>> /\ ~Gap(t, d)
      /\ hop' = [hop EXCEPT ![t][d].data = Append(@, Head(hop[f][d].data)), ![f][d].data = Tail(@)]
      /\ chain' = chain /\ dst' = dst /\ relay' = relay /\ copied' = copied /\ reset' = reset /\ addr' = addr /\ reached' = reached
      /\ sent' = sent /\ got' = got /\ shut' = shut /\ ended' = ended
  BY DEF CopyStep, Copying, ends, Data, Gap
<1>3. e \in 1..3 /\ w \in 1..3 /\ 2 \in 1..3 /\ e # 2 /\ w # 2 /\ w # e /\ In(d) \in Relays /\ Out(d) \in Relays
  BY Places
<1>4. \/ r = In(d) /\ f = e /\ t = 2
      \/ r = Out(d) /\ f = 2 /\ t = w
  BY CopyPlaces
<1>5. f \in 1..3 /\ t \in 1..3 /\ f # t
  BY <1>3, <1>4
<1> HIDE DEF f, t, e, w
<1>6. /\ HopType' /\ SameMarks
      /\ Data(t, d)' = Append(Data(t, d), Head(Data(f, d))) /\ Data(f, d)' = Tail(Data(f, d))
      /\ \A k \in 1..3, q \in Dirs : (k # f /\ k # t) \/ q # d => Data(k, q)' = Data(k, q)
  <2>1. HopType
    BY <1>1 DEF TcpTypes, HopType
  <2>2. hop' = Moved(f, t, d) /\ Data(f, d) # <<>>
    BY <1>2, Zenon DEF Moved
  <2> QED BY <2>1, <2>2, <1>5, MoveData, ZenonT(60)
<1>7. TcpTypes'
  BY <1>1, <1>2, <1>6 DEF TcpTypes, HopType
<1>8. \A q \in Relays : relay'[q] = "error" <=> relay[q] = "error"
  BY <1>2
<1>9. NoTransferFailed' => NoTransferFailed
  BY <1>2 DEF NoTransferFailed
<1>10. \A q \in Dirs : Ahead(q)' = Ahead(q)
  BY <1>2 DEF Ahead
<1>11. ASSUME NEW q \in Dirs, q # d PROVE FlowOf(q)' /\ (NoTransferFailed' => EndOf(q)')
  <2>1. FlowOf(q) /\ (NoTransferFailed' => EndOf(q))
    BY <1>1, <1>9 DEF Flows, Ending
  <2>2. \A h \in 1..3 : Data(h, q)' = Data(h, q) /\ hop'[h][q].fin = hop[h][q].fin /\ hop'[h][q].deaf = hop[h][q].deaf
    BY <1>6, <1>11 DEF SameMarks
  <2> QED BY <2>1, <2>2, <1>1, <1>2, <1>7, <1>8, <1>10, OtherDirection, ZenonT(60)
<1>12. Clear(d)' = Clear(d) /\ (Gap(2, d)' <=> Gap(2, d))
  BY <1>2, <1>6, <1>8, SameClear
<1> DEFINE g == got[d]  x == Data(w, d)  y == Data(2, d)  z == Data(e, d)  n == sent[d]  a == Ahead(d)  c == Clear(d)
<1>13. /\ g \in Seq(Contents) /\ x \in Seq(Contents) /\ y \in Seq(Contents) /\ z \in Seq(Contents)
       /\ n \in Nat /\ a \in Nat /\ c \in 0..3
  BY <1>1, <1>3, FlowTypes DEF FlowTyped
<1>14. Flow(g, x, y, z, n, a, c)
  BY <1>1 DEF Flows, FlowOf, w, e
<1>15. FlowOf(d)' <=> Flow(g, x', y', z', n, a, c)
  BY <1>2, <1>10, <1>12 DEF FlowOf, w, e
<1>16. Data(2, "up") # <<>> \/ relay["A"] = "copy" \/ Data(2, "up")' = Data(2, "up")
  <2>1. CASE d = "up" /\ r = In(d)
    BY <2>1, <1>2 DEF In
  <2>2. CASE d = "up" /\ f = 2
    BY <2>2, <1>2
  <2>3. CASE d # "up"
    BY <2>3, <1>6, <1>3 DEF Dirs
  <2> QED BY <2>1, <2>2, <2>3, <1>4
<1>17. SetUp'
  BY <1>1, <1>2, <1>16 DEF SetUp
<1>18. CASE r = In(d) /\ f = e /\ t = 2
  <2>1. x' = x /\ y' = Append(y, Head(z)) /\ z' = Tail(z) /\ z # <<>>
    BY <1>2, <1>3, <1>6, <1>18
  <2>2. c # 1
    BY <1>2, <1>18 DEF Clear
  <2>3. FlowOf(d)'
    <3> HIDE DEF g, x, y, z, n, a, c
    <3>1. Flow(g, x, Append(y, Head(z)), Tail(z), n, a, c)
      BY <1>13, <1>14, <2>1, <2>2, FlowIn
    <3> QED BY <3>1, <2>1, <1>15
  <2>4. ASSUME NoTransferFailed' PROVE EndOf(d)'
    <3>1. EndOf(d)
      BY <2>4, <1>1, <1>9 DEF Ending
    <3>2. d \notin copied[In(d)] /\ d \notin copied[Out(d)]
      BY <3>1, <1>2, <1>18 DEF EndOf
    <3>3. \A h \in 1..3 : hop'[h][d].fin = hop[h][d].fin /\ hop'[h][d].deaf = hop[h][d].deaf
      BY <1>6 DEF SameMarks
    <3>4. /\ \A h \in 1..3 : ~hop'[h][d].deaf
          /\ hop'[e][d].fin => d \in shut'
          /\ ~hop'[2][d].fin /\ ~hop'[w][d].fin
          /\ d \in ended' => d \in shut' /\ Len(got'[d]) = sent'[d]
      BY <3>1, <3>2, <3>3, <1>2, <1>3, ZenonT(60) DEF EndOf, e, w
    <3> QED BY <3>2, <3>4, <1>2, ZenonT(60) DEF EndOf, e, w
  <2>5. Flows' /\ Ending'
    BY <2>3, <2>4, <1>11 DEF Flows, Ending
  <2>6. HeaderRead'
    <3> DEFINE u == Data(2, "up")
    <3>1. Header(dst)' = Header(dst) /\ (Gap(2, "up")' <=> Gap(2, "up")) /\ "up" \in Dirs
      BY <1>2, <1>3, <1>6, <1>8, SameClear DEF Header, Dirs
    <3>2. ASSUME relay["B"] \in {"accept", "ip", "port"}
          PROVE  /\ \A i \in 1..Len(u') : i <= Ahead("up") => u'[i] = Header(dst)[(2 - Ahead("up")) + i]
                 /\ relay["A"] # "error" /\ ~Gap(2, "up") => Ahead("up") <= Len(u')
      <4>1. /\ \A i \in 1..Len(u) : i <= Ahead("up") => u[i] = Header(dst)[(2 - Ahead("up")) + i]
            /\ relay["A"] # "error" /\ ~Gap(2, "up") => Ahead("up") <= Len(u)
        BY <3>2, <1>1 DEF HeaderRead
      <4>2. CASE d # "up"
        BY <4>1, <4>2, <3>1, <1>3, <1>6
      <4>3. CASE d = "up"
        <5>1. relay["A"] # "error" /\ ~Gap(2, "up")
          BY <4>3, <1>2, <1>18 DEF In
        <5>2. u' = Append(u, Head(z)) /\ Head(z) \in Contents /\ u \in Seq(Contents)
          BY <4>3, <2>1, <1>13, PopPiece
        <5>3. Len(u) \in Nat /\ Len(u') = Len(u) + 1 /\ \A i \in 1..Len(u) : u'[i] = u[i]
          BY <5>2, PushPiece
        <5>4. Ahead("up") \in Nat
          BY DEF Ahead
        <5>5. Ahead("up") <= Len(u') /\ \A i \in 1..Len(u') : i <= Ahead("up") => i \in 1..Len(u)
          BY <5>1, <5>3, <5>4, <4>1
        <5> QED BY <5>3, <5>5, <4>1
      <4> QED BY <4>2, <4>3
    <3>3. /\ relay["B"] \in {"accept", "ip"} => addr' = <<>>
          /\ relay["B"] = "port" => addr' = <<Header(dst)[1]>>
          /\ relay["B"] = "connect" /\ chain = "transparent" => addr' = Header(dst)
          /\ reached' # <<>> /\ chain' = "transparent" => reached' = [ip |-> dst'.ip, port |-> dst'.port]
          /\ reached' # <<>> /\ chain' = "port" => reached'.port = dst'.port
      BY <1>1, <1>2 DEF HeaderRead
    <3>4. Ahead("up")' = Ahead("up") /\ relay' = relay /\ chain' = chain
      BY <3>1, <1>2, <1>10
    <3> QED BY <3>1, <3>2, <3>3, <3>4 DEF HeaderRead
  <2> QED BY <2>5, <2>6, <1>7, <1>17 DEF TcpInv
<1>19. CASE r = Out(d) /\ f = 2 /\ t = w
  <2>1. x' = Append(x, Head(y)) /\ y' = Tail(y) /\ z' = z /\ y # <<>>
    BY <1>2, <1>3, <1>6, <1>19
  <2>2. c \in 1..3 /\ a = 0
    <3>1. c # 0
      BY <1>2, <1>19 DEF Clear, w
    <3>2. a = 0
      BY <1>2, <1>19 DEF Ahead, Out
    <3> QED BY <3>1, <3>2, <1>13
  <2>3. Flow(g, Append(x, Head(y)), Tail(y), z, n, a, c) /\ Len(Append(x, Head(y))) + Len(Tail(y)) = Len(x) + Len(y)
    <3>1. Flow(g, x, y, z, n, a, c)
      BY <1>14
    <3>2. y # <<>> /\ c \in 1..3 /\ a = 0 /\ a \in Nat
      BY <2>1, <2>2
    <3>3. g \in Seq(Contents) /\ x \in Seq(Contents) /\ y \in Seq(Contents) /\ z \in Seq(Contents) /\ n \in Nat
      BY <1>13
    <3> HIDE DEF g, x, y, z, n, a, c
    <3>4. Flow(g, Append(x, Head(y)), Tail(y), z, n, a, c)
      BY <3>1, <3>2, <3>3, FlowOut
    <3>5. Len(Append(x, Head(y))) + Len(Tail(y)) = Len(x) + Len(y)
      BY <3>1, <3>2, <3>3, PopPiece, PushPiece
    <3> QED BY <3>4, <3>5
  <2>4. FlowOf(d)'
    BY <2>1, <2>2, <2>3, <1>15
  <2>5. ASSUME NoTransferFailed' PROVE EndOf(d)'
    <3>1. EndOf(d)
      BY <2>5, <1>1, <1>9 DEF Ending
    <3>2. d \notin copied'[Out(d)] /\ copied' = copied
      BY <1>2, <1>19
    <3>3. \A h \in 1..3 : hop'[h][d].fin = hop[h][d].fin /\ hop'[h][d].deaf = hop[h][d].deaf
      BY <1>6 DEF SameMarks
    <3>4. /\ \A h \in 1..3 : ~hop'[h][d].deaf
          /\ hop'[e][d].fin => d \in shut'
          /\ hop'[2][d].fin => d \in copied'[In(d)]
          /\ hop'[w][d].fin => d \in copied'[Out(d)]
          /\ d \in ended' => d \in shut' /\ Len(got'[d]) = sent'[d]
          /\ d \in copied'[In(d)] => d \in shut' /\ z' = <<>>
      BY <3>1, <3>3, <2>1, <1>2, <1>3, ZenonT(60) DEF EndOf, e, w
    <3>5. d \in copied'[In(d)] /\ Clear(d)' >= 2 => Len(got'[d]) + Len(x') + Len(y') = sent'[d] + Ahead(d)'
      <4>1. d \in copied[In(d)] /\ c >= 2 => Len(g) + Len(x) + Len(y) = n + a
        BY <3>1 DEF EndOf, w
      <4> DEFINE p == Len(g)  q == Len(x)  m == Len(y)  q2 == Len(Append(x, Head(y)))  m2 == Len(Tail(y))
      <4>2. p \in Nat /\ q \in Nat /\ m \in Nat /\ q2 \in Nat /\ m2 \in Nat
        BY <1>13, <2>1, PopPiece, PushPiece
      <4>3. q2 + m2 = q + m
        BY <2>3
      <4>4. Len(x') = q2 /\ Len(y') = m2 /\ got'[d] = g /\ sent'[d] = n /\ Ahead(d)' = a /\ Clear(d)' = c /\ copied' = copied
        BY <2>1, <1>2, <1>10, <1>12
      <4> HIDE DEF p, q, m, q2, m2
      <4>5. p + q2 + m2 = p + q + m
        BY <4>2, <4>3
      <4> QED BY <4>1, <4>4, <4>5, Zenon DEF p, q, m
    <3> QED BY <3>2, <3>4, <3>5 DEF EndOf, e, w
  <2>6. Flows' /\ Ending'
    BY <2>4, <2>5, <1>11 DEF Flows, Ending
  <2>7. HeaderRead'
    <3>1. d = "up" => relay["B"] = "copy"
      BY <1>2, <1>19 DEF Out
    <3>2. relay["B"] # "copy" => Data(2, "up")' = Data(2, "up")
      BY <3>1, <1>3, <1>6 DEF Dirs
    <3>3. Header(dst)' = Header(dst) /\ (Gap(2, "up")' <=> Gap(2, "up")) /\ Ahead("up")' = Ahead("up")
      BY <1>2, <1>3, <1>6, <1>8, <1>10, SameClear DEF Header, Dirs
    <3> QED BY <3>2, <3>3, <1>1, <1>2 DEF HeaderRead
  <2> QED BY <2>6, <2>7, <1>7, <1>17 DEF TcpInv
<1> QED BY <1>4, <1>18, <1>19

\* A relay reads the end of a direction and shuts its write half down.
LEMMA CopyEndKeepsInv ==
  ASSUME TcpInv, NEW r \in Relays, NEW d \in Dirs, CopyEnd(r, d)
  PROVE  TcpInv'
<1> DEFINE f == From(r, d)  t == To(r, d)  e == EndHop(d)  w == 4 - EndHop(d)
<1>1. TcpTypes /\ SetUp /\ HeaderRead /\ Flows /\ Ending
  BY DEF TcpInv
<1>2. /\ relay[r] = "copy" /\ d \notin copied[r] /\ Data(f, d) = <<>> /\ hop[f][d].fin /\ f \notin reset
      /\ hop' = [hop EXCEPT ![t][d].fin = TRUE]
      /\ copied' = [copied EXCEPT ![r] = copied[r] \cup {d}]
      /\ relay' = [relay EXCEPT ![r] = IF copied'[r] = Dirs THEN "done" ELSE "copy"]
      /\ chain' = chain /\ dst' = dst /\ reset' = reset /\ addr' = addr /\ reached' = reached
      /\ sent' = sent /\ got' = got /\ shut' = shut /\ ended' = ended
  BY DEF CopyEnd, Copying, ends, Data
<1>3. e \in 1..3 /\ w \in 1..3 /\ 2 \in 1..3 /\ e # 2 /\ w # 2 /\ w # e /\ In(d) \in Relays /\ Out(d) \in Relays /\ In(d) # Out(d)
  BY Places
<1>4. \/ r = In(d) /\ f = e /\ t = 2
      \/ r = Out(d) /\ f = 2 /\ t = w
  BY CopyPlaces
<1>5. f \in 1..3 /\ t \in 1..3 /\ f # t
  BY <1>3, <1>4
<1> HIDE DEF f, t, e, w
<1>6. /\ HopType'
      /\ \A k \in 1..3, q \in Dirs :
           /\ Data(k, q)' = Data(k, q) /\ hop'[k][q].deaf = hop[k][q].deaf
           /\ k # t \/ q # d => hop'[k][q].fin = hop[k][q].fin
  <2>1. HopType
    BY <1>1 DEF TcpTypes, HopType
  <2> QED BY <2>1, <1>2, <1>5, SetFin
<1>7. /\ relay'[r] \in {"copy", "done"} /\ \A q \in Relays : q # r => relay'[q] = relay[q]
      /\ copied'[r] = copied[r] \cup {d} /\ \A q \in Relays : q # r => copied'[q] = copied[q]
  BY <1>1, <1>2 DEF TcpTypes
<1>8. TcpTypes'
  <2>1. /\ relay' \in [Relays -> {"accept", "header", "ip", "port", "connect", "copy", "done", "error"}]
        /\ relay'["A"] \in {"accept", "header", "copy", "done", "error"}
        /\ relay'["B"] \in {"accept", "ip", "port", "connect", "copy", "done", "error"}
        /\ copied' \in [Relays -> SUBSET Dirs]
    BY <1>1, <1>2, <1>7 DEF TcpTypes, Relays
  <2> QED BY <2>1, <1>1, <1>2, <1>6 DEF TcpTypes, HopType
<1>9. \A q \in Relays : relay'[q] = "error" <=> relay[q] = "error"
  BY <1>2, <1>7
<1>10. NoTransferFailed' => NoTransferFailed
  BY <1>9 DEF NoTransferFailed
<1>11. \A q \in Dirs : Ahead(q)' = Ahead(q)
  BY <1>2, <1>7 DEF Ahead, Relays
<1>12. \A q \in Dirs : CutOnly(q)
  BY <1>1, <1>2, <1>6, <1>9, StillCuts
<1>13. Flows'
  <2>1. ASSUME NEW q \in Dirs PROVE FlowOf(q)'
    BY <1>1, <1>8, <1>11, <1>12, CutKeepsFlow DEF Flows
  <2> QED BY <2>1 DEF Flows
<1>14. ASSUME NoTransferFailed', NEW q \in Dirs, q # d PROVE EndOf(q)'
  <2>1. EndOf(q)
    BY <1>1, <1>10, <1>14 DEF Ending
  <2>2. \A h \in 1..3 : hop'[h][q].fin = hop[h][q].fin /\ hop'[h][q].deaf = hop[h][q].deaf
    BY <1>6, <1>14
  <2>3. \A p \in Relays : q \in copied'[p] <=> q \in copied[p]
    BY <1>7, <1>14
  <2> QED BY <2>1, <2>2, <2>3, <1>1, <1>2, <1>8, <1>11, <1>12, CutKeepsEnd
<1> DEFINE g == got[d]  x == Data(w, d)  y == Data(2, d)  z == Data(e, d)  n == sent[d]  a == Ahead(d)  c == Clear(d)
<1>15. /\ g \in Seq(Contents) /\ x \in Seq(Contents) /\ y \in Seq(Contents) /\ z \in Seq(Contents)
       /\ n \in Nat /\ a \in Nat /\ c \in 0..3
  BY <1>1, <1>3, FlowTypes DEF FlowTyped
<1>16. ASSUME NoTransferFailed' PROVE EndOf(d)'
  <2>1. EndOf(d) /\ NoTransferFailed
    BY <1>16, <1>1, <1>10 DEF Ending
  <2>2. ~Gap(f, d)
    BY <2>1, <1>2, <1>5 DEF EndOf, Gap
  <2>3. Clear(d)' <= c /\ Clear(d)' \in 0..3
    BY <1>8, <1>12, CutClear, FlowTypesNext DEF FlowTyped
  <2>4. x' = x /\ y' = y /\ z' = z /\ got'[d] = g /\ sent'[d] = n /\ Ahead(d)' = a
    BY <1>2, <1>3, <1>6, <1>11
  <2>5. /\ \A h \in 1..3 : ~hop'[h][d].deaf
        /\ d \in ended' => d \in shut' /\ Len(got'[d]) = sent'[d]
    BY <2>1, <1>2, <1>6 DEF EndOf
  <2>6. CASE r = In(d) /\ f = e /\ t = 2
    <3>1. d \in shut /\ z = <<>> /\ d \notin copied[Out(d)]
      BY <2>1, <2>6, <1>2 DEF EndOf, e
    <3>2. d \in copied'[In(d)] /\ d \notin copied'[Out(d)]
      BY <2>6, <3>1, <1>3, <1>7
    <3>3. hop'[e][d].fin = hop[e][d].fin /\ hop'[w][d].fin = hop[w][d].fin
      BY <2>6, <1>3, <1>6
    <3>4. c >= 2 => Len(g) + Len(x) + Len(y) = n + a
      <4>1. c >= 2 => c >= 3
        BY <2>2, <2>6 DEF Clear, e
      <4>2. c >= 3 => Len(g) + Len(x) + Len(y) + Len(z) = n + a
        <5>1. Flow(g, x, y, z, n, a, c)
          BY <1>1 DEF Flows, FlowOf, e, w
        <5> HIDE DEF g, x, y, z, n, a, c
        <5> QED BY <5>1 DEF Flow
      <4>3. Len(z) = 0 /\ Len(g) \in Nat /\ Len(x) \in Nat /\ Len(y) \in Nat
        BY <3>1, <1>15
      <4> QED BY <4>1, <4>2, <4>3
    <3>5. Clear(d)' >= 2 => Len(got'[d]) + Len(x') + Len(y') = sent'[d] + Ahead(d)'
      BY <3>4, <2>3, <2>4, <1>15, SMTT(30)
    <3>6. /\ hop'[e][d].fin => d \in shut'
          /\ ~hop'[w][d].fin /\ d \in shut' /\ z' = <<>>
      BY <3>1, <3>3, <2>1, <2>4, <1>2 DEF EndOf, e, w
    <3> QED BY <3>2, <3>5, <3>6, <2>5 DEF EndOf, e, w
  <2>7. CASE r = Out(d) /\ f = 2 /\ t = w
    <3>1. d \in copied[In(d)] /\ d \in shut /\ z = <<>> /\ y = <<>>
      BY <2>1, <2>7, <1>2 DEF EndOf, e
    <3>2. d \in copied'[In(d)] /\ d \in copied'[Out(d)]
      BY <2>7, <3>1, <1>3, <1>7
    <3>3. hop'[e][d].fin = hop[e][d].fin
      BY <2>7, <1>3, <1>6
    <3>4. a = 0
      BY <2>7, <1>2 DEF Ahead, Out
    <3>5. c >= 1 => Len(g) + Len(x) = n
      <4>1. c >= 1 => c >= 2
        BY <2>1, <2>2, <2>7, <1>3 DEF Clear, NoTransferFailed
      <4>2. c >= 2 => Len(g) + Len(x) + Len(y) = n + a
        BY <2>1, <3>1 DEF EndOf, w
      <4>3. Len(y) = 0 /\ Len(g) \in Nat /\ Len(x) \in Nat
        BY <3>1, <1>15
      <4> DEFINE p == Len(g)  q == Len(x)
      <4>4. c >= 2 => p + q + 0 = n + 0
        BY <4>2, <4>3, <3>4
      <4>5. p \in Nat /\ q \in Nat /\ n \in Nat
        BY <4>3, <1>15
      <4> HIDE DEF p, q, n, c
      <4>6. c >= 2 => p + q = n
        BY <4>4, <4>5
      <4> QED BY <4>1, <4>6, Zenon DEF p, q
    <3>6. c >= 2 => Len(g) + Len(x) + Len(y) = n + a
      BY <2>1, <3>1 DEF EndOf, w
    <3>7. Clear(d)' >= 2 => Len(got'[d]) + Len(x') + Len(y') = sent'[d] + Ahead(d)'
      BY <3>6, <2>3, <2>4, <1>15
    <3>8. Clear(d)' >= 1 => Len(got'[d]) + Len(x') = sent'[d]
      BY <3>5, <2>3, <2>4, <1>15, SMTT(30)
    <3>9. /\ d \in shut' /\ z' = <<>> /\ y' = <<>>
      BY <3>1, <2>4, <1>2
    <3> QED BY <3>2, <3>7, <3>8, <3>9, <2>5 DEF EndOf, e, w
  <2> QED BY <2>6, <2>7, <1>4
<1>17. Ending'
  BY <1>14, <1>16 DEF Ending
<1>18. SetUp'
  <2>1. Data(2, "up")' = Data(2, "up")
    BY <1>3, <1>6 DEF Dirs
  <2>2. CASE r = "A"
    BY <2>1, <2>2, <1>1, <1>2, <1>7 DEF SetUp, Relays
  <2>3. CASE r = "B"
    BY <2>1, <2>3, <1>1, <1>2, <1>7 DEF SetUp, Relays
  <2> QED BY <2>2, <2>3 DEF Relays
<1>19. HeaderRead'
  <2>1. Data(2, "up")' = Data(2, "up") /\ Ahead("up")' = Ahead("up") /\ Header(dst)' = Header(dst) /\ (Gap(2, "up")' <=> Gap(2, "up"))
    BY <1>2, <1>3, <1>6, <1>11 DEF Dirs, Header, Gap
  <2>2. CASE r = "A"
    BY <2>1, <2>2, <1>1, <1>2, <1>7 DEF HeaderRead, Relays
  <2>3. CASE r = "B"
    BY <2>1, <2>3, <1>1, <1>2, <1>7 DEF HeaderRead, Relays
  <2> QED BY <2>2, <2>3 DEF Relays
<1> QED BY <1>8, <1>13, <1>17, <1>18, <1>19 DEF TcpInv

\* What relay B has read and has to read is as it was when the vsock hop is.
LEMMA SameHeader ==
  ASSUME HeaderRead, relay' = relay, chain' = chain, dst' = dst, addr' = addr, reached' = reached,
         Data(2, "up")' = Data(2, "up"), Gap(2, "up")' <=> Gap(2, "up")
  PROVE  HeaderRead'
<1>1. Ahead("up")' = Ahead("up") /\ Header(dst)' = Header(dst)
  BY DEF Ahead, Header
<1> QED BY <1>1 DEF HeaderRead

\* An end sends a byte or ends its direction.
LEMMA EndSendsKeepsInv ==
  ASSUME TcpInv, NEW d \in Dirs, EndSends(d)
  PROVE  TcpInv'
<1> DEFINE e == EndHop(d)  w == 4 - EndHop(d)
<1>1. TcpTypes /\ SetUp /\ HeaderRead /\ Flows /\ Ending
  BY DEF TcpInv
<1>2. /\ d \notin shut /\ ~Gap(e, d)
      /\ chain' = chain /\ dst' = dst /\ relay' = relay /\ copied' = copied /\ reset' = reset /\ addr' = addr /\ reached' = reached
      /\ got' = got /\ ended' = ended
  BY DEF EndSends, Gap
<1>3. e \in 1..3 /\ w \in 1..3 /\ 2 \in 1..3 /\ e # 2 /\ w # 2 /\ w # e /\ In(d) \in Relays /\ Out(d) \in Relays
  BY Places
<1>4. \/ /\ sent' = [sent EXCEPT ![d] = sent[d] + 1] /\ shut' = shut
         /\ hop' = [hop EXCEPT ![e][d].data = Append(hop[e][d].data, <<sent'[d]>>)]
      \/ shut' = shut \cup {d} /\ hop' = [hop EXCEPT ![e][d].fin = TRUE] /\ sent' = sent
  BY DEF EndSends
<1> HIDE DEF e, w
<1>5. HopType
  BY <1>1 DEF TcpTypes, HopType
<1>6. NoTransferFailed' => NoTransferFailed
  BY <1>2 DEF NoTransferFailed
<1>7. \A q \in Dirs : Ahead(q)' = Ahead(q)
  BY <1>2 DEF Ahead
<1>8. \A q \in Relays : relay'[q] = "error" <=> relay[q] = "error"
  BY <1>2
<1>9. NoTransferFailed' => EndOf(d) /\ d \notin copied[In(d)] /\ d \notin copied[Out(d)] /\ d \notin ended
  BY <1>1, <1>2, <1>6 DEF Ending, EndOf
<1>10. CASE /\ sent' = [sent EXCEPT ![d] = sent[d] + 1] /\ shut' = shut
            /\ hop' = [hop EXCEPT ![e][d].data = Append(hop[e][d].data, <<sent'[d]>>)]
  <2>1. sent' \in [Dirs -> Nat] /\ sent'[d] = sent[d] + 1 /\ \A q \in Dirs : q # d => sent'[q] = sent[q]
    BY <1>1, <1>10 DEF TcpTypes
  <2> DEFINE v == Append(Data(e, d), <<sent[d] + 1>>)
  <2>2. v \in Seq(Contents)
    <3>1. Data(e, d) \in Seq(Contents) /\ sent[d] + 1 \in Nat
      BY <1>1, <1>3, FlowTypes, SMTT(30) DEF FlowTyped
    <3>2. <<sent[d] + 1>> \in Contents
      BY <3>1 DEF Contents
    <3> QED BY <3>1, <3>2, PushPiece
  <2>3. hop' = [hop EXCEPT ![e][d].data = v]
    BY <1>10, <2>1 DEF Data
  <2>4. /\ HopType' /\ SameMarks /\ Data(e, d)' = v
        /\ \A k \in 1..3, q \in Dirs : k # e \/ q # d => Data(k, q)' = Data(k, q)
    <3> HIDE DEF v
    <3> QED BY <2>2, <2>3, <1>3, <1>5, SetData
  <2>5. TcpTypes'
    BY <1>1, <1>2, <1>10, <2>1, <2>4 DEF TcpTypes, HopType
  <2>6. ASSUME NEW q \in Dirs, q # d PROVE FlowOf(q)' /\ (NoTransferFailed' => EndOf(q)')
    <3>1. FlowOf(q) /\ (NoTransferFailed' => EndOf(q))
      BY <1>1, <1>6 DEF Flows, Ending
    <3>2. \A h \in 1..3 : Data(h, q)' = Data(h, q) /\ hop'[h][q].fin = hop[h][q].fin /\ hop'[h][q].deaf = hop[h][q].deaf
      BY <2>4, <2>6 DEF SameMarks
    <3> QED BY <3>1, <3>2, <2>1, <2>5, <2>6, <1>1, <1>2, <1>7, <1>8, <1>10, OtherDirection
  <2>7. FlowOf(d)'
    <3> DEFINE g == got[d]  x == Data(w, d)  y == Data(2, d)  z == Data(e, d)  n == sent[d]  a == Ahead(d)  c == Clear(d)
    <3>1. /\ g \in Seq(Contents) /\ x \in Seq(Contents) /\ y \in Seq(Contents) /\ z \in Seq(Contents)
          /\ n \in Nat /\ a \in Nat /\ c \in 0..3
      BY <1>1, <1>3, FlowTypes DEF FlowTyped
    <3>2. Flow(g, x, y, z, n, a, c)
      BY <1>1 DEF Flows, FlowOf, w, e
    <3>3. c # 2
      BY <1>2 DEF Clear, e
    <3>4. x' = x /\ y' = y /\ z' = Append(z, <<n + 1>>) /\ sent'[d] = n + 1 /\ got'[d] = g /\ Ahead(d)' = a /\ Clear(d)' = c
      BY <1>2, <1>3, <1>7, <1>8, <2>1, <2>4, SameClear
    <3>5. FlowOf(d)' <=> Flow(got'[d], x', y', z', sent'[d], Ahead(d)', Clear(d)')
      BY DEF FlowOf, w, e
    <3> HIDE DEF g, x, y, z, n, a, c
    <3>6. Flow(g, x, y, Append(z, <<n + 1>>), n + 1, a, c)
      BY <3>1, <3>2, <3>3, FlowSend
    <3> QED BY <3>4, <3>5, <3>6
  <2>8. ASSUME NoTransferFailed' PROVE EndOf(d)'
    <3>1. \A h \in 1..3 : hop'[h][d].fin = hop[h][d].fin /\ hop'[h][d].deaf = hop[h][d].deaf
      BY <2>4 DEF SameMarks
    <3>2. /\ \A h \in 1..3 : ~hop'[h][d].deaf
          /\ ~hop'[e][d].fin /\ ~hop'[2][d].fin /\ ~hop'[w][d].fin
          /\ d \notin copied'[In(d)] /\ d \notin copied'[Out(d)] /\ d \notin ended'
      BY <2>8, <3>1, <1>2, <1>3, <1>9 DEF EndOf, e, w
    <3> QED BY <3>2 DEF EndOf, e, w
  <2>9. Flows' /\ Ending'
    BY <2>6, <2>7, <2>8 DEF Flows, Ending
  <2>10. Data(2, "up")' = Data(2, "up") /\ (Gap(2, "up")' <=> Gap(2, "up"))
    BY <1>2, <1>3, <1>8, <2>4, SameClear DEF Dirs
  <2>11. SetUp' /\ HeaderRead'
    BY <2>10, <1>1, <1>2, SameHeader DEF SetUp
  <2> QED BY <2>5, <2>9, <2>11 DEF TcpInv
<1>11. CASE shut' = shut \cup {d} /\ hop' = [hop EXCEPT ![e][d].fin = TRUE] /\ sent' = sent
  <2>1. /\ HopType'
        /\ \A k \in 1..3, q \in Dirs :
             /\ Data(k, q)' = Data(k, q) /\ hop'[k][q].deaf = hop[k][q].deaf
             /\ k # e \/ q # d => hop'[k][q].fin = hop[k][q].fin
    BY <1>3, <1>5, <1>11, SetFin
  <2>2. TcpTypes'
    BY <1>1, <1>2, <1>11, <2>1 DEF TcpTypes, HopType
  <2>3. \A q \in Dirs : CutOnly(q)
    BY <1>1, <1>2, <1>11, <2>1, StillCuts
  <2>4. ASSUME NEW q \in Dirs PROVE FlowOf(q)'
    BY <1>1, <1>7, <2>2, <2>3, CutKeepsFlow DEF Flows
  <2>5. ASSUME NoTransferFailed', NEW q \in Dirs, q # d PROVE EndOf(q)'
    <3>1. EndOf(q)
      BY <1>1, <1>6, <2>5 DEF Ending
    <3>2. \A h \in 1..3 : hop'[h][q].fin = hop[h][q].fin /\ hop'[h][q].deaf = hop[h][q].deaf
      BY <2>1, <2>5
    <3> QED BY <3>1, <3>2, <2>2, <2>3, <2>5, <1>1, <1>2, <1>7, <1>11, CutKeepsEnd
  <2>6. ASSUME NoTransferFailed' PROVE EndOf(d)'
    <3>1. /\ \A h \in 1..3 : ~hop'[h][d].deaf
          /\ d \in shut' /\ ~hop'[2][d].fin /\ ~hop'[w][d].fin
          /\ d \notin copied'[In(d)] /\ d \notin copied'[Out(d)] /\ d \notin ended'
      BY <2>1, <2>6, <1>2, <1>3, <1>9, <1>11 DEF EndOf, e, w
    <3> QED BY <3>1 DEF EndOf, e, w
  <2>7. Flows' /\ Ending'
    BY <2>4, <2>5, <2>6 DEF Flows, Ending
  <2>8. Data(2, "up")' = Data(2, "up") /\ (Gap(2, "up")' <=> Gap(2, "up"))
    BY <1>2, <1>3, <2>1 DEF Dirs, Gap
  <2>9. SetUp' /\ HeaderRead'
    BY <2>8, <1>1, <1>2, SameHeader DEF SetUp
  <2> QED BY <2>2, <2>7, <2>9 DEF TcpInv
<1> QED BY <1>4, <1>10, <1>11

\* The other end reads a piece or the end.
LEMMA EndReadsKeepsInv ==
  ASSUME TcpInv, NEW d \in Dirs, EndReads(d)
  PROVE  TcpInv'
<1> DEFINE e == EndHop(d)  w == 4 - EndHop(d)
<1>1. TcpTypes /\ SetUp /\ HeaderRead /\ Flows /\ Ending
  BY DEF TcpInv
<1>2. /\ d \notin ended
      /\ chain' = chain /\ dst' = dst /\ relay' = relay /\ copied' = copied /\ reset' = reset /\ addr' = addr /\ reached' = reached
      /\ sent' = sent /\ shut' = shut
  BY DEF EndReads
<1>3. e \in 1..3 /\ w \in 1..3 /\ 2 \in 1..3 /\ e # 2 /\ w # 2 /\ w # e /\ In(d) \in Relays /\ Out(d) \in Relays
  BY Places
<1>4. \/ /\ Data(w, d) # <<>> /\ got' = [got EXCEPT ![d] = Append(got[d], Head(Data(w, d)))]
         /\ hop' = [hop EXCEPT ![w][d].data = Tail(hop[w][d].data)] /\ ended' = ended
      \/ /\ Data(w, d) = <<>> /\ hop[w][d].fin /\ w \notin reset
         /\ ended' = ended \cup {d} /\ got' = got /\ hop' = hop
  BY DEF EndReads, Data
<1> HIDE DEF e, w
<1>5. HopType
  BY <1>1 DEF TcpTypes, HopType
<1>6. NoTransferFailed' => NoTransferFailed
  BY <1>2 DEF NoTransferFailed
<1>7. \A q \in Dirs : Ahead(q)' = Ahead(q)
  BY <1>2 DEF Ahead
<1>8. \A q \in Relays : relay'[q] = "error" <=> relay[q] = "error"
  BY <1>2
<1> DEFINE g == got[d]  x == Data(w, d)  y == Data(2, d)  z == Data(e, d)  n == sent[d]  a == Ahead(d)  c == Clear(d)
<1>9. /\ g \in Seq(Contents) /\ x \in Seq(Contents) /\ y \in Seq(Contents) /\ z \in Seq(Contents)
      /\ n \in Nat /\ a \in Nat /\ c \in 0..3
  BY <1>1, <1>3, FlowTypes DEF FlowTyped
<1>10. CASE /\ x # <<>> /\ got' = [got EXCEPT ![d] = Append(g, Head(x))]
            /\ hop' = [hop EXCEPT ![w][d].data = Tail(hop[w][d].data)] /\ ended' = ended
  <2> DEFINE v == Tail(x)  g2 == Append(g, Head(x))
  <2>1. v \in Seq(Contents) /\ g2 \in Seq(Contents) /\ Len(g2) = Len(g) + 1 /\ Len(v) = Len(x) - 1 /\ Len(g) \in Nat /\ Len(x) \in Nat
    BY <1>9, <1>10, PopPiece, PushPiece
  <2>2. hop' = [hop EXCEPT ![w][d].data = v]
    BY <1>10 DEF Data
  <2>3. /\ HopType' /\ SameMarks /\ Data(w, d)' = v
        /\ \A k \in 1..3, q \in Dirs : k # w \/ q # d => Data(k, q)' = Data(k, q)
    <3> HIDE DEF v
    <3> QED BY <2>1, <2>2, <1>3, <1>5, SetData
  <2>4. got' \in [Dirs -> Seq(Contents)] /\ got'[d] = g2 /\ \A q \in Dirs : q # d => got'[q] = got[q]
    <3> HIDE DEF v
    <3> QED BY <1>1, <1>10, <2>1 DEF TcpTypes
  <2>5. TcpTypes'
    BY <1>1, <1>2, <1>10, <2>3, <2>4 DEF TcpTypes, HopType
  <2>6. ASSUME NEW q \in Dirs, q # d PROVE FlowOf(q)' /\ (NoTransferFailed' => EndOf(q)')
    <3>1. FlowOf(q) /\ (NoTransferFailed' => EndOf(q))
      BY <1>1, <1>6 DEF Flows, Ending
    <3>2. \A h \in 1..3 : Data(h, q)' = Data(h, q) /\ hop'[h][q].fin = hop[h][q].fin /\ hop'[h][q].deaf = hop[h][q].deaf
      BY <2>3, <2>6 DEF SameMarks
    <3> QED BY <3>1, <3>2, <2>4, <2>5, <2>6, <1>1, <1>2, <1>7, <1>8, <1>10, OtherDirection
  <2>7. x' = v /\ y' = y /\ z' = z /\ sent'[d] = n /\ Ahead(d)' = a /\ Clear(d)' = c
    BY <1>2, <1>3, <1>7, <1>8, <2>3, SameClear
  <2>8. FlowOf(d)'
    <3>1. Flow(g, x, y, z, n, a, c)
      BY <1>1 DEF Flows, FlowOf, w, e
    <3>2. FlowOf(d)' <=> Flow(got'[d], x', y', z', sent'[d], Ahead(d)', Clear(d)')
      BY DEF FlowOf, w, e
    <3>3. x # <<>>
      BY <1>10
    <3> HIDE DEF g, x, y, z, n, a, c
    <3>4. Flow(Append(g, Head(x)), Tail(x), y, z, n, a, c)
      BY <1>9, <3>1, <3>3, FlowRead
    <3> QED BY <3>2, <3>4, <2>4, <2>7
  <2>9. ASSUME NoTransferFailed' PROVE EndOf(d)'
    <3>1. EndOf(d)
      BY <2>9, <1>1, <1>6 DEF Ending
    <3>2. \A h \in 1..3 : hop'[h][d].fin = hop[h][d].fin /\ hop'[h][d].deaf = hop[h][d].deaf
      BY <2>3 DEF SameMarks
    <3>3. /\ \A h \in 1..3 : ~hop'[h][d].deaf
          /\ hop'[e][d].fin => d \in shut'
          /\ hop'[2][d].fin => d \in copied'[In(d)]
          /\ hop'[w][d].fin => d \in copied'[Out(d)]
          /\ d \in copied'[In(d)] => d \in shut' /\ z' = <<>>
          /\ d \in copied'[Out(d)] => d \in copied'[In(d)] /\ y' = <<>>
          /\ d \notin ended'
      BY <3>1, <3>2, <2>7, <1>2, <1>3, <1>10 DEF EndOf, e, w
    <3>4. Len(g2) + Len(v) = Len(g) + Len(x)
      <4> DEFINE p == Len(g)  q == Len(x)
      <4>1. p \in Nat /\ q \in Nat /\ Len(g2) = p + 1 /\ Len(v) = q - 1
        BY <2>1
      <4> HIDE DEF p, q, g2, v
      <4>2. Len(g2) + Len(v) = p + q
        BY <4>1
      <4> QED BY <4>2 DEF p, q
    <3>5. /\ d \in copied[In(d)] /\ c >= 2 => Len(g2) + Len(v) + Len(y) = n + a
          /\ d \in copied[Out(d)] /\ c >= 1 => Len(g2) + Len(v) = n
      <4>1. /\ d \in copied[In(d)] /\ c >= 2 => Len(g) + Len(x) + Len(y) = n + a
            /\ d \in copied[Out(d)] /\ c >= 1 => Len(g) + Len(x) = n
        BY <3>1 DEF EndOf, w
      <4> HIDE DEF g, x, y, n, a, c, g2, v
      <4> QED BY <4>1, <3>4, Zenon
    <3>6. /\ d \in copied'[In(d)] /\ Clear(d)' >= 2 => Len(got'[d]) + Len(x') + Len(y') = sent'[d] + Ahead(d)'
          /\ d \in copied'[Out(d)] /\ Clear(d)' >= 1 => Len(got'[d]) + Len(x') = sent'[d]
      <4> HIDE DEF g, x, y, n, a, c, g2, v
      <4> QED BY <3>5, <2>4, <2>7, <1>2, Zenon
    <3> QED BY <3>3, <3>6 DEF EndOf, e, w
  <2>10. Flows' /\ Ending'
    BY <2>6, <2>8, <2>9 DEF Flows, Ending
  <2>11. Data(2, "up")' = Data(2, "up") /\ (Gap(2, "up")' <=> Gap(2, "up"))
    BY <1>2, <1>3, <1>8, <2>3, SameClear DEF Dirs
  <2>12. SetUp' /\ HeaderRead'
    BY <2>11, <1>1, <1>2, SameHeader DEF SetUp
  <2> QED BY <2>5, <2>10, <2>12 DEF TcpInv
<1>11. CASE /\ x = <<>> /\ hop[w][d].fin /\ w \notin reset
            /\ ended' = ended \cup {d} /\ got' = got /\ hop' = hop
  <2>1. TcpTypes'
    BY <1>1, <1>2, <1>11 DEF TcpTypes
  <2>2. \A q \in Dirs : CutOnly(q)
    BY <1>1, <1>2, <1>11, StillCuts DEF Data
  <2>3. ASSUME NEW q \in Dirs PROVE FlowOf(q)'
    BY <1>1, <1>7, <2>1, <2>2, CutKeepsFlow DEF Flows
  <2>4. ASSUME NoTransferFailed', NEW q \in Dirs, q # d PROVE EndOf(q)'
    <3>1. EndOf(q)
      BY <1>1, <1>6, <2>4 DEF Ending
    <3> QED BY <3>1, <2>1, <2>2, <2>4, <1>1, <1>2, <1>7, <1>11, CutKeepsEnd
  <2>5. ASSUME NoTransferFailed' PROVE EndOf(d)'
    <3>1. EndOf(d) /\ NoTransferFailed
      BY <1>1, <1>6, <2>5 DEF Ending
    <3>2. d \in copied[Out(d)] /\ d \in copied[In(d)] /\ d \in shut
      BY <3>1, <1>11 DEF EndOf, w
    <3>3. c >= 1
      <4>1. ~Gap(w, d)
        BY <3>1, <1>3, <1>11 DEF EndOf, Gap
      <4> QED BY <4>1, <3>1, <1>3 DEF Clear, NoTransferFailed, w
    <3>4. Len(g) = n
      <4>1. Len(g) + Len(x) = n
        BY <3>1, <3>2, <3>3 DEF EndOf, w
      <4>2. Len(x) = 0 /\ Len(g) \in Nat
        BY <1>9, <1>11
      <4> QED BY <4>1, <4>2, <1>9
    <3>5. /\ Data(w, d)' = x /\ Data(2, d)' = y /\ Data(e, d)' = z /\ Clear(d)' = c /\ Ahead(d)' = a /\ sent' = sent /\ got' = got
          /\ copied' = copied /\ shut' = shut /\ hop' = hop
      <4>1. SameMarks
        BY <1>11 DEF SameMarks
      <4> QED BY <4>1, <1>2, <1>7, <1>8, <1>11, SameClear DEF Data
    <3> QED BY <3>1, <3>2, <3>4, <3>5 DEF EndOf, e, w
  <2>6. Flows' /\ Ending'
    BY <2>3, <2>4, <2>5 DEF Flows, Ending
  <2>7. Data(2, "up")' = Data(2, "up") /\ (Gap(2, "up")' <=> Gap(2, "up"))
    BY <1>2, <1>11 DEF Data, Gap
  <2>8. SetUp' /\ HeaderRead'
    BY <2>7, <1>1, <1>2, SameHeader DEF SetUp
  <2> QED BY <2>1, <2>6, <2>8 DEF TcpInv
<1> QED BY <1>4, <1>10, <1>11

\* A hop is reset.
LEMMA ResetKeepsInv ==
  ASSUME TcpInv, NEW h \in 1..3, ResetHop(h)
  PROVE  TcpInv'
<1>1. TcpTypes /\ SetUp /\ HeaderRead /\ Flows /\ Ending
  BY DEF TcpInv
<1>2. /\ reset' = reset \cup {h}
      /\ chain' = chain /\ dst' = dst /\ relay' = relay /\ copied' = copied /\ addr' = addr /\ reached' = reached
      /\ sent' = sent /\ got' = got /\ shut' = shut /\ ended' = ended
  BY DEF ResetHop, ends
<1>3. /\ HopType' /\ SameMarks
      /\ \A j \in 1..3, d \in Dirs : j # h => Data(j, d)' = Data(j, d)
      /\ \A d \in Dirs : Begins(Data(h, d)', Data(h, d))
  <2>1. PICK k \in [Dirs -> 0..HopCap] :
          /\ \A d \in Dirs : k[d] <= Len(hop[h][d].data)
          /\ hop' = [hop EXCEPT ![h] = [d \in Dirs |-> [hop[h][d] EXCEPT !.data = SubSeq(hop[h][d].data, 1, k[d])]]]
    BY DEF ResetHop
  <2>2. HopType
    BY <1>1 DEF TcpTypes, HopType
  <2> QED BY <2>1, <2>2, ResetCells
<1>4. TcpTypes'
  BY <1>1, <1>2, <1>3 DEF TcpTypes, HopType
<1>5. \A k \in 1..3, q \in Dirs : Begins(Data(k, q)', Data(k, q)) /\ (Data(k, q)' = Data(k, q) \/ Gap(k, q)') /\ (Gap(k, q) => Gap(k, q)')
  <2> TAKE k \in 1..3, q \in Dirs
  <2>1. Begins(Data(k, q), Data(k, q))
    BY <1>1, FlowTypes DEF FlowTyped, Begins
  <2>2. Gap(k, q) => Gap(k, q)'
    BY <1>2, <1>3 DEF Gap, SameMarks
  <2>3. k = h => Gap(k, q)'
    BY <1>2 DEF Gap
  <2> QED BY <2>1, <2>2, <2>3, <1>3
<1>6. \A q \in Dirs : CutOnly(q) /\ Ahead(q)' = Ahead(q)
  BY <1>2, <1>5 DEF CutOnly, Ahead
<1>7. ASSUME NEW q \in Dirs PROVE FlowOf(q)'
  BY <1>1, <1>4, <1>6, CutKeepsFlow DEF Flows
<1>8. ASSUME NoTransferFailed', NEW q \in Dirs PROVE EndOf(q)'
  <2>1. EndOf(q)
    BY <1>1, <1>2, <1>8 DEF Ending, NoTransferFailed
  <2>2. \A k \in 1..3 : hop'[k][q].fin = hop[k][q].fin /\ hop'[k][q].deaf = hop[k][q].deaf
    BY <1>3 DEF SameMarks
  <2> QED BY <2>1, <2>2, <1>1, <1>2, <1>4, <1>6, CutKeepsEnd
<1>9. Flows' /\ Ending'
  BY <1>7, <1>8 DEF Flows, Ending
<1> DEFINE u == Data(2, "up")
<1>10. u \in Seq(Contents) /\ u' \in Seq(Contents) /\ Begins(u', u) /\ "up" \in Dirs /\ (u' = u \/ Gap(2, "up")') /\ (Gap(2, "up") => Gap(2, "up")')
  BY <1>1, <1>4, <1>5, FlowTypes, FlowTypesNext DEF FlowTyped, Dirs
<1>11. u = <<>> => u' = <<>>
  <2>1. \A v \in Seq(Contents) : Len(v) <= 0 => v = <<>>
    BY EmptySeq
  <2> HIDE DEF u
  <2> QED BY <2>1, <1>10 DEF Begins
<1>12. SetUp'
  BY <1>1, <1>2, <1>11 DEF SetUp
<1>13. HeaderRead'
  <2>1. Ahead("up")' = Ahead("up") /\ Header(dst)' = Header(dst)
    BY <1>2 DEF Ahead, Header
  <2>2. Len(u) \in Nat /\ Len(u') \in Nat /\ \A i \in 1..Len(u') : i \in 1..Len(u) /\ u'[i] = u[i]
    <3> HIDE DEF u
    <3> QED BY <1>10 DEF Begins
  <2> QED BY <2>1, <2>2, <1>1, <1>2, <1>10 DEF HeaderRead
<1> QED BY <1>4, <1>9, <1>12, <1>13 DEF TcpInv

-----------------------------------------------------------------------------
(* The proxies                                                             *)

\* The invariant holds when a client connects.
LEMMA TcpInitInv ==
  ASSUME TcpInit
  PROVE  TcpInv
<1>1. /\ chain \in {"transparent", "port", "plain"} /\ dst \in Destinations
      /\ relay = [r \in Relays |-> "accept"] /\ copied = [r \in Relays |-> {}]
      /\ hop = [h \in 1..3 |-> [d \in Dirs |-> Stream]] /\ reset = {}
      /\ addr = <<>> /\ reached = <<>>
      /\ sent = [d \in Dirs |-> 0] /\ got = [d \in Dirs |-> <<>>] /\ shut = {} /\ ended = {}
  BY DEF TcpInit
<1>2. Stream \in Cells /\ Stream.data = <<>> /\ Stream.fin = FALSE /\ Stream.deaf = FALSE
  BY DEF Stream, Cells
<1>3. \A h \in 1..3, d \in Dirs : hop[h][d] = Stream
  BY <1>1
<1>4. hop \in [1..3 -> [Dirs -> Cells]]
  <2>1. [d \in Dirs |-> Stream] \in [Dirs -> Cells]
    BY <1>2
  <2> QED BY <1>1, <2>1
<1>5. got \in [Dirs -> Seq(Contents)] /\ sent \in [Dirs -> Nat] /\ \A d \in Dirs : got[d] = <<>> /\ sent[d] = 0
  <2>1. <<>> \in Seq(Contents)
    OBVIOUS
  <2> QED BY <1>1, <2>1
<1>6. relay["A"] = "accept" /\ relay["B"] = "accept" /\ copied["A"] = {} /\ copied["B"] = {}
      /\ \A r \in Relays : copied[r] = {}
  BY <1>1 DEF Relays
<1>7. TcpTypes
  BY <1>1, <1>4, <1>5, <1>6 DEF TcpTypes
<1>8. \A h \in 1..3, d \in Dirs : Data(h, d) = <<>>
  BY <1>2, <1>3 DEF Data
<1>9. \A d \in Dirs : Ahead(d) = 0
  BY <1>6 DEF Ahead
<1>10. Flows
  <2>1. ASSUME NEW d \in Dirs PROVE FlowOf(d)
    <3>1. got[d] = <<>> /\ Data(4 - EndHop(d), d) = <<>> /\ Data(2, d) = <<>> /\ Data(EndHop(d), d) = <<>> /\ sent[d] = 0 /\ Ahead(d) = 0
      BY <1>5, <1>8, <1>9, Places
    <3>2. \A c \in 0..3 : Flow(<<>>, <<>>, <<>>, <<>>, 0, 0, c)
      BY DEF Flow
    <3>3. Clear(d) \in 0..3
      BY <1>7, FlowTypes DEF FlowTyped
    <3> QED BY <3>1, <3>2, <3>3 DEF FlowOf
  <2> QED BY <2>1 DEF Flows
<1>11. SetUp
  BY <1>6, <1>8 DEF SetUp, Dirs
<1>12. HeaderRead
  <2>1. Data(2, "up") = <<>> /\ Len(Data(2, "up")) = 0 /\ Ahead("up") = 0
    BY <1>8, <1>9 DEF Dirs
  <2> QED BY <2>1, <1>1, <1>6 DEF HeaderRead
<1>13. Ending
  <2>1. ASSUME NEW d \in Dirs PROVE EndOf(d)
    <3>1. \A h \in 1..3 : ~hop[h][d].fin /\ ~hop[h][d].deaf
      BY <1>2, <1>3
    <3>2. EndHop(d) \in 1..3 /\ 4 - EndHop(d) \in 1..3 /\ 2 \in 1..3 /\ In(d) \in Relays /\ Out(d) \in Relays
      BY Places
    <3>3. d \notin copied[In(d)] /\ d \notin copied[Out(d)] /\ d \notin ended
      BY <3>2, <1>1, <1>6
    <3> QED BY <3>1, <3>2, <3>3 DEF EndOf
  <2> QED BY <2>1 DEF Ending
<1> QED BY <1>7, <1>10, <1>11, <1>12, <1>13 DEF TcpInv

\* Every step of a relay, of an end or of the network keeps the invariant.
LEMMA TcpStepInv ==
  ASSUME TcpInv, TcpNext
  PROVE  TcpInv'
<1>1. TcpTypes /\ SetUp
  BY DEF TcpInv
<1>2. "A" \in Relays /\ "B" \in Relays /\ {1} \in SUBSET (1..3) /\ {2} \in SUBSET (1..3) /\ {1, 2} \in SUBSET (1..3)
  BY DEF Relays
<1>3. \A r \in Relays : {Near(r)} \in SUBSET (1..3) /\ {Near(r), Far(r)} \in SUBSET (1..3)
  BY DEF Relays, Near, Far
<1>4. ASSUME OrigDstErr PROVE TcpInv'
  <2>1. TransferFails("A", {1}) /\ "A" # "B"
    BY <1>4 DEF OrigDstErr
  <2> QED BY <2>1, <1>2, FailingKeepsInv
<1>5. ASSUME HeaderErr PROVE TcpInv'
  <2>1. TransferFails("A", {1, 2}) /\ "A" # "B"
    BY <1>5 DEF HeaderErr
  <2> QED BY <2>1, <1>2, FailingKeepsInv
<1>6. ASSUME ReadHeaderErr PROVE TcpInv'
  <2>1. TransferFails("B", {2}) /\ relay["A"] # "accept"
    BY <1>6, <1>1 DEF ReadHeaderErr, SetUp
  <2> QED BY <2>1, <1>2, FailingKeepsInv
<1>7. ASSUME NEW r \in Relays, ConnectErr(r) PROVE TcpInv'
  <2>1. TransferFails(r, {Near(r)}) /\ (r = "B" => relay["A"] # "accept")
    BY <1>7, <1>1 DEF ConnectErr, SetUp
  <2> QED BY <2>1, <1>3, FailingKeepsInv
<1>8. ASSUME NEW r \in Relays, AcceptErr(r) PROVE TcpInv'
  <2> DEFINE hops == IF relay[r] \in {"header", "copy"} THEN {Near(r), Far(r)} ELSE {Near(r)}
  <2>1. TransferFails(r, hops) /\ (r = "B" => relay["A"] # "accept") /\ hops \in SUBSET (1..3)
    BY <1>8, <1>3 DEF AcceptErr
  <2> HIDE DEF hops
  <2> QED BY <2>1, FailingKeepsInv
<1>9. ASSUME NEW r \in Relays, NEW d \in Dirs, CopyErr(r, d) PROVE TcpInv'
  <2>1. TransferFails(r, {Near(r), Far(r)}) /\ (r = "B" => relay["A"] # "accept")
    BY <1>9, <1>1 DEF CopyErr, Copying, SetUp
  <2> QED BY <2>1, <1>3, FailingKeepsInv
<1>10. CASE SetUpA
  BY <1>10, <1>4, <1>5, ConnectAKeepsInv, SendHeaderKeepsInv DEF SetUpA
<1>11. CASE SetUpB
  BY <1>11, <1>6, AcceptBKeepsInv, ReadHeaderKeepsInv, ConnectBKeepsInv DEF SetUpB
<1>12. CASE \E r \in Relays : ConnectErr(r) \/ AcceptErr(r) \/ \E d \in Dirs : CopyAny(r, d)
  BY <1>12, <1>7, <1>8, <1>9, CopyStepKeepsInv, CopyEndKeepsInv DEF CopyAny
<1>13. CASE \E d \in Dirs : EndSends(d) \/ EndReads(d)
  BY <1>13, EndSendsKeepsInv, EndReadsKeepsInv
<1>14. CASE \E h \in 1..3 : ResetHop(h)
  BY <1>14, ResetKeepsInv
<1> QED BY <1>10, <1>11, <1>12, <1>13, <1>14 DEF TcpNext

\* The invariant is of the state only.
LEMMA TcpStutterInv ==
  ASSUME TcpInv, UNCHANGED tcpVars
  PROVE  TcpInv'
<1>1. /\ chain' = chain /\ dst' = dst /\ relay' = relay /\ copied' = copied /\ hop' = hop /\ reset' = reset /\ addr' = addr
      /\ reached' = reached /\ sent' = sent /\ got' = got /\ shut' = shut /\ ended' = ended
  BY DEF tcpVars
<1>2. TcpTypes'
  BY <1>1 DEF TcpInv, TcpTypes
<1>3. Ahead("up")' = Ahead("up")
  BY <1>1 DEF Ahead
<1>4. Flows' /\ Ending'
  BY <1>1, <1>2, <1>3, StillKeeps
<1>5. Data(2, "up")' = Data(2, "up") /\ (Gap(2, "up")' <=> Gap(2, "up"))
  BY <1>1 DEF Data, Gap
<1>6. SetUp' /\ HeaderRead'
  BY <1>1, <1>5, SameHeader DEF TcpInv, SetUp
<1> QED BY <1>2, <1>4, <1>6 DEF TcpInv

\* The pieces of each direction are in order and without a gap from the sender through the two
\* relays to the receiver, with the header in front, for as long as no hop and no transfer has
\* failed; and an end mark follows them from hop to hop (the transfer tasks of the five tcp proxies).
THEOREM ProxyInvariance == TcpSpec => []TcpInv
<1>1. TcpInit => TcpInv
  BY TcpInitInv
<1>2. TcpInv /\ [TcpNext]_tcpVars => TcpInv'
  BY TcpStepInv, TcpStutterInv
<1> QED BY <1>1, <1>2, PTL DEF TcpSpec

\* A client is connected to the destination it asked for, each end is given a prefix of what the
\* other has sent with nothing of the header in it, and is shown the end of the stream only
\* after everything that was sent unless a transfer has failed, for every number of pieces, every
\* capacity of the hops, every set of destinations and any number of resets and failures.
THEOREM ProxyIsFaithful == TcpSpec => []StreamsFaithful
<1>1. TcpInv => StreamsFaithful
  <2> SUFFICES ASSUME TcpInv PROVE StreamsFaithful
    OBVIOUS
  <2>1. TcpTypes /\ HeaderRead /\ Flows /\ Ending
    BY DEF TcpInv
  <2>2. ASSUME NEW d \in Dirs PROVE Len(got[d]) <= sent[d] /\ got[d] = [i \in 1..Len(got[d]) |-> <<i>>]
    <3> DEFINE g == got[d]  x == Data(4 - EndHop(d), d)
    <3>1. g \in Seq(Contents) /\ x \in Seq(Contents) /\ sent[d] \in Nat
      BY <2>1, Places, FlowTypes DEF FlowTyped
    <3>2. Len(g) + Len(x) <= sent[d] /\ \A i \in 1..Len(g) : g[i] = <<i>>
      BY <2>1 DEF Flows, FlowOf, Flow
    <3>3. g = [i \in 1..Len(g) |-> g[i]]
      <4> HIDE DEF g
      <4>1. g \in [1..Len(g) -> Contents]
        BY <3>1, LenProperties
      <4> QED BY <4>1, Zenon
    <3>4. Len(g) <= sent[d]
      <4> DEFINE p == Len(g)  q == Len(x)  n == sent[d]
      <4>1. p \in Nat /\ q \in Nat /\ n \in Nat /\ p + q <= n
        <5>1. p + q <= n
          BY <3>2
        <5>2. p \in Nat /\ q \in Nat /\ n \in Nat
          <6> HIDE DEF g, x
          <6> QED BY <3>1
        <5> QED BY <5>1, <5>2
      <4> HIDE DEF p, q, n
      <4>2. p <= n
        BY <4>1
      <4> QED BY <4>2 DEF p, n
    <3> QED BY <3>2, <3>3, <3>4
  <2>3. ASSUME NoTransferFailed, NEW d \in ended PROVE d \in shut /\ Len(got[d]) = sent[d]
    BY <2>1, <2>3 DEF TcpTypes, Ending, EndOf
  <2> QED BY <2>1, <2>2, <2>3 DEF StreamsFaithful, HeaderRead
<1> QED BY <1>1, ProxyInvariance, PTL

-----------------------------------------------------------------------------
(* The raw proxies: rows of packets                                        *)

-----------------------------------------------------------------------------
(* The raw proxies: rows of packets                                        *)

Pieces == Nat \X Nat

\* s is a row of packets with ids up to top, in the order of their ids, the first from its
\* first piece on, each whole except where the row ends.
Row(s, top) ==
  /\ \A b \in 1..Len(s) : /\ s[b][1] \in 1..top /\ s[b][2] \in 1..Packets[s[b][1]].pieces
                          /\ s[b][2] <= b
  /\ \A b \in 1..Len(s) : \A m \in 1..Packets[s[b][1]].pieces :
       b - s[b][2] + m \in 1..Len(s) => s[b - s[b][2] + m] = <<s[b][1], m>>
  /\ \A a, b \in 1..Len(s) :
       a < b => s[a][1] < s[b][1] \/ (s[a][1] = s[b][1] /\ s[a][2] < s[b][2])

\* The last packet of the row is whole, too.
WholeRow(s) == \A b \in 1..Len(s) : b - s[b][2] + Packets[s[b][1]].pieces <= Len(s)

\* A packet is known and has a first piece.
LEMMA PacketTypes ==
  ASSUME NEW i \in 1..Len(Packets)
  PROVE  Packets[i].pieces \in Nat \ {0} /\ Packets[i].dst \in Octets
<1>1. Packets[i] \in [src : Octets, dst : Octets, port : Nat, pieces : Nat \ {0}]
  BY RawAssumption, ElementOfSeq
<1> QED BY <1>1

\* The pieces of a packet.
LEMMA FrameProperties ==
  ASSUME NEW i \in 1..Len(Packets)
  PROVE  /\ Frame(i) \in Seq(Pieces) /\ Len(Frame(i)) = Packets[i].pieces
         /\ Len(Frame(i)) \in Nat \ {0} /\ Frame(i) # <<>> /\ Frame(i)[1] = <<i, 1>>
         /\ \A n \in 1..Packets[i].pieces : Frame(i)[n] = <<i, n>>
         /\ Of(Frame(i)) = {i}
<1> DEFINE p == Packets[i].pieces
<1>1. p \in Nat \ {0} /\ i \in Nat
  BY PacketTypes, RawAssumption
<1>2. Frame(i) = [n \in 1..p |-> <<i, n>>]
  BY DEF Frame
<1> HIDE DEF p
<1>3. Frame(i) \in Seq(Pieces) /\ Len(Frame(i)) = p
  <2>1. \A n \in 1..p : <<i, n>> \in Pieces
    BY <1>1 DEF Pieces
  <2>2. Frame(i) \in [1..p -> Pieces]
    BY <1>2, <2>1
  <2> QED BY <2>2, <1>1
<1>4. \A n \in 1..p : Frame(i)[n] = <<i, n>>
  BY <1>2
<1>5. 1 \in 1..p
  BY <1>1
<1>6. Frame(i) # <<>>
  BY <1>1, <1>3, EmptySeq
<1>7. Of(Frame(i)) = {i}
  BY <1>3, <1>4, <1>5 DEF Of
<1> QED BY <1>1, <1>3, <1>4, <1>5, <1>6, <1>7 DEF p

\* A sequence and what follows it.
LEMMA Joined ==
  ASSUME NEW S, NEW s \in Seq(S), NEW t \in Seq(S)
  PROVE  /\ s \o t \in Seq(S) /\ Len(s \o t) = Len(s) + Len(t) /\ Len(s) \in Nat /\ Len(t) \in Nat
         /\ \A b \in 1..Len(s) : (s \o t)[b] = s[b] /\ b \in 1..Len(s \o t)
         /\ \A b \in 1..Len(t) : (s \o t)[Len(s) + b] = t[b] /\ Len(s) + b \in 1..Len(s \o t)
         /\ \A b \in 1..Len(s \o t) : b \in 1..Len(s) \/ \E a \in 1..Len(t) : b = Len(s) + a
<1>1. /\ s \o t \in Seq(S) /\ Len(s \o t) = Len(s) + Len(t) /\ Len(s) \in Nat /\ Len(t) \in Nat
      /\ \A b \in 1..(Len(s) + Len(t)) : (s \o t)[b] = IF b <= Len(s) THEN s[b] ELSE t[b - Len(s)]
  BY ConcatProperties
<1>2. \A m, n \in Nat : \A b \in 1..(m + n) : b \in 1..m \/ (b - m \in 1..n /\ b = m + (b - m))
  OBVIOUS
<1>3. \A m, n \in Nat : /\ \A b \in 1..m : b \in 1..(m + n) /\ b <= m
                        /\ \A b \in 1..n : m + b \in 1..(m + n) /\ ~(m + b <= m) /\ m + b - m = b
  OBVIOUS
<1> QED BY <1>1, <1>2, <1>3

\* The packets of a sequence and of what follows it.
LEMMA OfJoined ==
  ASSUME NEW s \in Seq(Pieces), NEW t \in Seq(Pieces)
  PROVE  Of(s \o t) = Of(s) \cup Of(t)
<1> DEFINE r == s \o t
<1>1. /\ \A b \in 1..Len(s) : r[b] = s[b] /\ b \in 1..Len(r)
      /\ \A b \in 1..Len(t) : r[Len(s) + b] = t[b] /\ Len(s) + b \in 1..Len(r)
      /\ \A b \in 1..Len(r) : b \in 1..Len(s) \/ \E a \in 1..Len(t) : b = Len(s) + a
  BY Joined, SMTT(30)
<1> HIDE DEF r
<1>2. ASSUME NEW b \in 1..Len(s) PROVE s[b][1] \in Of(r)
  BY <1>1 DEF Of
<1>3. ASSUME NEW b \in 1..Len(t) PROVE t[b][1] \in Of(r)
  <2>1. r[Len(s) + b] = t[b] /\ Len(s) + b \in 1..Len(r)
    BY <1>1
  <2> QED BY <2>1 DEF Of
<1>4. ASSUME NEW b \in 1..Len(r) PROVE r[b][1] \in Of(s) \cup Of(t)
  <2>1. CASE b \in 1..Len(s)
    BY <2>1, <1>1 DEF Of
  <2>2. ASSUME NEW a \in 1..Len(t), b = Len(s) + a PROVE r[b][1] \in Of(t)
    <3>1. r[b] = t[a]
      BY <2>2, <1>1
    <3> QED BY <3>1 DEF Of
  <2> QED BY <2>1, <2>2, <1>1
<1>5. Of(r) = {r[b][1] : b \in 1..Len(r)} /\ Of(s) = {s[b][1] : b \in 1..Len(s)} /\ Of(t) = {t[b][1] : b \in 1..Len(t)}
  BY DEF Of
<1>6. Of(s) \subseteq Of(r) /\ Of(t) \subseteq Of(r)
  BY <1>2, <1>3, <1>5
<1>7. Of(r) \subseteq Of(s) \cup Of(t)
  BY <1>4, <1>5
<1> QED BY <1>6, <1>7 DEF r

\* The packets of a part of a sequence.
LEMMA OfPart ==
  ASSUME NEW s \in Seq(Pieces), NEW t \in Seq(Pieces),
         \A b \in 1..Len(t) : \E a \in 1..Len(s) : t[b] = s[a]
  PROVE  Of(t) \subseteq Of(s)
BY DEF Of

\* Nothing holds no packet.
LEMMA OfEmpty == Of(<<>>) = {} /\ <<>> \in Seq(Pieces) /\ Len(<<>>) = 0
BY DEF Of

\* The piece that is read next.
LEMMA HeadParts ==
  ASSUME NEW d \in Seq(Pieces), d # <<>>
  PROVE  /\ Head(d) \in Pieces /\ Tail(d) \in Seq(Pieces) /\ <<Head(d)>> \in Seq(Pieces)
         /\ Head(d) = d[1] /\ 1 \in 1..Len(d)
<1>1. Head(d) \in Pieces /\ Tail(d) \in Seq(Pieces) /\ Len(d) \in Nat /\ Len(d) # 0 /\ Head(d) = d[1]
  BY HeadTailProperties, EmptySeq
<1>2. 1 \in 1..Len(d) /\ <<Head(d)>> \in Seq(Pieces)
  BY <1>1
<1> QED BY <1>1, <1>2

\* It and the rest are the whole.
LEMMA HeadWhole ==
  ASSUME NEW d \in Seq(Pieces), d # <<>>
  PROVE  <<Head(d)>> \o Tail(d) = d
<1>1. Len(d) \in Nat /\ Len(d) # 0 /\ Head(d) = d[1]
  BY HeadTailProperties, EmptySeq
<1>2. 1 \in 1..Len(d) /\ Len(d) \in 1..Len(d)
  BY <1>1
<1>3. Tail(d) = SubSeq(d, 2, Len(d)) /\ d = SubSeq(d, 1, Len(d))
  BY TailIsSubSeq, SubSeqFull
<1>4. SubSeq(d, 1, Len(d)) = <<d[1]>> \o SubSeq(d, 1 + 1, Len(d))
  BY <1>2, SubSeqRecursiveFirst
<1> QED BY <1>1, <1>3, <1>4

\* Where a line is cut in two does not matter.
LEMMA Regrouped ==
  ASSUME NEW d \in Seq(Pieces), NEW u \in Seq(Pieces), NEW v \in Seq(Pieces)
  PROVE  (d \o u) \o v = d \o (u \o v)
BY ConcatAssociative

\* The parts of what the sender has in its hand.
LEMMA CutParts ==
  ASSUME NEW h \in Seq(Pieces), NEW k \in 1..Len(h)
  PROVE  /\ SubSeq(h, 1, k) \in Seq(Pieces) /\ SubSeq(h, k + 1, Len(h)) \in Seq(Pieces)
         /\ k = Len(h) => SubSeq(h, k + 1, Len(h)) = <<>>
<1>0. Len(h) \in Nat /\ k \in Nat
  OBVIOUS
<1>1. SubSeq(h, 1, k) \in Seq(Pieces)
  <2>1. \A i \in 1..k : h[i] \in Pieces
    BY <1>0
  <2> QED BY <2>1, <1>0, SubSeqProperties
<1>2. SubSeq(h, k + 1, Len(h)) \in Seq(Pieces)
  <2>1. \A i \in (k + 1)..Len(h) : h[i] \in Pieces
    BY <1>0
  <2> QED BY <2>1, <1>0, SubSeqProperties
<1>3. k = Len(h) => SubSeq(h, k + 1, Len(h)) = <<>>
  BY <1>0, SubSeqEmpty
<1> QED BY <1>1, <1>2, <1>3

\* They are the whole.
LEMMA CutWhole ==
  ASSUME NEW h \in Seq(Pieces), NEW k \in 1..Len(h)
  PROVE  SubSeq(h, 1, k) \o SubSeq(h, k + 1, Len(h)) = h
<1>0. Len(h) \in Nat /\ k \in Nat
  OBVIOUS
<1>1. 1 \in 1..(Len(h) + 1) /\ k \in (1 - 1)..Len(h) /\ Len(h) \in k..Len(h)
  BY <1>0
<1>2. SubSeq(h, 1, k) \o SubSeq(h, k + 1, Len(h)) = SubSeq(h, 1, Len(h))
  BY <1>1, ConcatAdjacentSubSeq
<1> QED BY <1>2, SubSeqFull

\* What is known of a packet that has arrived.
LEMMA ArrivedId ==
  ASSUME NEW top \in Nat, top <= Len(Packets), NEW i \in 1..top
  PROVE  i \in 1..Len(Packets) /\ i \in Nat /\ Packets[i].pieces \in Nat \ {0}
<1>1. Len(Packets) \in Nat
  BY RawAssumption
<1>2. i \in 1..Len(Packets)
  BY <1>1
<1> QED BY <1>2, PacketTypes

\* A row, piece by piece.
LEMMA RowAt ==
  ASSUME NEW top \in Nat, top <= Len(Packets), NEW s \in Seq(Pieces), Row(s, top),
         NEW b \in 1..Len(s)
  PROVE  /\ s[b][1] \in 1..top /\ s[b][1] \in Nat /\ s[b][2] \in Nat
         /\ 1 <= s[b][2] /\ s[b][2] <= Packets[s[b][1]].pieces /\ s[b][2] <= b
         /\ Packets[s[b][1]].pieces \in Nat /\ b \in Nat
         /\ \A m \in 1..Packets[s[b][1]].pieces :
              b - s[b][2] + m \in 1..Len(s) => s[b - s[b][2] + m] = <<s[b][1], m>>
         /\ \A a \in 1..Len(s) : a < b => s[a][1] < s[b][1] \/ (s[a][1] = s[b][1] /\ s[a][2] < s[b][2])
<1>1. s[b][1] \in 1..top /\ s[b][2] \in 1..Packets[s[b][1]].pieces /\ s[b][2] <= b
  BY DEF Row
<1>2. s[b][1] \in Nat /\ Packets[s[b][1]].pieces \in Nat
  BY <1>1, ArrivedId
<1>3. s[b][2] \in Nat /\ 1 <= s[b][2] /\ s[b][2] <= Packets[s[b][1]].pieces /\ b \in Nat
  BY <1>1, <1>2
<1>4. /\ \A m \in 1..Packets[s[b][1]].pieces :
              b - s[b][2] + m \in 1..Len(s) => s[b - s[b][2] + m] = <<s[b][1], m>>
      /\ \A a \in 1..Len(s) : a < b => s[a][1] < s[b][1] \/ (s[a][1] = s[b][1] /\ s[a][2] < s[b][2])
  BY DEF Row
<1> QED BY <1>1, <1>2, <1>3, <1>4

\* A row is cut.
LEMMA RowCut ==
  ASSUME NEW top \in Nat, top <= Len(Packets), NEW s \in Seq(Pieces), Row(s, top),
         NEW t \in Seq(Pieces), Len(t) <= Len(s), \A b \in 1..Len(t) : t[b] = s[b]
  PROVE  Row(t, top) /\ Of(t) \subseteq Of(s)
<1>1. Len(s) \in Nat /\ Len(t) \in Nat
  OBVIOUS
<1>2. \A b \in 1..Len(t) : b \in 1..Len(s) /\ t[b] = s[b]
  BY <1>1
<1>3. ASSUME NEW b \in 1..Len(t), NEW m \in 1..Packets[t[b][1]].pieces,
             b - t[b][2] + m \in 1..Len(t)
      PROVE  t[b - t[b][2] + m] = <<t[b][1], m>>
  <2> DEFINE k == b - t[b][2] + m
  <2>1. b \in 1..Len(s) /\ t[b] = s[b] /\ k \in 1..Len(s) /\ t[k] = s[k]
    BY <1>2, <1>3
  <2>2. \A j \in 1..Packets[s[b][1]].pieces :
          b - s[b][2] + j \in 1..Len(s) => s[b - s[b][2] + j] = <<s[b][1], j>>
    BY <2>1, RowAt, Zenon
  <2>3. \A j \in 1..Packets[t[b][1]].pieces :
          b - t[b][2] + j \in 1..Len(s) => s[b - t[b][2] + j] = <<t[b][1], j>>
    BY <2>1, <2>2, Zenon
  <2> QED BY <2>1, <2>3
<1>4. Row(t, top)
  <2>1. \A b \in 1..Len(t) : /\ t[b][1] \in 1..top /\ t[b][2] \in 1..Packets[t[b][1]].pieces
                             /\ t[b][2] <= b
    BY <1>2 DEF Row
  <2>2. \A a, b \in 1..Len(t) :
          a < b => t[a][1] < t[b][1] \/ (t[a][1] = t[b][1] /\ t[a][2] < t[b][2])
    <3>1. \A a, b \in 1..Len(s) :
            a < b => s[a][1] < s[b][1] \/ (s[a][1] = s[b][1] /\ s[a][2] < s[b][2])
      BY DEF Row
    <3> QED BY <3>1, <1>2, SMTT(30)
  <2> QED BY <1>3, <2>1, <2>2 DEF Row
<1>5. Of(t) \subseteq Of(s)
  BY <1>2, OfPart
<1> QED BY <1>4, <1>5

\* More packets arrive.
LEMMA RowLater ==
  ASSUME NEW top \in Nat, NEW s \in Seq(Pieces), Row(s, top)
  PROVE  Row(s, top + 1)
<1>1. \A b \in 1..Len(s) : s[b][1] \in 1..(top + 1)
  BY DEF Row
<1> QED BY <1>1 DEF Row

\* The packets of a row have arrived.
LEMMA RowIds ==
  ASSUME NEW top, NEW s \in Seq(Pieces), Row(s, top)
  PROVE  Of(s) \subseteq 1..top
BY DEF Row, Of

\* A row of whole packets is followed by another.
LEMMA RowGrows ==
  ASSUME NEW top \in Nat, top <= Len(Packets), NEW s \in Seq(Pieces), Row(s, top), WholeRow(s),
         NEW i \in 1..top, \A j \in Of(s) : j < i
  PROVE  Row(s \o Frame(i), top) /\ WholeRow(s \o Frame(i)) /\ Of(s \o Frame(i)) = Of(s) \cup {i}
<1> DEFINE f == Frame(i)  t == s \o f  L == Len(s)  p == Packets[i].pieces
<1>1. /\ i \in 1..Len(Packets) /\ i \in Nat /\ Len(Packets) \in Nat
  BY RawAssumption
<1>2. /\ f \in Seq(Pieces) /\ Len(f) = p /\ p \in Nat \ {0}
      /\ \A n \in 1..p : f[n] = <<i, n>>
      /\ Of(f) = {i}
  BY <1>1, FrameProperties
<1> HIDE DEF f, p
<1>3. /\ t \in Seq(Pieces) /\ Len(t) = L + p /\ L \in Nat
      /\ \A b \in 1..L : t[b] = s[b]
      /\ \A b \in 1..p : t[L + b] = <<i, b>>
      /\ \A b \in 1..(L + p) : b \in 1..L \/ \E a \in 1..p : b = L + a
  <2>1. /\ t \in Seq(Pieces) /\ Len(t) = L + Len(f) /\ L \in Nat
        /\ \A b \in 1..L : t[b] = s[b]
        /\ \A b \in 1..Len(f) : t[L + b] = f[b]
        /\ \A b \in 1..Len(t) : b \in 1..L \/ \E a \in 1..Len(f) : b = L + a
    <3>1. f \in Seq(Pieces) /\ s \in Seq(Pieces)
      BY <1>2
    <3> DEFINE g == s \o f
    <3>2. /\ g \in Seq(Pieces) /\ Len(g) = Len(s) + Len(f) /\ Len(s) \in Nat
          /\ \A b \in 1..Len(s) : g[b] = s[b]
          /\ \A b \in 1..Len(f) : g[Len(s) + b] = f[b]
          /\ \A b \in 1..Len(g) : b \in 1..Len(s) \/ \E a \in 1..Len(f) : b = Len(s) + a
      BY <3>1, Joined, SMTT(60)
    <3> QED BY <3>2
  <2> QED BY <1>2, <2>1
<1>4. Of(t) = Of(s) \cup {i}
  BY <1>2, OfJoined
<1> HIDE DEF t, L
<1>5. \A b \in 1..L : /\ s[b][1] \in 1..top /\ s[b][2] \in 1..Packets[s[b][1]].pieces
                      /\ s[b][2] <= b /\ s[b][1] < i
  <2>1. \A b \in 1..L : s[b][1] \in Of(s)
    BY DEF Of, L
  <2>2. \A b \in 1..L : /\ s[b][1] \in 1..top /\ s[b][2] \in 1..Packets[s[b][1]].pieces
                         /\ s[b][2] <= b
    BY DEF Row, L
  <2> QED BY <2>1, <2>2
<1>6. \A b \in 1..p : <<i, b>>[1] = i /\ <<i, b>>[2] = b
  OBVIOUS
<1>7. ASSUME NEW b \in 1..(L + p)
      PROVE  /\ t[b][1] \in 1..top /\ t[b][2] \in 1..Packets[t[b][1]].pieces /\ t[b][2] <= b
             /\ b - t[b][2] + Packets[t[b][1]].pieces <= L + p
             /\ \A m \in 1..Packets[t[b][1]].pieces :
                  b - t[b][2] + m \in 1..(L + p) => t[b - t[b][2] + m] = <<t[b][1], m>>
  <2>1. CASE b \in 1..L
    <3>1. t[b] = s[b]
      BY <2>1, <1>3
    <3> DEFINE q == Packets[s[b][1]].pieces
    <3>2. q \in Nat \ {0} /\ s[b][2] \in 1..q /\ s[b][2] <= b
      <4>1. s[b][1] \in 1..Len(Packets)
        BY <2>1, <1>1, <1>5
      <4> QED BY <2>1, <4>1, <1>5, PacketTypes
    <3>3. b - s[b][2] + q <= L
      BY <2>1 DEF WholeRow, L
    <3>4. \A m \in 1..q : b - s[b][2] + m \in 1..L => s[b - s[b][2] + m] = <<s[b][1], m>>
      BY <2>1 DEF Row, L
    <3> HIDE DEF q
    <3> DEFINE n == s[b][2]
    <3>5. \A m \in 1..q : b - n + m \in 1..L
      <4>1. n \in Nat /\ n <= b /\ b - n + q <= L /\ b \in Nat /\ L \in Nat /\ q \in Nat
        BY <3>2, <3>3, <1>3
      <4> HIDE DEF n
      <4> QED BY <4>1
    <3>6. \A m \in 1..q : t[b - s[b][2] + m] = <<s[b][1], m>>
      BY <3>4, <3>5, <1>3
    <3>7. b - s[b][2] + q <= L + p
      BY <3>2, <3>3, <1>2, <1>3, SMTT(30)
    <3> QED BY <2>1, <3>1, <3>2, <3>6, <3>7, <1>5 DEF q
  <2>2. CASE b \notin 1..L
    <3>1. PICK a \in 1..p : b = L + a
      BY <2>2, <1>3
    <3>2. t[b] = <<i, a>> /\ t[b][1] = i /\ t[b][2] = a
      BY <3>1, <1>3, <1>6
    <3>3. Packets[t[b][1]].pieces = p
      BY <3>2 DEF p
    <3>4. \A m \in 1..p : b - a + m = L + m
      BY <3>1, <1>2, <1>3
    <3>5. a <= b /\ b - a + p <= L + p
      BY <3>1, <1>2, <1>3
    <3>6. \A m \in 1..p : t[b - a + m] = <<i, m>>
      BY <3>4, <1>3
    <3> QED BY <3>2, <3>3, <3>5, <3>6
  <2> QED BY <2>1, <2>2
<1>8. ASSUME NEW a \in 1..(L + p), NEW b \in 1..(L + p), a < b
      PROVE  t[a][1] < t[b][1] \/ (t[a][1] = t[b][1] /\ t[a][2] < t[b][2])
  <2>1. CASE b \in 1..L
    <3>1. a \in 1..L
      BY <2>1, <1>2, <1>3, <1>8
    <3>2. s[a][1] < s[b][1] \/ (s[a][1] = s[b][1] /\ s[a][2] < s[b][2])
      <4>1. a \in 1..Len(s) /\ b \in 1..Len(s)
        BY <2>1, <3>1 DEF L
      <4> QED BY <4>1, <1>8 DEF Row
    <3>3. t[a] = s[a] /\ t[b] = s[b]
      BY <2>1, <3>1, <1>3
    <3> QED BY <3>2, <3>3
  <2>2. CASE b \notin 1..L /\ a \in 1..L
    <3>1. PICK c \in 1..p : b = L + c
      BY <2>2, <1>3
    <3> QED BY <2>2, <3>1, <1>3, <1>5, <1>6
  <2>3. CASE b \notin 1..L /\ a \notin 1..L
    <3>1. PICK c \in 1..p : b = L + c
      BY <2>3, <1>3
    <3>2. PICK e \in 1..p : a = L + e
      BY <2>3, <1>3
    <3>3. e < c
      BY <3>1, <3>2, <1>2, <1>3, <1>8
    <3> QED BY <3>1, <3>2, <3>3, <1>3, <1>6
  <2> QED BY <2>1, <2>2, <2>3
<1>9. Row(t, top)
  BY <1>3, <1>7, <1>8 DEF Row
<1>10. WholeRow(t)
  BY <1>3, <1>7 DEF WholeRow
<1> QED BY <1>4, <1>9, <1>10 DEF t, f

\* The first packet of a row is taken off.
LEMMA RowPops ==
  ASSUME NEW top \in Nat, top <= Len(Packets), NEW u \in Seq(Pieces), NEW t \in Seq(Pieces),
         Row(u \o t, top), u # <<>>, u[1][2] = 1 => Len(u) = Packets[u[1][1]].pieces
  PROVE  /\ u = Frame(u[1][1]) /\ u[1][1] \in 1..top
         /\ Row(t, top) /\ \A j \in Of(t) : u[1][1] < j
         /\ WholeRow(u \o t) => WholeRow(t)
<1> DEFINE s == u \o t  P == Len(u)  N == Len(t)  i == u[1][1]
<1>1. /\ s \in Seq(Pieces) /\ Len(s) = P + N /\ P \in Nat /\ N \in Nat
      /\ \A b \in 1..P : s[b] = u[b]
      /\ \A b \in 1..N : s[P + b] = t[b]
  BY Joined
<1>2. P # 0
  BY EmptySeq
<1> HIDE DEF s, P, N
<1>3. Row(s, top)
  BY DEF s
<1>4. 1 \in 1..(P + N) /\ 1 \in 1..P /\ P \in 1..(P + N) /\ P \in 1..P
  BY <1>1, <1>2
<1>5. s[1] = u[1] /\ i \in 1..top /\ i \in 1..Len(Packets) /\ i \in Nat /\ Packets[i].pieces \in Nat \ {0}
  <2>1. s[1] = u[1]
    BY <1>1, <1>4
  <2>2. i \in 1..top
    BY <2>1, <1>1, <1>3, <1>4, RowAt
  <2> QED BY <2>1, <2>2, ArrivedId
<1>7. s[1][2] = 1 /\ P = Packets[i].pieces
  <2>1. s[1][2] \in Nat /\ 1 <= s[1][2] /\ s[1][2] <= 1
    BY <1>1, <1>3, <1>4, RowAt
  <2>2. s[1][2] = 1
    BY <2>1
  <2> QED BY <2>2, <1>5 DEF P
<1> HIDE DEF i
<1>8. \A m \in 1..P : s[m] = <<i, m>> /\ u[m] = <<i, m>>
  <2> SUFFICES ASSUME NEW m \in 1..P PROVE s[m] = <<i, m>> /\ u[m] = <<i, m>>
    OBVIOUS
  <2>1. 1 - 1 + m = m /\ m \in 1..(P + N)
    BY <1>1
  <2>2. \A k \in 1..Packets[s[1][1]].pieces : 1 - s[1][2] + k \in 1..Len(s) => s[1 - s[1][2] + k] = <<s[1][1], k>>
    <3>1. 1 \in 1..Len(s) /\ s \in Seq(Pieces)
      BY <1>1, <1>4
    <3> QED BY <3>1, <1>3, RowAt, Zenon
  <2>3. s[1][1] = i /\ s[1][2] = 1 /\ Packets[i].pieces = P
    BY <1>5, <1>7 DEF i
  <2>4. s[m] = <<i, m>>
    BY <2>1, <2>2, <2>3, <1>1
  <2> QED BY <2>4, <1>1
<1>9. u = Frame(i)
  <2>1. /\ Frame(i) \in Seq(Pieces) /\ Len(Frame(i)) = P
        /\ \A m \in 1..P : Frame(i)[m] = <<i, m>>
    BY <1>5, <1>7, FrameProperties
  <2> QED BY <2>1, <1>8, SeqEqual DEF P
<1>10. s[P][1] = i /\ s[P][2] = P
  BY <1>8, <1>4
<1>11. ASSUME NEW b \in 1..N, NEW c, c = P + b
       PROVE  /\ c \in 1..Len(s) /\ c \in Nat /\ b \in Nat /\ s[c] = t[b]
              /\ t[b][1] \in 1..top /\ i < t[b][1]
              /\ t[b][2] \in Nat /\ Packets[t[b][1]].pieces \in Nat
              /\ 1 <= t[b][2] /\ t[b][2] <= Packets[t[b][1]].pieces /\ t[b][2] <= b
  <2> DEFINE n == t[b][2]  q == Packets[t[b][1]].pieces
  <2>1. c \in 1..Len(s) /\ s[c] = t[b] /\ P < c /\ b \in Nat /\ c \in Nat /\ P \in 1..Len(s) /\ s \in Seq(Pieces)
    <3>1. P \in Nat /\ N \in Nat /\ Len(s) = P + N /\ s \in Seq(Pieces) /\ s[P + b] = t[b] /\ c = P + b
      BY <1>1, <1>11
    <3>2. P \in 1..Len(s)
      BY <1>1, <1>4
    <3> HIDE DEF P, N, s
    <3>3. P + b \in 1..(P + N) /\ P < P + b /\ b \in Nat /\ P + b \in Nat
      BY <3>1, SMTT(30)
    <3> QED BY <3>1, <3>2, <3>3
  <2>2. /\ s[c][1] \in 1..top /\ s[c][1] \in Nat /\ s[c][2] \in Nat
        /\ 1 <= s[c][2] /\ s[c][2] <= Packets[s[c][1]].pieces /\ Packets[s[c][1]].pieces \in Nat
    BY <2>1, <1>3, RowAt, Zenon
  <2>3. t[b][1] \in 1..top /\ t[b][1] \in Nat /\ n \in Nat /\ 1 <= n /\ n <= q /\ q \in Nat
    BY <2>1, <2>2, Zenon
  <2> HIDE DEF n, q
  <2>4. i < t[b][1]
    <3>1. s[P][1] < s[c][1] \/ (s[P][1] = s[c][1] /\ s[P][2] < s[c][2])
      BY <2>1, <1>3 DEF Row
    <3>2. i < t[b][1] \/ (i = t[b][1] /\ P < n)
      BY <2>1, <3>1, <1>10 DEF n
    <3>3. i = t[b][1] => q = P
      BY <1>7 DEF q
    <3> QED BY <3>2, <3>3, <2>3, <1>1
  <2>5. n <= b
    <3> SUFFICES ASSUME ~(n <= b) PROVE FALSE
      OBVIOUS
    <3> DEFINE m == n - b
    <3>1. m \in 1..q /\ c - n + m = P
      <4>1. n \in Nat /\ b \in Nat /\ q \in Nat /\ P \in Nat /\ n <= q /\ c = P + b /\ 1 <= b
        BY <2>1, <2>3, <1>1, <1>11
      <4> QED BY <4>1
    <3> HIDE DEF m
    <3>2. m \in 1..Packets[s[c][1]].pieces /\ c - s[c][2] + m = P
      BY <3>1, <2>1 DEF n, q
    <3>3. c - s[c][2] + m \in 1..Len(s) => s[c - s[c][2] + m] = <<s[c][1], m>>
      BY <3>2, <2>1, <1>3 DEF Row
    <3>4. s[P] = <<s[c][1], m>>
      BY <3>2, <3>3, <2>1
    <3>5. s[P][1] = t[b][1]
      BY <3>4, <2>1
    <3> QED BY <3>5, <1>10, <2>3, <2>4, <1>5
  <2> QED BY <2>1, <2>3, <2>4, <2>5 DEF n, q
<1>12. Row(t, top)
  <2>1. ASSUME NEW b \in 1..N
        PROVE  /\ t[b][1] \in 1..top /\ t[b][2] \in 1..Packets[t[b][1]].pieces /\ t[b][2] <= b
               /\ \A m \in 1..Packets[t[b][1]].pieces :
                    b - t[b][2] + m \in 1..N => t[b - t[b][2] + m] = <<t[b][1], m>>
    <3> DEFINE n == t[b][2]  q == Packets[t[b][1]].pieces  c == P + b
    <3>1. /\ t[b][1] \in 1..top /\ n \in Nat /\ q \in Nat /\ 1 <= n /\ n <= q /\ n <= b /\ b \in Nat
          /\ c \in 1..Len(s) /\ s[c] = t[b]
      BY <1>11
    <3> HIDE DEF n, q
    <3>2. ASSUME NEW m \in 1..q, b - n + m \in 1..N PROVE t[b - n + m] = <<t[b][1], m>>
      <4>1. c - n + m = P + (b - n + m) /\ c - n + m \in 1..Len(s)
        BY <3>1, <3>2, <1>1
      <4>2. s[P + (b - n + m)] = t[b - n + m]
        BY <3>2, <1>1
      <4>3. s[c - n + m] = <<t[b][1], m>>
        <5> HIDE DEF c
        <5>1. m \in 1..Packets[s[c][1]].pieces /\ s[c][2] = n
          BY <3>1 DEF n, q
        <5>2. c - s[c][2] + m \in 1..Len(s) => s[c - s[c][2] + m] = <<s[c][1], m>>
          BY <5>1, <3>1, <1>3 DEF Row
        <5> QED BY <5>1, <5>2, <4>1, <3>1
      <4> QED BY <4>1, <4>2, <4>3
    <3>3. n \in 1..q
      BY <3>1
    <3> QED BY <3>1, <3>2, <3>3 DEF n, q
  <2>2. ASSUME NEW a \in 1..N, NEW b \in 1..N, a < b
        PROVE  t[a][1] < t[b][1] \/ (t[a][1] = t[b][1] /\ t[a][2] < t[b][2])
    <3> DEFINE c == P + b  d == P + a
    <3>1. d < c /\ d \in 1..Len(s) /\ s[d] = t[a] /\ c \in 1..Len(s) /\ s[c] = t[b]
      BY <2>2, <1>1
    <3> HIDE DEF c, d
    <3>2. s[d][1] < s[c][1] \/ (s[d][1] = s[c][1] /\ s[d][2] < s[c][2])
      BY <3>1, <1>3 DEF Row
    <3> QED BY <3>1, <3>2
  <2> QED BY <2>1, <2>2 DEF Row, N
<1>13. \A j \in Of(t) : i < j
  <2>1. \A b \in 1..N : i < t[b][1]
    BY <1>11
  <2> QED BY <2>1 DEF Of, N
<1>14. ASSUME WholeRow(s) PROVE WholeRow(t)
  <2> SUFFICES ASSUME NEW b \in 1..N PROVE b - t[b][2] + Packets[t[b][1]].pieces <= N
    BY DEF WholeRow, N
  <2> DEFINE n == t[b][2]  q == Packets[t[b][1]].pieces  c == P + b
  <2> HIDE DEF c
  <2>1. c = P + b
    BY DEF c
  <2>2. n \in Nat /\ q \in Nat /\ b \in Nat /\ c \in 1..Len(s) /\ s[c] = t[b]
    BY <2>1, <1>11, Zenon
  <2>3. c - s[c][2] + Packets[s[c][1]].pieces <= Len(s)
    BY <2>2, <1>14 DEF WholeRow
  <2>4. c - n + q <= P + N
    BY <2>2, <2>3, <1>1
  <2> HIDE DEF n, q
  <2>5. b - n + q <= N
    BY <2>1, <2>2, <2>4, <1>1
  <2> QED BY <2>5 DEF n, q
<1> QED BY <1>5, <1>9, <1>12, <1>13, <1>14 DEF i, s

-----------------------------------------------------------------------------
(* The raw proxies: the inductive invariant                                *)

Conn == [data : Seq(Pieces), writer : BOOLEAN, reader : BOOLEAN]

\* What is still to come on connection c: what is on its way, and what the sender has left of
\* the packet in its hand as long as the connection takes it.
InHandFor(c) == IF c = sconn /\ conns[c].reader THEN inHand ELSE <<>>
Coming(c) == IF c = 0 THEN <<>> ELSE conns[c].data \o InHandFor(c)

\* What the receiver has and gets on its connection, and what on the one that waits.
Reading == buf \o Coming(rconn)
Waiting == Coming(waiting)

Sent   == {out[n][1][1] : n \in DOMAIN out}

RawTypes ==
  /\ RawTypeOK
  /\ nfqueue \in Seq(Nat) /\ inHand \in Seq(Pieces) /\ buf \in Seq(Pieces)
  /\ conns \in Seq(Conn) /\ out \in Seq(Seq(Pieces))
  /\ Of(inHand) \subseteq 1..arrived

\* Only the newest connection can be open, at both ends, and only the receiver's two
\* connections hold anything.
ConnsInv ==
  /\ sconn = Len(conns)
  /\ \A c \in DOMAIN conns : conns[c].reader => conns[c].writer /\ c = sconn /\ c \in {rconn, waiting}
  /\ waiting # 0 => waiting = sconn /\ rconn # waiting
  /\ \A c \in DOMAIN conns : c \notin {rconn, waiting} => conns[c].data = <<>>
  /\ sender = "vsock" /\ sconn # 0 => ~conns[sconn].reader
  /\ sender \in {"recv", "send", "verdict"} => sconn # 0
  /\ sender = "nfq" => sconn = 0

\* What the two ends have where they are in their loops.
HandsInv ==
  /\ sender # "send" => inHand = <<>>
  /\ receiver # "read" => buf = <<>>
  /\ receiver = "read" => rconn # 0
  /\ receiver = "down" => rconn = 0 /\ waiting = 0
  /\ receiver = "accept" /\ rconn # 0 => conns[rconn].data = <<>> /\ ~conns[rconn].reader

\* The connections carry rows of packets, whole ones as long as they are open.
RowsInv ==
  /\ Row(Reading, arrived) /\ Row(Waiting, arrived)
  /\ rconn # 0 /\ conns[rconn].reader => WholeRow(Reading)
  /\ waiting # 0 /\ conns[waiting].reader => WholeRow(Waiting)

\* Packets keep their order on the whole path: those of a come before those of b, and so on.
Before(A, B) == \A i \in A, j \in B : i < j
InOrder(a, b, c, d) ==
  /\ Before(a, b) /\ Before(a, c) /\ Before(a, d)
  /\ Before(b, c) /\ Before(b, d) /\ Before(c, d)

OrderInv ==
  /\ Queued \subseteq 1..arrived
  /\ \A m, n \in DOMAIN nfqueue : m < n => nfqueue[m] < nfqueue[n]
  /\ InOrder(Sent, Of(Reading), Of(Waiting), Queued)

\* What a connection that was reset still brings is known to have met the fault.
DeadInv ==
  /\ waiting # 0 /\ ~conns[waiting].reader => Of(conns[waiting].data) \subseteq exposed
  /\ rconn # 0 /\ ~conns[rconn].reader =>
       /\ Of(conns[rconn].data) \subseteq exposed
       /\ Of(buf) \subseteq exposed \/ Complete(buf)

RawInv == /\ RawTypes /\ ConnsInv /\ HandsInv /\ RowsInv /\ OrderInv /\ DeadInv
          /\ WholePackets

-----------------------------------------------------------------------------
(* The raw proxies: what the steps have in common                          *)

\* Types of what the lines are made of.
LEMMA LineTypes ==
  ASSUME RawTypes
  PROVE  /\ arrived \in Nat /\ arrived <= Len(Packets) /\ Len(conns) \in Nat
         /\ \A c \in 1..Len(conns) :
              /\ conns[c] \in Conn /\ conns[c].data \in Seq(Pieces)
              /\ conns[c].writer \in BOOLEAN /\ conns[c].reader \in BOOLEAN
         /\ \A c \in 0..Len(conns) : InHandFor(c) \in Seq(Pieces) /\ Coming(c) \in Seq(Pieces)
         /\ Reading \in Seq(Pieces) /\ Waiting \in Seq(Pieces)
         /\ DOMAIN conns = 1..Len(conns)
<1>1. arrived \in Nat /\ arrived <= Len(Packets) /\ Len(conns) \in Nat /\ DOMAIN conns = 1..Len(conns)
  <2>1. Len(Packets) \in Nat
    BY RawAssumption
  <2> QED BY <2>1 DEF RawTypes, RawTypeOK
<1>2. \A c \in 1..Len(conns) : conns[c] \in Conn
  BY DEF RawTypes
<1>3. \A c \in 1..Len(conns) : /\ conns[c].data \in Seq(Pieces)
                               /\ conns[c].writer \in BOOLEAN /\ conns[c].reader \in BOOLEAN
  BY <1>2 DEF Conn
<1>4. ASSUME NEW c \in 0..Len(conns) PROVE InHandFor(c) \in Seq(Pieces) /\ Coming(c) \in Seq(Pieces)
  <2>1. InHandFor(c) \in Seq(Pieces)
    BY OfEmpty DEF InHandFor, RawTypes
  <2>2. CASE c = 0
    BY <2>1, <2>2, OfEmpty DEF Coming
  <2>3. CASE c # 0
    <3>1. conns[c].data \in Seq(Pieces)
      BY <2>3, <1>1, <1>3
    <3>2. conns[c].data \o InHandFor(c) \in Seq(Pieces)
      BY <2>1, <3>1, ConcatProperties
    <3> QED BY <2>1, <2>3, <3>2 DEF Coming
  <2> QED BY <2>2, <2>3
<1>5. rconn \in 0..Len(conns) /\ waiting \in 0..Len(conns) /\ buf \in Seq(Pieces)
  BY DEF RawTypes, RawTypeOK
<1>6. Reading \in Seq(Pieces) /\ Waiting \in Seq(Pieces)
  BY <1>4, <1>5, ConcatProperties DEF Reading, Waiting
<1> QED BY <1>1, <1>2, <1>3, <1>4, <1>6

\* Types of the two connections of the receiver.
LEMMA ConnTypes ==
  ASSUME RawTypes
  PROVE  /\ rconn # 0 => rconn \in 1..Len(conns)
         /\ waiting # 0 => waiting \in 1..Len(conns)
         /\ sconn # 0 => sconn \in 1..Len(conns)
<1>1. Len(conns) \in Nat
  BY LineTypes
<1>2. rconn \in 0..Len(conns) /\ waiting \in 0..Len(conns) /\ sconn \in 0..Len(conns)
  BY DEF RawTypes, RawTypeOK
<1> QED BY <1>1, <1>2

\* The lines are made of these alone.
LEMMA SameLines ==
  ASSUME UNCHANGED <<sconn, inHand, rconn, buf, conns, waiting>>
  PROVE  Reading' = Reading /\ Waiting' = Waiting
BY DEF Reading, Waiting, Coming, InHandFor

\* The order is kept when packets leave it.
LEMMA OrderShrinks ==
  ASSUME NEW a, NEW b, NEW c, NEW d, NEW a1, NEW b1, NEW c1, NEW d1, InOrder(a, b, c, d),
         a1 \subseteq a, b1 \subseteq b, c1 \subseteq c, d1 \subseteq d
  PROVE  InOrder(a1, b1, c1, d1)
BY Zenon DEF InOrder, Before

\* What goes out stays right, and no packet is missing, when all that leaves the path has met
\* a fault.
LEMMA WholeKeeps ==
  ASSUME WholePackets, UNCHANGED <<path, arrived, out>>, exposed \subseteq exposed',
         InTransit \subseteq InTransit' \cup exposed'
  PROVE  WholePackets'
<1>1. \A p : Allowed(p)' <=> Allowed(p)
  BY DEF Allowed
<1>2. (\A n \in DOMAIN out : out[n] # <<>> /\ out[n][1][1] \in 1..arrived /\ out[n] = Frame(out[n][1][1]))'
  BY DEF WholePackets
<1>5. (\A n \in DOMAIN out : Allowed(Packets[out[n][1][1]]))'
  BY <1>1 DEF WholePackets
<1>3. \A m, n \in DOMAIN out' : m < n => out'[m][1][1] < out'[n][1][1]
  BY DEF WholePackets
<1>4. ASSUME NEW i \in 1..arrived', Allowed(Packets[i])', i \notin exposed'
      PROVE  i \in InTransit' \/ \E n \in DOMAIN out' : out'[n] = Frame(i)
  <2>1. i \in 1..arrived /\ Allowed(Packets[i]) /\ i \notin exposed
    BY <1>1, <1>4
  <2>2. i \in InTransit \/ \E n \in DOMAIN out : out[n] = Frame(i)
    BY <2>1 DEF WholePackets
  <2> QED BY <1>4, <2>2
<1> QED BY <1>2, <1>3, <1>4, <1>5 DEF WholePackets

\* Where a packet is on the path.
LEMMA Transit ==
  /\ \A j : j \in InTransit <=> \/ j \in Queued \/ j \in Of(inHand) \/ j \in Of(buf)
                              \/ \E c \in DOMAIN conns : j \in Of(conns[c].data)
  /\ \A j : j \in InTransit' <=> \/ j \in Queued' \/ j \in Of(inHand') \/ j \in Of(buf')
                               \/ \E c \in DOMAIN conns' : j \in Of(conns'[c].data)
<1>1. \A j : j \in InTransit <=> \/ j \in Queued \/ j \in Of(inHand) \/ j \in Of(buf)
                                \/ \E c \in DOMAIN conns : j \in Of(conns[c].data)
  BY DEF InTransit, Queued
<1>2. \A j : j \in InTransit' <=> \/ j \in Queued' \/ j \in Of(inHand') \/ j \in Of(buf')
                                \/ \E c \in DOMAIN conns' : j \in Of(conns'[c].data)
  BY DEF InTransit, Queued, Of
<1> QED BY <1>1, <1>2

\* The ends go on in their loops and touch no packet.
LEMMA LoopStep ==
  ASSUME RawInv, UNCHANGED <<path, arrived, nfqueue, inHand, sconn, rconn, buf, conns, waiting, out, rawFaults, exposed>>,
         sender' \in {"nfq", "vsock", "recv", "send", "verdict", "rebind"},
         receiver' \in {"ip", "accept", "read", "down"},
         ConnsInv', HandsInv'
  PROVE  RawInv'
<1>1. Reading' = Reading /\ Waiting' = Waiting
  BY SameLines
<1>2. RawTypes'
  BY DEF RawInv, RawTypes, RawTypeOK
<1>3. RowsInv'
  BY <1>1 DEF RawInv, RowsInv
<1>4. OrderInv'
  BY <1>1 DEF RawInv, OrderInv, Queued, Sent
<1>5. DeadInv'
  BY DEF RawInv, DeadInv
<1>6. WholePackets'
  <2>1. InTransit' = InTransit
    BY DEF InTransit, Queued, Of
  <2> QED BY <2>1, WholeKeeps DEF RawInv
<1> QED BY <1>2, <1>3, <1>4, <1>5, <1>6 DEF RawInv

\* The queue is opened, a verdict given, the IP socket opened or the process started again.
LEMMA LoopKeeps_Raw ==
  ASSUME RawInv, NewNfq \/ SendVerdict \/ NewIpSocket \/ RestartReceiver
  PROVE  RawInv'
<1>1. CASE NewNfq
  <2>1. /\ UNCHANGED <<path, arrived, nfqueue, inHand, sconn, rconn, buf, conns, waiting, out, rawFaults, exposed>>
        /\ UNCHANGED receiver /\ sender = "nfq" /\ sender' = "vsock"
    BY <1>1 DEF NewNfq, receiverVars
  <2>2. ConnsInv' /\ HandsInv'
    BY <2>1 DEF RawInv, ConnsInv, HandsInv
  <2> QED BY <2>1, <2>2, LoopStep DEF RawInv, RawTypes, RawTypeOK
<1>2. CASE SendVerdict
  <2>1. /\ UNCHANGED <<path, arrived, nfqueue, inHand, sconn, rconn, buf, conns, waiting, out, rawFaults, exposed>>
        /\ UNCHANGED receiver /\ sender = "verdict" /\ sender' = "recv"
    BY <1>2 DEF SendVerdict, receiverVars
  <2>2. ConnsInv' /\ HandsInv'
    BY <2>1 DEF RawInv, ConnsInv, HandsInv
  <2> QED BY <2>1, <2>2, LoopStep DEF RawInv, RawTypes, RawTypeOK
<1>3. CASE NewIpSocket
  <2>1. /\ UNCHANGED <<path, arrived, nfqueue, inHand, sconn, rconn, buf, conns, waiting, out, rawFaults, exposed>>
        /\ UNCHANGED sender /\ receiver = "ip" /\ receiver' = IF rconn = 0 THEN "accept" ELSE "read"
    BY <1>3 DEF NewIpSocket, senderVars
  <2>2. ConnsInv' /\ HandsInv'
    BY <2>1 DEF RawInv, ConnsInv, HandsInv
  <2> QED BY <2>1, <2>2, LoopStep DEF RawInv, RawTypes, RawTypeOK
<1>4. CASE RestartReceiver
  <2>1. /\ UNCHANGED <<path, arrived, nfqueue, inHand, sconn, rconn, buf, conns, waiting, out, rawFaults, exposed>>
        /\ UNCHANGED sender /\ receiver = "down" /\ receiver' = "ip"
    BY <1>4 DEF RestartReceiver, senderVars
  <2>2. ConnsInv' /\ HandsInv'
    BY <2>1 DEF RawInv, ConnsInv, HandsInv
  <2> QED BY <2>1, <2>2, LoopStep DEF RawInv, RawTypes, RawTypeOK
<1> QED BY <1>1, <1>2, <1>3, <1>4

-----------------------------------------------------------------------------
(* The raw proxies: the steps of the sender                                *)

\* A queue and a packet behind it.
LEMMA QueueAppends ==
  ASSUME NEW q \in Seq(Nat), NEW x \in Nat, NEW a, a = Append(q, x)
  PROVE  /\ a \in Seq(Nat)
         /\ \A n \in DOMAIN a : (n \in DOMAIN q /\ a[n] = q[n]) \/ (a[n] = x /\ \A m \in DOMAIN a : m <= n)
         /\ \A n \in DOMAIN q : n \in DOMAIN a /\ a[n] = q[n]
         /\ \E n \in DOMAIN a : a[n] = x
<1> DEFINE L == Len(q)
<1>1. /\ a \in Seq(Nat) /\ L \in Nat /\ Len(a) = L + 1 /\ a[L + 1] = x
      /\ \A n \in 1..L : a[n] = q[n]
  BY AppendProperties
<1>2. DOMAIN a = 1..(L + 1) /\ DOMAIN q = 1..L
  BY <1>1, LenProperties
<1> HIDE DEF L
<1>3. \A n \in 1..(L + 1) : n \in 1..L \/ (n = L + 1 /\ \A m \in 1..(L + 1) : m <= n)
  BY <1>1
<1>4. L + 1 \in 1..(L + 1) /\ \A n \in 1..L : n \in 1..(L + 1)
  BY <1>1
<1> QED BY <1>1, <1>2, <1>3, <1>4

\* A packet arrives: it is behind all the others.
LEMMA ArriveKeeps_Raw ==
  ASSUME RawInv, Arrive
  PROVE  RawInv'
<1>1. /\ arrived < Len(Packets) /\ arrived' = arrived + 1
      /\ IF sender = "nfq" THEN exposed' = exposed \cup {arrived'} /\ nfqueue' = nfqueue
                           ELSE nfqueue' = Append(nfqueue, arrived') /\ exposed' = exposed
      /\ UNCHANGED <<path, sender, inHand, sconn, receiver, rconn, buf, conns, waiting, out, rawFaults>>
  BY DEF Arrive, senderVars, receiverVars
<1>2. Reading' = Reading /\ Waiting' = Waiting
  BY <1>1, SameLines
<1>3. RawTypes
  BY DEF RawInv
<1>4. /\ arrived \in Nat /\ arrived' \in 1..Len(Packets) /\ arrived' \in Nat /\ nfqueue \in Seq(Nat)
      /\ Reading \in Seq(Pieces) /\ Waiting \in Seq(Pieces) /\ Len(Packets) \in Nat
  <2>1. arrived \in Nat /\ nfqueue \in Seq(Nat) /\ Reading \in Seq(Pieces) /\ Waiting \in Seq(Pieces)
    BY <1>3, LineTypes DEF RawTypes
  <2>2. Len(Packets) \in Nat
    BY RawAssumption
  <2> QED BY <1>1, <2>1, <2>2
<1>5. /\ nfqueue' \in Seq(Nat)
      /\ \A n \in DOMAIN nfqueue' : (n \in DOMAIN nfqueue /\ nfqueue'[n] = nfqueue[n])
                                     \/ (nfqueue'[n] = arrived' /\ \A m \in DOMAIN nfqueue' : m <= n)
      /\ \A n \in DOMAIN nfqueue : n \in DOMAIN nfqueue' /\ nfqueue'[n] = nfqueue[n]
      /\ sender # "nfq" => \E n \in DOMAIN nfqueue' : nfqueue'[n] = arrived'
  <2>1. CASE sender = "nfq"
    <3>1. nfqueue' = nfqueue
      BY <1>1, <2>1
    <3> QED BY <1>4, <2>1, <3>1
  <2>2. CASE sender # "nfq"
    <3>1. nfqueue' = Append(nfqueue, arrived')
      BY <1>1, <2>2
    <3>2. arrived' \in Nat
      BY <1>4
    <3>3. nfqueue \in Seq(Nat)
      BY <1>4
    <3> DEFINE a == nfqueue'  q == nfqueue  x == arrived'
    <3>4. a = Append(q, x) /\ q \in Seq(Nat) /\ x \in Nat
      BY <3>1, <3>2, <3>3
    <3> HIDE DEF a, q, x
    <3>5. /\ a \in Seq(Nat)
          /\ \A n \in DOMAIN a : (n \in DOMAIN q /\ a[n] = q[n]) \/ (a[n] = x /\ \A m \in DOMAIN a : m <= n)
          /\ \A n \in DOMAIN q : n \in DOMAIN a /\ a[n] = q[n]
          /\ \E n \in DOMAIN a : a[n] = x
      BY <3>4, QueueAppends
    <3> QED BY <3>5 DEF a, q, x
  <2> QED BY <2>1, <2>2
<1>6. \A j \in Queued' : j \in Queued \/ j = arrived'
  BY <1>5 DEF Queued
<1>7. Queued \subseteq Queued' /\ (sender # "nfq" => arrived' \in Queued')
  BY <1>5 DEF Queued
<1>8. RawTypes'
  <2>1. arrived' \in 0..Len(Packets) /\ 1..arrived \subseteq 1..arrived' /\ arrived' \in Ids
    BY <1>1, <1>4 DEF Ids
  <2>2. RawTypeOK'
    BY <1>1, <1>3, <2>1 DEF RawTypes, RawTypeOK
  <2>3. Of(inHand') \subseteq 1..arrived'
    BY <1>1, <1>3, <2>1 DEF RawTypes
  <2> QED BY <1>1, <1>3, <1>5, <2>2, <2>3 DEF RawTypes
<1>9. ConnsInv' /\ HandsInv'
  BY <1>1 DEF RawInv, ConnsInv, HandsInv
<1>10. RowsInv'
  <2>1. Row(Reading, arrived + 1) /\ Row(Waiting, arrived + 1)
    BY <1>4, RowLater DEF RawInv, RowsInv
  <2>2. /\ rconn # 0 /\ conns[rconn].reader => WholeRow(Reading)
        /\ waiting # 0 /\ conns[waiting].reader => WholeRow(Waiting)
    BY DEF RawInv, RowsInv
  <2> QED BY <1>1, <1>2, <2>1, <2>2 DEF RowsInv
<1>11. OrderInv'
  <2>1. Of(Reading) \subseteq 1..arrived /\ Of(Waiting) \subseteq 1..arrived
    BY <1>4, RowIds DEF RawInv, RowsInv
  <2>2. Sent \subseteq 1..arrived /\ Sent' = Sent
    BY <1>1 DEF RawInv, WholePackets, Sent
  <2>3. Queued \subseteq 1..arrived
    BY DEF RawInv, OrderInv
  <2>4. \A j \in 1..arrived : j < arrived' /\ j \in 1..arrived'
    BY <1>1, <1>4
  <2>5. InOrder(Sent, Of(Reading), Of(Waiting), Queued')
    BY <1>6, <2>1, <2>2, <2>4 DEF RawInv, OrderInv, InOrder, Before
  <2>6. Queued' \subseteq 1..arrived'
    <3>1. arrived' \in 1..arrived'
      BY <1>1, <1>4
    <3> QED BY <1>6, <2>3, <2>4, <3>1
  <2>7. ASSUME NEW m \in DOMAIN nfqueue', NEW n \in DOMAIN nfqueue', m < n
        PROVE  nfqueue'[m] < nfqueue'[n]
    <3>1. \A k \in DOMAIN nfqueue : nfqueue[k] < arrived'
      BY <2>3, <2>4 DEF Queued
    <3>2. DOMAIN nfqueue' \subseteq Int
      BY <1>5
    <3>3. m \in DOMAIN nfqueue /\ nfqueue'[m] = nfqueue[m]
      BY <1>5, <2>7, <3>2
    <3>4. \A a, b \in DOMAIN nfqueue : a < b => nfqueue[a] < nfqueue[b]
      BY DEF RawInv, OrderInv
    <3> QED BY <1>5, <2>7, <3>1, <3>3, <3>4
  <2> QED BY <1>2, <2>2, <2>5, <2>6, <2>7 DEF OrderInv
<1>12. DeadInv'
  BY <1>1 DEF RawInv, DeadInv, Complete
<1>13. WholePackets'
  <2>1. \A p : Allowed(p)' <=> Allowed(p)
    BY <1>1 DEF Allowed
  <2>2. 1..arrived \subseteq 1..arrived' /\ \A i \in 1..arrived' : i \in 1..arrived \/ i = arrived'
    BY <1>1, <1>4
  <2>3. (\A n \in DOMAIN out : out[n] # <<>> /\ out[n][1][1] \in 1..arrived /\ out[n] = Frame(out[n][1][1]))'
    BY <1>1, <2>2 DEF RawInv, WholePackets
  <2>4. (\A n \in DOMAIN out : Allowed(Packets[out[n][1][1]]))'
    BY <1>1, <2>1 DEF RawInv, WholePackets
  <2>5. (\A m, n \in DOMAIN out : m < n => out[m][1][1] < out[n][1][1])'
    BY <1>1 DEF RawInv, WholePackets
  <2>6. \A j \in InTransit : j \in InTransit'
    BY <1>1, <1>7, Transit
  <2>7. exposed \subseteq exposed' /\ (arrived' \in exposed' \/ arrived' \in InTransit')
    BY <1>1, <1>7, Transit
  <2>8. ASSUME NEW i \in 1..arrived', Allowed(Packets[i])', i \notin exposed'
        PROVE  i \in InTransit' \/ \E n \in DOMAIN out' : out'[n] = Frame(i)
    <3>1. CASE i = arrived'
      BY <2>7, <2>8, <3>1
    <3>2. CASE i # arrived'
      <4>1. i \in 1..arrived /\ Allowed(Packets[i]) /\ i \notin exposed
        BY <2>1, <2>2, <2>7, <2>8, <3>2
      <4>2. i \in InTransit \/ \E n \in DOMAIN out : out[n] = Frame(i)
        BY <4>1 DEF RawInv, WholePackets
      <4> QED BY <1>1, <2>6, <4>2
    <3> QED BY <3>1, <3>2
  <2> QED BY <2>3, <2>4, <2>5, <2>8 DEF WholePackets
<1> QED BY <1>8, <1>9, <1>10, <1>11, <1>12, <1>13 DEF RawInv

\* The queue fails: nothing is read from it any more.
LEMMA NfqErrKeeps_Raw ==
  ASSUME RawInv, NfqErr
  PROVE  RawInv'
<1>1. /\ sender \in {"recv", "verdict"} /\ rawFaults < MaxRawFaults /\ rawFaults' = rawFaults + 1
      /\ exposed' = exposed \cup Queued /\ sender' = "rebind"
      /\ UNCHANGED <<path, arrived, nfqueue, inHand, sconn, receiver, rconn, buf, conns, waiting, out>>
  BY DEF NfqErr, RawFault, receiverVars
<1>2. Reading' = Reading /\ Waiting' = Waiting /\ Sent' = Sent /\ Queued' = Queued
  BY <1>1, SameLines DEF Sent, Queued
<1>4. RawTypes'
  <2>1. Queued \subseteq Ids
    BY LineTypes, RawAssumption DEF RawInv, OrderInv, Ids
  <2> QED BY <1>1, <2>1, RawAssumption DEF RawInv, RawTypes, RawTypeOK
<1>5. ConnsInv' /\ HandsInv'
  BY <1>1 DEF RawInv, ConnsInv, HandsInv
<1>6. RowsInv'
  BY <1>1, <1>2 DEF RawInv, RowsInv
<1>7. OrderInv'
  BY <1>1, <1>2 DEF RawInv, OrderInv
<1>8. DeadInv'
  BY <1>1 DEF RawInv, DeadInv, Complete
<1>9. WholePackets'
  <2>1. InTransit' = InTransit
    BY <1>1, <1>2 DEF InTransit, Of
  <2> QED BY <1>1, <2>1, WholeKeeps DEF RawInv
<1> QED BY <1>4, <1>5, <1>6, <1>7, <1>8, <1>9 DEF RawInv

\* A new connection is empty, and the one before has been dead.
LEMMA ConnectKeeps_Raw ==
  ASSUME RawInv, ConnectVsock
  PROVE  RawInv'
<1> DEFINE L == Len(conns)
           old == [c \in DOMAIN conns |-> [conns[c] EXCEPT !.writer = FALSE]]
           new == [data |-> <<>>, writer |-> TRUE, reader |-> TRUE]
<1>1. /\ sender = "vsock" /\ receiver # "down" /\ waiting = 0
      /\ conns' = Append(old, new) /\ sconn' = Len(conns') /\ waiting' = Len(conns') /\ sender' = "recv"
      /\ UNCHANGED <<path, arrived, nfqueue, inHand, receiver, rconn, buf, out, rawFaults, exposed>>
  BY DEF ConnectVsock, Listening, receiverVars
<1>2. RawTypes /\ ConnsInv /\ HandsInv
  BY DEF RawInv
<1>3. L \in Nat /\ DOMAIN conns = 1..L /\ \A c \in 1..L : conns[c] \in Conn
  BY <1>2, LineTypes
<1>4. /\ old \in Seq(Conn) /\ Len(old) = L
      /\ \A c \in 1..L : old[c].data = conns[c].data /\ old[c].reader = conns[c].reader
  <2>1. \A c \in 1..L : [conns[c] EXCEPT !.writer = FALSE] \in Conn
    BY <1>3 DEF Conn
  <2>2. \A c \in 1..L : /\ [conns[c] EXCEPT !.writer = FALSE].data = conns[c].data
                        /\ [conns[c] EXCEPT !.writer = FALSE].reader = conns[c].reader
    BY <1>3 DEF Conn
  <2>3. old = [c \in 1..L |-> [conns[c] EXCEPT !.writer = FALSE]]
    BY <1>3
  <2> HIDE DEF L
  <2>4. old \in [1..L -> Conn]
    BY <2>1, <2>3
  <2> HIDE DEF old
  <2>5. old \in Seq(Conn) /\ Len(old) = L
    BY <1>3, <2>4
  <2>6. \A c \in 1..L : old[c] = [conns[c] EXCEPT !.writer = FALSE]
    BY <2>3
  <2> QED BY <2>2, <2>5, <2>6
<1>5. new \in Conn
  BY OfEmpty DEF Conn
<1> HIDE DEF old
<1>6. /\ conns' \in Seq(Conn) /\ Len(conns') = L + 1 /\ conns'[L + 1] = new
      /\ \A c \in 1..L : conns'[c] = old[c]
  BY <1>1, <1>4, <1>5, AppendProperties
<1>7. /\ \A c \in 1..L : conns'[c].data = conns[c].data /\ conns'[c].reader = conns[c].reader
      /\ conns'[L + 1].data = <<>> /\ conns'[L + 1].reader = TRUE /\ conns'[L + 1].writer = TRUE
  BY <1>4, <1>6
<1>8. /\ sconn' = L + 1 /\ waiting' = L + 1 /\ DOMAIN conns' = 1..(L + 1) /\ rconn' = rconn
      /\ rconn \in 0..L /\ L + 1 # 0 /\ L + 1 \in 1..(L + 1) /\ L + 1 \notin 1..L
      /\ \A c \in 1..(L + 1) : c \in 1..L \/ c = L + 1
      /\ \A c \in 1..L : c \in 1..(L + 1)
  BY <1>1, <1>2, <1>3, <1>6, LenProperties DEF RawTypes, RawTypeOK
<1>9. \A c \in 1..L : ~conns[c].reader
  BY <1>1, <1>2, <1>3 DEF ConnsInv
<1>10. inHand = <<>> /\ inHand' = <<>> /\ <<>> \in Seq(Pieces)
  BY <1>1, <1>2, OfEmpty DEF HandsInv
<1> HIDE DEF L, new
<1>11. rconn # 0 => rconn \in 1..L /\ rconn # L + 1
  BY <1>3, <1>8
<1>12. Reading' = Reading
  <2>1. CASE rconn = 0
    BY <1>1, <2>1 DEF Reading, Coming
  <2>2. CASE rconn # 0
    <3>1. rconn \in 1..L /\ rconn' # sconn'
      BY <1>8, <1>11, <2>2
    <3>2. InHandFor(rconn) = <<>>
      BY <1>10 DEF InHandFor
    <3>3. InHandFor(rconn)' = <<>>
      BY <1>10 DEF InHandFor
    <3>4. conns'[rconn].data = conns[rconn].data
      BY <1>7, <3>1
    <3>5. Coming(rconn)' = Coming(rconn)
      BY <1>1, <2>2, <3>2, <3>3, <3>4 DEF Coming
    <3> QED BY <1>1, <3>5 DEF Reading
  <2> QED BY <2>1, <2>2
<1>13. Waiting = <<>> /\ Waiting' = <<>>
  <2>1. Waiting = <<>>
    BY <1>1 DEF Waiting, Coming
  <2>2. InHandFor(waiting)' = <<>>
    BY <1>10 DEF InHandFor
  <2>3. conns'[waiting'].data = <<>> /\ waiting' # 0
    BY <1>7, <1>8
  <2>4. Waiting' = <<>> \o <<>>
    BY <2>2, <2>3 DEF Waiting, Coming
  <2> QED BY <1>10, <2>1, <2>4, ConcatEmptySeq
<1>14. RawTypes'
  <2>1. sconn' \in 0..Len(conns') /\ waiting' \in 0..Len(conns') /\ rconn' \in 0..Len(conns')
    BY <1>3, <1>6, <1>8
  <2> QED BY <1>1, <1>2, <1>6, <2>1 DEF RawTypes, RawTypeOK
<1>15. ConnsInv'
  <2>1. sconn' = Len(conns')
    BY <1>1
  <2>2. \A c \in DOMAIN conns' : conns'[c].reader => conns'[c].writer /\ c = sconn' /\ c \in {rconn', waiting'}
    BY <1>7, <1>8, <1>9
  <2>3. waiting' # 0 => waiting' = sconn' /\ rconn' # waiting'
    BY <1>8, <1>11
  <2>4. \A c \in DOMAIN conns' : c \notin {rconn', waiting'} => conns'[c].data = <<>>
    BY <1>1, <1>2, <1>3, <1>7, <1>8 DEF ConnsInv
  <2> QED BY <1>1, <1>8, <2>1, <2>2, <2>3, <2>4 DEF ConnsInv
<1>16. HandsInv'
  BY <1>1, <1>2, <1>7, <1>10, <1>11 DEF HandsInv
<1>17. RowsInv'
  <2>1. Row(<<>>, arrived) /\ WholeRow(<<>>)
    BY DEF Row, WholeRow
  <2>2. rconn # 0 => ~conns'[rconn].reader
    BY <1>7, <1>9, <1>11
  <2> QED BY <1>1, <1>12, <1>13, <2>1, <2>2 DEF RawInv, RowsInv
<1>18. OrderInv'
  BY <1>1, <1>12, <1>13 DEF RawInv, OrderInv, Queued, Sent
<1>19. DeadInv'
  <2>1. conns'[waiting'].reader
    BY <1>7, <1>8
  <2>2. rconn # 0 => conns'[rconn].data = conns[rconn].data /\ conns'[rconn].reader = conns[rconn].reader
    BY <1>7, <1>11
  <2>3. Complete(buf)' <=> Complete(buf)
    BY <1>1 DEF Complete
  <2> QED BY <1>1, <2>1, <2>2, <2>3 DEF RawInv, DeadInv
<1>20. WholePackets'
  <2>1. \A j : (\E c \in DOMAIN conns : j \in Of(conns[c].data)) => \E c \in DOMAIN conns' : j \in Of(conns'[c].data)
    BY <1>3, <1>7, <1>8
  <2>2. Queued' = Queued
    BY <1>1 DEF Queued
  <2>3. InTransit \subseteq InTransit'
    BY <1>1, <2>1, <2>2, Transit
  <2> QED BY <1>1, <2>3, WholeKeeps DEF RawInv
<1> QED BY <1>14, <1>15, <1>16, <1>17, <1>18, <1>19, <1>20 DEF RawInv

\* Sending fails: the rest of the packet was not for a connection any more.
LEMMA SendErrKeeps_Raw ==
  ASSUME RawInv, SendErr
  PROVE  RawInv'
<1>1. /\ sender = "send" /\ ~conns[sconn].reader /\ exposed' = exposed \cup Of(inHand)
      /\ inHand' = <<>> /\ sender' = "vsock"
      /\ UNCHANGED <<path, arrived, nfqueue, sconn, receiver, rconn, buf, conns, waiting, out, rawFaults>>
  BY DEF SendErr, receiverVars
<1>2. \A c : InHandFor(c) = <<>> /\ InHandFor(c)' = <<>>
  BY <1>1 DEF InHandFor
<1>3. Reading' = Reading /\ Waiting' = Waiting
  BY <1>1, <1>2 DEF Reading, Waiting, Coming
<1>4. Sent' = Sent /\ Queued' = Queued
  BY <1>1 DEF Sent, Queued
<1>5. RawTypes'
  <2>1. Of(inHand) \subseteq Ids
    <3>1. arrived \in Nat /\ arrived <= Len(Packets) /\ Len(Packets) \in Nat
      BY LineTypes, RawAssumption DEF RawInv
    <3>2. 1..arrived \subseteq Ids
      BY <3>1 DEF Ids
    <3> QED BY <3>2 DEF RawInv, RawTypes
  <2> QED BY <1>1, <2>1, OfEmpty DEF RawInv, RawTypes, RawTypeOK
<1>6. ConnsInv' /\ HandsInv'
  BY <1>1 DEF RawInv, ConnsInv, HandsInv
<1>7. RowsInv'
  BY <1>1, <1>3 DEF RawInv, RowsInv
<1>8. OrderInv'
  BY <1>1, <1>3, <1>4 DEF RawInv, OrderInv
<1>9. DeadInv'
  BY <1>1 DEF RawInv, DeadInv, Complete
<1>10. WholePackets'
  <2>1. InTransit \subseteq InTransit' \cup exposed'
    BY <1>1, <1>4, Transit
  <2> QED BY <1>1, <2>1, WholeKeeps DEF RawInv
<1> QED BY <1>5, <1>6, <1>7, <1>8, <1>9, <1>10 DEF RawInv

\* A part of the packet is sent: it stays in the same place of its line.
LEMMA SendPartKeeps_Raw ==
  ASSUME RawInv, SendPart
  PROVE  RawInv'
<1>0. PICK k \in 1..Len(inHand) :
        /\ conns' = [conns EXCEPT ![sconn].data = @ \o SubSeq(inHand, 1, k)]
        /\ inHand' = SubSeq(inHand, k + 1, Len(inHand))
        /\ sender' = IF k = Len(inHand) THEN "verdict" ELSE "send"
  BY DEF SendPart
<1> DEFINE d == conns[sconn].data  u == SubSeq(inHand, 1, k)  v == SubSeq(inHand, k + 1, Len(inHand))
<1>1. /\ sender = "send" /\ conns[sconn].reader
      /\ UNCHANGED <<path, arrived, nfqueue, sconn, receiver, rconn, buf, waiting, out, rawFaults, exposed>>
  BY DEF SendPart, receiverVars
<1>2. RawTypes /\ ConnsInv /\ HandsInv
  BY DEF RawInv
<1>3. sconn # 0 /\ sconn \in 1..Len(conns) /\ DOMAIN conns = 1..Len(conns) /\ Len(conns) \in Nat
  BY <1>1, <1>2, ConnTypes, LineTypes DEF ConnsInv
<1>4. d \in Seq(Pieces) /\ inHand \in Seq(Pieces) /\ conns[sconn] \in Conn
  BY <1>2, <1>3, LineTypes DEF RawTypes
<1>5. u \in Seq(Pieces) /\ v \in Seq(Pieces) /\ inHand = u \o v /\ (d \o u) \o v = d \o inHand
      /\ (k = Len(inHand) => v = <<>>) /\ d \o u \in Seq(Pieces)
  <2>1. k \in 1..Len(inHand)
    BY <1>0
  <2>2. u \in Seq(Pieces) /\ v \in Seq(Pieces) /\ (k = Len(inHand) => v = <<>>)
    BY <1>4, <2>1, CutParts
  <2>3. u \o v = inHand
    BY <1>4, <2>1, CutWhole
  <2> HIDE DEF d, u, v
  <2>4. (d \o u) \o v = d \o inHand
    BY <1>4, <2>2, <2>3, Regrouped, ZenonT(60)
  <2>5. d \o u \in Seq(Pieces)
    BY <1>4, <2>2, ConcatProperties
  <2> QED BY <2>2, <2>3, <2>4, <2>5, Zenon
<1>6. /\ conns' = [conns EXCEPT ![sconn] = [conns[sconn] EXCEPT !.data = d \o u]] /\ inHand' = v
      /\ sender' \in {"verdict", "send"} /\ (sender' # "send" => inHand' = <<>>)
  BY <1>0, <1>5
<1>7. Of(inHand) = Of(u) \cup Of(v) /\ Of(d \o u) = Of(d) \cup Of(u)
  <2>1. Of(u \o v) = Of(u) \cup Of(v)
    BY <1>5, OfJoined, ZenonT(60)
  <2> QED BY <1>4, <1>5, <2>1, OfJoined, ZenonT(60)
<1> HIDE DEF d, u, v
<1>8. [conns[sconn] EXCEPT !.data = d \o u] \in Conn
  BY <1>4, <1>5 DEF Conn
<1>9. /\ conns' \in Seq(Conn) /\ Len(conns') = Len(conns) /\ DOMAIN conns' = DOMAIN conns
      /\ \A c \in DOMAIN conns : c # sconn => conns'[c] = conns[c]
      /\ \A c \in DOMAIN conns : conns'[c].reader = conns[c].reader /\ conns'[c].writer = conns[c].writer
      /\ conns'[sconn].data = d \o u
  <2>1. conns \in Seq(Conn)
    BY <1>2 DEF RawTypes
  <2>2. conns' \in Seq(Conn) /\ Len(conns') = Len(conns)
    BY <1>3, <1>6, <1>8, <2>1
  <2>3. DOMAIN conns' = DOMAIN conns /\ \A c \in DOMAIN conns : c # sconn => conns'[c] = conns[c]
    BY <1>6
  <2>4. conns'[sconn] = [conns[sconn] EXCEPT !.data = d \o u]
    BY <1>3, <1>6
  <2>5. /\ conns'[sconn].reader = conns[sconn].reader /\ conns'[sconn].writer = conns[sconn].writer
        /\ conns'[sconn].data = d \o u
    BY <1>4, <2>4 DEF Conn
  <2> QED BY <2>2, <2>3, <2>5
<1>10. \A c \in 0..Len(conns) : Coming(c)' = Coming(c)
  <2> SUFFICES ASSUME NEW c \in 0..Len(conns) PROVE Coming(c)' = Coming(c)
    OBVIOUS
  <2>1. CASE c = 0
    BY <2>1 DEF Coming
  <2>2. CASE c = sconn
    <3>1. Coming(c) = d \o inHand
      BY <1>1, <1>3, <2>2 DEF Coming, InHandFor, d
    <3>2. Coming(c)' = (d \o u) \o v
      BY <1>1, <1>3, <1>6, <1>9, <2>2 DEF Coming, InHandFor
    <3> QED BY <3>1, <3>2, <1>5
  <2>3. CASE c # 0 /\ c # sconn
    <3>1. c \in DOMAIN conns
      BY <1>3, <2>3
    <3> QED BY <1>1, <1>9, <2>3, <3>1 DEF Coming, InHandFor
  <2> QED BY <2>1, <2>2, <2>3
<1>11. Reading' = Reading /\ Waiting' = Waiting
  <2>1. rconn \in 0..Len(conns) /\ waiting \in 0..Len(conns)
    BY <1>2 DEF RawTypes, RawTypeOK
  <2>2. Coming(rconn)' = Coming(rconn) /\ Coming(waiting)' = Coming(waiting)
    BY <1>1, <1>10, <2>1 DEF Coming, InHandFor
  <2> QED BY <1>1, <2>2 DEF Reading, Waiting
<1>12. Sent' = Sent /\ Queued' = Queued
  BY <1>1 DEF Sent, Queued
<1>13. RawTypes'
  <2>1. Of(inHand') \subseteq 1..arrived'
    BY <1>1, <1>2, <1>6, <1>7 DEF RawTypes
  <2> QED BY <1>1, <1>2, <1>5, <1>6, <1>9, <2>1 DEF RawTypes, RawTypeOK
<1>14. ConnsInv'
  <2>1. conns[sconn].reader => sconn \in {rconn, waiting}
    BY <1>2, <1>3 DEF ConnsInv
  <2>2. \A c \in DOMAIN conns' : c \notin {rconn, waiting} => conns'[c].data = <<>>
    BY <1>1, <1>2, <1>9, <2>1 DEF ConnsInv
  <2> QED BY <1>1, <1>2, <1>3, <1>6, <1>9, <2>2 DEF ConnsInv
<1>15. rconn # 0 => rconn \in DOMAIN conns
  BY <1>2, <1>3, ConnTypes
<1>16. waiting # 0 => waiting \in DOMAIN conns
  BY <1>2, <1>3, ConnTypes
<1>17. HandsInv'
  <2>1. receiver = "accept" /\ rconn # 0 => conns'[rconn].data = <<>> /\ ~conns'[rconn].reader
    BY <1>1, <1>2, <1>9, <1>15 DEF HandsInv
  <2> QED BY <1>1, <1>2, <1>6, <2>1 DEF HandsInv
<1>18. RowsInv'
  BY <1>1, <1>9, <1>11, <1>15, <1>16 DEF RawInv, RowsInv
<1>19. OrderInv'
  BY <1>1, <1>11, <1>12 DEF RawInv, OrderInv
<1>20. DeadInv'
  <2>1. Complete(buf)' <=> Complete(buf)
    BY <1>1 DEF Complete
  <2>2. rconn # 0 /\ ~conns'[rconn].reader => ~conns[rconn].reader /\ conns'[rconn].data = conns[rconn].data
    BY <1>1, <1>9, <1>15
  <2>3. waiting # 0 /\ ~conns'[waiting].reader => ~conns[waiting].reader /\ conns'[waiting].data = conns[waiting].data
    BY <1>1, <1>9, <1>16
  <2> QED BY <1>1, <2>1, <2>2, <2>3 DEF RawInv, DeadInv
<1>21. WholePackets'
  <2>1. ASSUME NEW j \in InTransit PROVE j \in InTransit'
    <3>1. CASE j \in Queued \/ j \in Of(buf)
      BY <1>1, <1>12, <3>1, Transit
    <3>2. CASE j \in Of(inHand)
      BY <1>3, <1>6, <1>7, <1>9, <3>2, Transit
    <3>3. ASSUME NEW c \in DOMAIN conns, j \in Of(conns[c].data) PROVE j \in InTransit'
      <4>1. j \in Of(conns'[c].data)
        BY <1>7, <1>9, <3>3 DEF d
      <4> QED BY <1>9, <4>1, Transit
    <3> QED BY <2>1, <3>1, <3>2, <3>3, Transit
  <2> QED BY <1>1, <2>1, WholeKeeps DEF RawInv
<1> QED BY <1>13, <1>14, <1>17, <1>18, <1>19, <1>20, <1>21 DEF RawInv

\* The lines when only the packet in the sender's hand changes.
LEMMA NewInHand ==
  ASSUME RawTypes, ConnsInv, inHand = <<>>, inHand' \in Seq(Pieces), sconn # 0,
         UNCHANGED <<sconn, rconn, buf, conns, waiting>>
  PROVE  /\ conns[sconn].reader /\ rconn = sconn => Reading' = Reading \o inHand' /\ Waiting' = Waiting /\ Waiting = <<>>
         /\ conns[sconn].reader /\ waiting = sconn => Waiting' = Waiting \o inHand' /\ Reading' = Reading
         /\ ~conns[sconn].reader => Reading' = Reading /\ Waiting' = Waiting
<1> DEFINE h == inHand'
<1>1. h \in Seq(Pieces) /\ <<>> \in Seq(Pieces) /\ buf \in Seq(Pieces)
  BY OfEmpty DEF RawTypes
<1>2. \A c \in 0..Len(conns) : Coming(c) \in Seq(Pieces)
  BY LineTypes
<1>3. \A c \in 1..Len(conns) : conns[c].data \in Seq(Pieces)
  BY LineTypes
<1>4. /\ rconn \in 0..Len(conns) /\ waiting \in 0..Len(conns) /\ sconn \in 1..Len(conns)
  BY ConnTypes DEF RawTypes, RawTypeOK
<1>5. \A c : c # sconn => Coming(c)' = Coming(c)
  BY DEF Coming, InHandFor
<1>6. ~conns[sconn].reader => \A c : Coming(c)' = Coming(c)
  BY DEF Coming, InHandFor
<1>7. conns[sconn].reader => Coming(sconn)' = Coming(sconn) \o h
  <2> SUFFICES ASSUME conns[sconn].reader PROVE Coming(sconn)' = Coming(sconn) \o h
    OBVIOUS
  <2> DEFINE d == conns[sconn].data
  <2>1. d \in Seq(Pieces)
    BY <1>3, <1>4
  <2>2. Coming(sconn) = d \o <<>>
    BY DEF Coming, InHandFor
  <2>3. Coming(sconn)' = d \o h
    BY DEF Coming, InHandFor
  <2> HIDE DEF d
  <2>4. d \o <<>> = d
    BY <2>1, ConcatEmptySeq
  <2> QED BY <2>2, <2>3, <2>4
<1> HIDE DEF h
<1>8. waiting # 0 => waiting = sconn /\ rconn # waiting
  BY DEF ConnsInv
<1>9. ASSUME conns[sconn].reader, rconn = sconn
      PROVE  Reading' = Reading \o h /\ Waiting' = Waiting /\ Waiting = <<>>
  <2>1. waiting = 0
    BY <1>8, <1>9
  <2>2. Waiting = <<>> /\ Waiting' = <<>>
    BY <2>1 DEF Waiting, Coming
  <2> DEFINE x == Coming(rconn)
  <2>3. x \in Seq(Pieces)
    BY <1>2, <1>4
  <2>4. Reading' = buf \o (x \o h) /\ Reading = buf \o x
    BY <1>7, <1>9 DEF Reading
  <2> HIDE DEF x
  <2>5. (buf \o x) \o h = buf \o (x \o h)
    BY <1>1, <2>3, Regrouped, ZenonT(60)
  <2> QED BY <2>2, <2>4, <2>5, Zenon
<1>10. ASSUME conns[sconn].reader, waiting = sconn
       PROVE  Waiting' = Waiting \o h /\ Reading' = Reading
  <2>1. rconn # sconn
    BY <1>8, <1>10
  <2> QED BY <1>5, <1>7, <1>10, <2>1 DEF Reading, Waiting
<1>11. ASSUME ~conns[sconn].reader PROVE Reading' = Reading /\ Waiting' = Waiting
  BY <1>6, <1>11 DEF Reading, Waiting
<1> QED BY <1>9, <1>10, <1>11 DEF h

\* A packet is taken from the queue: it goes to the end of the line that is open.
LEMMA QueueRecvKeeps_Raw ==
  ASSUME RawInv, QueueRecv
  PROVE  RawInv'
<1> DEFINE i == Head(nfqueue)  h == Frame(i)
<1>1. /\ sender = "recv" /\ nfqueue # <<>> /\ inHand' = h /\ nfqueue' = Tail(nfqueue) /\ sender' = "send"
      /\ UNCHANGED <<path, arrived, sconn, receiver, rconn, buf, conns, waiting, out, rawFaults, exposed>>
  BY DEF QueueRecv, receiverVars
<1>2. RawTypes /\ ConnsInv /\ HandsInv /\ OrderInv /\ RowsInv
  BY DEF RawInv
<1>3. /\ i \in Nat /\ nfqueue' \in Seq(Nat) /\ i \in Queued
      /\ \A n \in DOMAIN nfqueue' : n + 1 \in DOMAIN nfqueue /\ nfqueue'[n] = nfqueue[n + 1] /\ n \in Nat \ {0}
      /\ \A n \in DOMAIN nfqueue : n = 1 \/ n - 1 \in DOMAIN nfqueue'
      /\ i = nfqueue[1] /\ 1 \in DOMAIN nfqueue
  <2>1. nfqueue \in Seq(Nat) /\ nfqueue # <<>>
    BY <1>1, <1>2 DEF RawTypes
  <2>2. i \in Nat /\ i = nfqueue[1] /\ 1 \in DOMAIN nfqueue
    BY <2>1
  <2>3. nfqueue' \in Seq(Nat)
    BY <1>1, <2>1
  <2>4. /\ \A n \in DOMAIN nfqueue' : n + 1 \in DOMAIN nfqueue /\ nfqueue'[n] = nfqueue[n + 1] /\ n \in Nat \ {0}
        /\ \A n \in DOMAIN nfqueue : n = 1 \/ n - 1 \in DOMAIN nfqueue'
    BY <1>1, <2>1, SMTT(30)
  <2> QED BY <2>2, <2>3, <2>4 DEF Queued
<1>4. /\ \A m, n \in DOMAIN nfqueue : m < n => nfqueue[m] < nfqueue[n]
      /\ Queued \subseteq 1..arrived
  BY <1>2 DEF OrderInv
<1>5. /\ Queued' \subseteq Queued /\ \A j \in Queued' : i < j
      /\ \A j \in Queued : j = i \/ j \in Queued'
  <2>1. \A n \in DOMAIN nfqueue' : nfqueue'[n] \in Queued
    BY <1>3 DEF Queued
  <2>2. \A n \in DOMAIN nfqueue' : i < nfqueue'[n]
    <3> SUFFICES ASSUME NEW n \in DOMAIN nfqueue' PROVE i < nfqueue'[n]
      OBVIOUS
    <3>1. n + 1 \in DOMAIN nfqueue /\ nfqueue'[n] = nfqueue[n + 1] /\ 1 < n + 1
      BY <1>3
    <3> QED BY <1>3, <1>4, <3>1
  <2>3. \A n \in DOMAIN nfqueue : nfqueue[n] = i \/ nfqueue[n] \in Queued'
    <3> SUFFICES ASSUME NEW n \in DOMAIN nfqueue, n # 1 PROVE nfqueue[n] \in Queued'
      BY <1>3
    <3>1. n - 1 \in DOMAIN nfqueue' /\ n \in Int
      BY <1>2, <1>3 DEF RawTypes
    <3>2. nfqueue'[n - 1] = nfqueue[(n - 1) + 1] /\ (n - 1) + 1 = n
      BY <1>3, <3>1
    <3> QED BY <3>1, <3>2 DEF Queued
  <2> QED BY <2>1, <2>2, <2>3 DEF Queued
<1>6. i \in 1..arrived /\ arrived \in Nat /\ arrived <= Len(Packets) /\ Reading \in Seq(Pieces) /\ Waiting \in Seq(Pieces)
  BY <1>2, <1>3, <1>4, LineTypes
<1>7. i \in 1..Len(Packets)
  BY <1>6, ArrivedId
<1>8. h \in Seq(Pieces) /\ Of(h) = {i}
  BY <1>7, FrameProperties
<1> HIDE DEF i
<1>9. inHand = <<>> /\ sconn # 0 /\ sconn \in DOMAIN conns
  BY <1>1, <1>2, ConnTypes, LineTypes DEF HandsInv, ConnsInv
<1>10. RawTypes'
  <2>1. Of(inHand') \subseteq 1..arrived
    BY <1>1, <1>6, <1>8
  <2> QED BY <1>1, <1>2, <1>3, <1>8, <2>1 DEF RawTypes, RawTypeOK
<1>11. ConnsInv' /\ HandsInv'
  BY <1>1, <1>2, <1>9 DEF ConnsInv, HandsInv
<1>12. DeadInv'
  BY <1>1 DEF RawInv, DeadInv, Complete
<1>13. WholePackets'
  <2>1. \A j \in InTransit : j \in InTransit'
    BY <1>1, <1>5, <1>8, <1>9, Transit, OfEmpty
  <2> QED BY <1>1, <2>1, WholeKeeps DEF RawInv
<1>14. InOrder(Sent, Of(Reading), Of(Waiting), Queued) /\ Sent' = Sent
  BY <1>1, <1>2 DEF OrderInv, Sent
<1>15. \A m, n \in DOMAIN nfqueue' : m < n => nfqueue'[m] < nfqueue'[n]
  <2> SUFFICES ASSUME NEW m \in DOMAIN nfqueue', NEW n \in DOMAIN nfqueue', m < n
               PROVE  nfqueue'[m] < nfqueue'[n]
    OBVIOUS
  <2>1. /\ m + 1 \in DOMAIN nfqueue /\ nfqueue'[m] = nfqueue[m + 1]
        /\ n + 1 \in DOMAIN nfqueue /\ nfqueue'[n] = nfqueue[n + 1] /\ m + 1 < n + 1
    BY <1>3
  <2> QED BY <1>4, <2>1
<1>16. inHand' \in Seq(Pieces)
  BY <1>1, <1>8
<1>17. /\ conns[sconn].reader /\ rconn = sconn => Reading' = Reading \o inHand' /\ Waiting' = Waiting /\ Waiting = <<>>
       /\ conns[sconn].reader /\ waiting = sconn => Waiting' = Waiting \o inHand' /\ Reading' = Reading
       /\ ~conns[sconn].reader => Reading' = Reading /\ Waiting' = Waiting
  BY <1>1, <1>2, <1>9, <1>16, NewInHand
<1>18. conns[sconn].reader => sconn \in {rconn, waiting}
  BY <1>2, <1>9 DEF ConnsInv
<1>19. \A j \in Of(Reading) \cup Of(Waiting) \cup Sent : j < i
  BY <1>3, <1>14 DEF InOrder, Before
<1>20. CASE ~conns[sconn].reader
  <2>1. RowsInv'
    BY <1>1, <1>2, <1>17, <1>20 DEF RowsInv
  <2>2. InOrder(Sent, Of(Reading), Of(Waiting), Queued')
    BY <1>5, <1>14, OrderShrinks
  <2>3. OrderInv'
    BY <1>1, <1>4, <1>5, <1>14, <1>15, <1>17, <1>20, <2>2 DEF OrderInv
  <2> QED BY <1>10, <1>11, <1>12, <1>13, <2>1, <2>3 DEF RawInv
<1>21. CASE conns[sconn].reader /\ rconn = sconn
  <2>1. Reading' = Reading \o h /\ Waiting' = Waiting /\ Waiting = <<>>
    BY <1>1, <1>17, <1>21
  <2>2. Row(Reading, arrived) /\ WholeRow(Reading) /\ Row(Waiting, arrived)
    BY <1>2, <1>9, <1>21 DEF RowsInv
  <2>3. Row(Reading \o h, arrived) /\ WholeRow(Reading \o h) /\ Of(Reading \o h) = Of(Reading) \cup {i}
    BY <1>6, <1>19, <2>2, RowGrows
  <2> HIDE DEF h
  <2>4. RowsInv'
    BY <1>1, <1>2, <2>1, <2>2, <2>3 DEF RowsInv
  <2>5. InOrder(Sent, Of(Reading) \cup {i}, Of(Waiting), Queued')
    <3>1. Of(Waiting) = {}
      BY <2>1, OfEmpty
    <3> QED BY <1>5, <1>14, <1>19, <3>1 DEF InOrder, Before
  <2>6. Of(Reading)' = Of(Reading) \cup {i} /\ Of(Waiting)' = Of(Waiting)
    BY <2>1, <2>3 DEF Of
  <2>7. OrderInv'
    BY <1>1, <1>4, <1>5, <1>14, <1>15, <2>5, <2>6 DEF OrderInv
  <2> QED BY <1>10, <1>11, <1>12, <1>13, <2>4, <2>7 DEF RawInv
<1>22. CASE conns[sconn].reader /\ waiting = sconn
  <2>1. Waiting' = Waiting \o h /\ Reading' = Reading
    BY <1>1, <1>17, <1>22
  <2>2. Row(Reading, arrived) /\ WholeRow(Waiting) /\ Row(Waiting, arrived)
    BY <1>2, <1>9, <1>22 DEF RowsInv
  <2>3. Row(Waiting \o h, arrived) /\ WholeRow(Waiting \o h) /\ Of(Waiting \o h) = Of(Waiting) \cup {i}
    BY <1>6, <1>19, <2>2, RowGrows
  <2> HIDE DEF h
  <2>4. RowsInv'
    BY <1>1, <1>2, <2>1, <2>2, <2>3 DEF RowsInv
  <2>5. InOrder(Sent, Of(Reading), Of(Waiting) \cup {i}, Queued')
    BY <1>5, <1>14, <1>19 DEF InOrder, Before
  <2>6. Of(Reading)' = Of(Reading) /\ Of(Waiting)' = Of(Waiting) \cup {i}
    BY <2>1, <2>3 DEF Of
  <2>7. OrderInv'
    BY <1>1, <1>4, <1>5, <1>14, <1>15, <2>5, <2>6 DEF OrderInv
  <2> QED BY <1>10, <1>11, <1>12, <1>13, <2>4, <2>7 DEF RawInv
<1> QED BY <1>18, <1>20, <1>21, <1>22

-----------------------------------------------------------------------------
(* The raw proxies: the steps of the receiver                              *)

\* The waiting connection is accepted: its line is read next, the one before had run empty.
LEMMA AcceptKeeps_Raw ==
  ASSUME RawInv, AcceptVsock
  PROVE  RawInv'
<1>1. /\ receiver = "accept" /\ waiting # 0 /\ rconn' = waiting /\ waiting' = 0 /\ receiver' = "read"
      /\ conns' = IF rconn = 0 THEN conns ELSE [conns EXCEPT ![rconn].reader = FALSE]
      /\ UNCHANGED <<path, arrived, nfqueue, sender, inHand, sconn, buf, out, rawFaults, exposed>>
  BY DEF AcceptVsock, senderVars
<1>2. RawTypes /\ ConnsInv /\ HandsInv
  BY DEF RawInv
<1>3. waiting = sconn /\ rconn # sconn /\ waiting \in 1..Len(conns) /\ DOMAIN conns = 1..Len(conns)
  BY <1>1, <1>2, ConnTypes, LineTypes DEF ConnsInv
<1>4. conns' = conns
  <2>1. CASE rconn = 0
    BY <1>1, <2>1
  <2>2. CASE rconn # 0
    <3>1. rconn \in DOMAIN conns /\ conns[rconn] \in Conn
      BY <1>2, <1>3, <2>2, ConnTypes, LineTypes
    <3>2. conns[rconn].reader = FALSE
      BY <1>2, <1>3, <3>1 DEF ConnsInv, Conn
    <3>3. [conns[rconn] EXCEPT !.reader = FALSE] = conns[rconn]
      BY <3>1, <3>2 DEF Conn
    <3>4. conns' = [conns EXCEPT ![rconn] = [conns[rconn] EXCEPT !.reader = FALSE]]
      BY <1>1, <2>2
    <3>5. conns \in Seq(Conn)
      BY <1>2 DEF RawTypes
    <3> QED BY <3>1, <3>3, <3>4, <3>5
  <2> QED BY <2>1, <2>2
<1>5. buf = <<>> /\ (rconn # 0 => conns[rconn].data = <<>>)
  BY <1>1, <1>2 DEF HandsInv
<1>6. Reading' = Waiting
  <2>1. Coming(rconn)' = Waiting
    BY <1>1, <1>3, <1>4 DEF Coming, InHandFor, Waiting
  <2>2. Waiting \in Seq(Pieces)
    BY <1>2, LineTypes
  <2>3. <<>> \o Waiting = Waiting
    BY <2>2, ConcatEmptySeq
  <2> QED BY <1>1, <1>5, <2>1, <2>3 DEF Reading
<1>7. Waiting' = <<>>
  BY <1>1 DEF Waiting, Coming
<1>8. RawTypes'
  <2>1. waiting \in 0..Len(conns) /\ 0 \in 0..Len(conns)
    BY <1>2, LineTypes DEF RawTypes, RawTypeOK
  <2> QED BY <1>1, <1>2, <1>4, <2>1 DEF RawTypes, RawTypeOK
<1>9. ConnsInv'
  <2>1. \A c \in DOMAIN conns : c \notin {waiting, 0} => conns[c].data = <<>>
    BY <1>2, <1>3, <1>5 DEF ConnsInv
  <2>2. \A c \in DOMAIN conns : conns[c].reader => conns[c].writer /\ c = sconn /\ c \in {waiting, 0}
    BY <1>2, <1>3 DEF ConnsInv
  <2> QED BY <1>1, <1>2, <1>4, <2>1, <2>2 DEF ConnsInv
<1>10. HandsInv'
  BY <1>1, <1>2, <1>5 DEF HandsInv
<1>11. RowsInv'
  <2>1. Row(<<>>, arrived)
    BY DEF Row
  <2> QED BY <1>1, <1>4, <1>6, <1>7, <2>1 DEF RawInv, RowsInv
<1>12. OrderInv'
  <2>1. Of(Waiting)' = {} /\ Of(Reading)' = Of(Waiting)
    BY <1>6, <1>7, OfEmpty DEF Of
  <2>2. InOrder(Sent, Of(Waiting), {}, Queued)
    BY DEF RawInv, OrderInv, InOrder, Before
  <2>3. Sent' = Sent /\ Queued' = Queued
    BY <1>1 DEF Sent, Queued
  <2> QED BY <1>1, <2>1, <2>2, <2>3 DEF RawInv, OrderInv
<1>13. DeadInv'
  <2>1. Of(buf') \subseteq exposed'
    BY <1>1, <1>5, OfEmpty
  <2> QED BY <1>1, <1>4, <2>1 DEF RawInv, DeadInv
<1>14. WholePackets'
  <2>1. Queued' = Queued
    BY <1>1 DEF Queued
  <2>2. InTransit \subseteq InTransit'
    BY <1>1, <1>4, <2>1, Transit
  <2> QED BY <1>1, <2>2, WholeKeeps DEF RawInv
<1> QED BY <1>8, <1>9, <1>10, <1>11, <1>12, <1>13, <1>14 DEF RawInv

\* A piece is read: it stays in the same place of its line.
LEMMA ReadPartKeeps_Raw ==
  ASSUME RawInv, ReadPart
  PROVE  RawInv'
<1> DEFINE d == conns[rconn].data  x == Head(d)  t == Tail(d)
<1>1. /\ receiver = "read" /\ ~Complete(buf) /\ d # <<>> /\ buf' = Append(buf, x)
      /\ conns' = [conns EXCEPT ![rconn].data = t]
      /\ UNCHANGED <<path, arrived, nfqueue, sender, inHand, sconn, receiver, rconn, waiting, out, rawFaults, exposed>>
  BY DEF ReadPart, senderVars
<1>2. RawTypes /\ ConnsInv /\ HandsInv
  BY DEF RawInv
<1>3. rconn # 0 /\ rconn \in 1..Len(conns) /\ DOMAIN conns = 1..Len(conns) /\ Len(conns) \in Nat
  BY <1>1, <1>2, ConnTypes, LineTypes DEF HandsInv
<1>4. d \in Seq(Pieces) /\ buf \in Seq(Pieces) /\ conns[rconn] \in Conn /\ InHandFor(rconn) \in Seq(Pieces)
  <2>1. rconn \in 0..Len(conns)
    BY <1>3
  <2> QED BY <1>2, <1>3, <2>1, LineTypes DEF RawTypes
<1> HIDE DEF d
<1>5. /\ x \in Pieces /\ buf' \in Seq(Pieces) /\ t \in Seq(Pieces) /\ x = d[1] /\ 1 \in 1..Len(d)
      /\ d = <<x>> \o t /\ buf' = buf \o <<x>> /\ buf' \o (t \o InHandFor(rconn)) = buf \o (d \o InHandFor(rconn))
  <2>1. x \in Pieces /\ t \in Seq(Pieces) /\ <<x>> \in Seq(Pieces) /\ x = d[1] /\ 1 \in 1..Len(d)
    BY <1>1, <1>4, HeadParts
  <2>2. <<x>> \o t = d
    BY <1>1, <1>4, HeadWhole
  <2> DEFINE h == InHandFor(rconn)  y == <<x>>
  <2> HIDE DEF h, x, t
  <2>3. buf' = buf \o y /\ buf' \in Seq(Pieces)
    BY <1>1, <1>4, <2>1, AppendIsConcat, AppendProperties
  <2>4. h \in Seq(Pieces) /\ y \in Seq(Pieces)
    BY <1>4, <2>1 DEF h
  <2> HIDE DEF y
  <2>5. (buf \o y) \o (t \o h) = buf \o ((y \o t) \o h)
    <3>1. buf \in Seq(Pieces) /\ t \in Seq(Pieces)
      BY <1>4, <2>1
    <3> DEFINE r == t \o h
    <3>2. r \in Seq(Pieces)
      BY <2>4, <3>1, ConcatProperties
    <3>3. (y \o t) \o h = y \o r
      BY <2>4, <3>1, Regrouped, ZenonT(60)
    <3> HIDE DEF r
    <3>4. (buf \o y) \o r = buf \o (y \o r)
      BY <2>4, <3>1, <3>2, Regrouped, ZenonT(60)
    <3>5. (buf \o y) \o r = buf \o ((y \o t) \o h)
      BY <3>3, <3>4, Zenon
    <3> QED BY <3>5 DEF r
  <2>6. y \o t = d
    BY <2>2 DEF y
  <2>7. buf' \o (t \o h) = buf \o (d \o h)
    BY <2>3, <2>5, <2>6, Zenon
  <2>8. d = y \o t
    BY <2>6, Zenon
  <2> QED BY <2>1, <2>3, <2>7, <2>8, Zenon DEF h, y
<1>6. /\ x[1] \in Of(d) /\ Of(t) \subseteq Of(d) /\ Of(d) \subseteq Of(t) \cup {x[1]}
      /\ Of(buf') = Of(buf) \cup {x[1]}
  <2>1. <<x>> \in Seq(Pieces) /\ Of(<<x>>) = {x[1]}
    BY <1>5 DEF Of
  <2> HIDE DEF x, t
  <2>2. Of(<<x>> \o t) = Of(<<x>>) \cup Of(t) /\ Of(buf \o <<x>>) = Of(buf) \cup Of(<<x>>)
    BY <1>4, <1>5, <2>1, OfJoined
  <2>3. Of(d) = {x[1]} \cup Of(t)
    BY <1>5, <2>1, <2>2
  <2>4. Of(buf') = Of(buf) \cup {x[1]}
    BY <1>5, <2>1, <2>2
  <2> QED BY <2>3, <2>4
<1> HIDE DEF x, t
<1>7. /\ conns' \in Seq(Conn) /\ Len(conns') = Len(conns) /\ DOMAIN conns' = DOMAIN conns
      /\ \A c \in DOMAIN conns : c # rconn => conns'[c] = conns[c]
      /\ \A c \in DOMAIN conns : conns'[c].reader = conns[c].reader /\ conns'[c].writer = conns[c].writer
      /\ conns'[rconn].data = t
  <2>1. conns \in Seq(Conn)
    BY <1>2 DEF RawTypes
  <2>2. [conns[rconn] EXCEPT !.data = t] \in Conn
    BY <1>4, <1>5 DEF Conn
  <2>3. conns' = [conns EXCEPT ![rconn] = [conns[rconn] EXCEPT !.data = t]]
    BY <1>1
  <2>4. conns' \in Seq(Conn) /\ Len(conns') = Len(conns)
    BY <1>3, <2>1, <2>2, <2>3
  <2>5. DOMAIN conns' = DOMAIN conns /\ \A c \in DOMAIN conns : c # rconn => conns'[c] = conns[c]
    BY <2>3
  <2>6. conns'[rconn] = [conns[rconn] EXCEPT !.data = t]
    BY <1>3, <2>3
  <2>7. /\ conns'[rconn].reader = conns[rconn].reader /\ conns'[rconn].writer = conns[rconn].writer
        /\ conns'[rconn].data = t
    BY <1>4, <2>6 DEF Conn
  <2> QED BY <2>4, <2>5, <2>7
<1>8. waiting # 0 => waiting \in DOMAIN conns /\ waiting # rconn
  BY <1>2, <1>3, ConnTypes DEF ConnsInv
<1>9. rconn \in DOMAIN conns
  BY <1>3
<1>10. Reading' = Reading
  <2>1. InHandFor(rconn)' = InHandFor(rconn)
    BY <1>1, <1>7, <1>9 DEF InHandFor
  <2>2. Reading' = buf' \o (t \o InHandFor(rconn))
    BY <1>1, <1>3, <1>7, <2>1 DEF Reading, Coming
  <2>3. Reading = buf \o (d \o InHandFor(rconn))
    BY <1>3 DEF Reading, Coming, d
  <2> QED BY <1>5, <2>2, <2>3, Zenon
<1>11. Waiting' = Waiting
  <2>1. CASE waiting = 0
    BY <1>1, <2>1 DEF Waiting, Coming
  <2>2. CASE waiting # 0
    <3>1. conns'[waiting] = conns[waiting]
      BY <1>7, <1>8, <2>2
    <3>2. InHandFor(waiting)' = InHandFor(waiting)
      BY <1>1, <3>1 DEF InHandFor
    <3>3. waiting' = waiting /\ conns'[waiting].data = conns[waiting].data
      BY <1>1, <3>1
    <3>4. Coming(waiting)' = Coming(waiting)
      BY <2>2, <3>2, <3>3 DEF Coming
    <3> QED BY <3>4 DEF Waiting
  <2> QED BY <2>1, <2>2
<1>12. Sent' = Sent /\ Queued' = Queued
  BY <1>1 DEF Sent, Queued
<1>13. RawTypes'
  BY <1>1, <1>2, <1>5, <1>7 DEF RawTypes, RawTypeOK
<1>14. ConnsInv'
  <2>1. \A c \in DOMAIN conns' : c \notin {rconn, waiting} => conns'[c].data = <<>>
    BY <1>2, <1>7 DEF ConnsInv
  <2>2. sconn # 0 => sconn \in DOMAIN conns
    BY <1>2, <1>3, ConnTypes
  <2> QED BY <1>1, <1>2, <1>7, <2>1, <2>2 DEF ConnsInv
<1>15. HandsInv'
  BY <1>1, <1>2 DEF HandsInv
<1>16. RowsInv'
  BY <1>1, <1>7, <1>8, <1>9, <1>10, <1>11 DEF RawInv, RowsInv
<1>17. OrderInv'
  BY <1>1, <1>10, <1>11, <1>12 DEF RawInv, OrderInv
<1>18. DeadInv'
  <2>1. ASSUME ~conns'[rconn].reader PROVE Of(conns'[rconn].data) \subseteq exposed /\ Of(buf') \subseteq exposed
    <3>1. Of(d) \subseteq exposed /\ Of(buf) \subseteq exposed
      BY <1>1, <1>3, <1>7, <1>9, <2>1 DEF RawInv, DeadInv, d
    <3> QED BY <1>6, <1>7, <3>1
  <2>2. ASSUME waiting # 0 PROVE conns'[waiting] = conns[waiting]
    BY <1>7, <1>8, <2>2
  <2> QED BY <1>1, <2>1, <2>2 DEF RawInv, DeadInv
<1>19. WholePackets'
  <2>1. ASSUME NEW j \in InTransit PROVE j \in InTransit'
    <3>1. CASE j \in Queued \/ j \in Of(buf) \/ j \in Of(inHand)
      BY <1>1, <1>6, <1>12, <3>1, Transit
    <3>2. ASSUME NEW c \in DOMAIN conns, j \in Of(conns[c].data) PROVE j \in InTransit'
      <4>1. CASE c # rconn
        BY <1>7, <3>2, <4>1, Transit
      <4>2. CASE c = rconn
        <5>1. j \in Of(t) \/ j = x[1]
          BY <1>6, <3>2, <4>2 DEF d
        <5> QED BY <1>6, <1>7, <1>9, <5>1, Transit
      <4> QED BY <4>1, <4>2
    <3> QED BY <2>1, <3>1, <3>2, Transit
  <2> QED BY <1>1, <2>1, WholeKeeps DEF RawInv
<1> QED BY <1>13, <1>14, <1>15, <1>16, <1>17, <1>18, <1>19 DEF RawInv

\* A connection has ended: what was read of its last packet has met the fault.
LEMMA ReadErrKeeps_Raw ==
  ASSUME RawInv, ReadErr
  PROVE  RawInv'
<1>1. /\ receiver = "read" /\ ~Complete(buf) /\ conns[rconn].data = <<>> /\ ~conns[rconn].writer
      /\ receiver' = "accept" /\ buf' = <<>>
      /\ UNCHANGED <<path, arrived, nfqueue, sender, inHand, sconn, rconn, conns, waiting, out, rawFaults, exposed>>
  BY DEF ReadErr, senderVars
<1>2. RawTypes /\ ConnsInv /\ HandsInv
  BY DEF RawInv
<1>3. rconn # 0 /\ rconn \in DOMAIN conns
  BY <1>1, <1>2, ConnTypes, LineTypes DEF HandsInv
<1>4. ~conns[rconn].reader
  BY <1>1, <1>2, <1>3 DEF ConnsInv
<1>5. Of(buf) \subseteq exposed
  BY <1>1, <1>3, <1>4 DEF RawInv, DeadInv
<1>6. Reading' = <<>>
  <2>1. Reading' = <<>> \o (<<>> \o <<>>)
    BY <1>1, <1>3, <1>4 DEF Reading, Coming, InHandFor
  <2> QED BY <2>1, OfEmpty, ConcatEmptySeq
<1>7. Waiting' = Waiting /\ Sent' = Sent /\ Queued' = Queued
  BY <1>1 DEF Waiting, Coming, InHandFor, Sent, Queued
<1>8. RawTypes'
  BY <1>1, <1>2, OfEmpty DEF RawTypes, RawTypeOK
<1>9. ConnsInv' /\ HandsInv'
  BY <1>1, <1>2, <1>4 DEF ConnsInv, HandsInv
<1>10. RowsInv'
  <2>1. Row(<<>>, arrived)
    BY DEF Row
  <2> QED BY <1>1, <1>4, <1>6, <1>7, <2>1 DEF RawInv, RowsInv
<1>11. OrderInv'
  <2>1. Of(Reading)' = {} /\ Of(Waiting)' = Of(Waiting)
    BY <1>6, <1>7, OfEmpty DEF Of
  <2>2. InOrder(Sent, {}, Of(Waiting), Queued)
    BY DEF RawInv, OrderInv, InOrder, Before
  <2> QED BY <1>1, <1>7, <2>1, <2>2 DEF RawInv, OrderInv
<1>12. DeadInv'
  <2>1. Of(buf') \subseteq exposed'
    BY <1>1, OfEmpty
  <2> QED BY <1>1, <2>1 DEF RawInv, DeadInv
<1>13. WholePackets'
  <2>1. InTransit \subseteq InTransit' \cup exposed'
    BY <1>1, <1>5, <1>7, Transit
  <2> QED BY <1>1, <2>1, WholeKeeps DEF RawInv
<1> QED BY <1>8, <1>9, <1>10, <1>11, <1>12, <1>13 DEF RawInv

-----------------------------------------------------------------------------
(* The raw proxies: the filter of the outgoing path                        *)

\* How many bits of octet o are in a prefix of n bits.
BitsOf(n, o) == IF n >= 8 * o THEN 8 ELSE IF n <= 8 * (o - 1) THEN 0 ELSE n - 8 * (o - 1)

\* The mask m and the value v are the block of the prefix of n bits of v.
Fits(m, v, n) ==
  \A o \in 1..4 : /\ v[o] \in 0..255 /\ Agreeing(BitsOf(n, o)) = 256 - m[o]
                 /\ 256 - m[o] \in {1, 2, 16, 64, 256} /\ v[o] % (256 - m[o]) = 0

\* An address has the masked value of a block exactly if its first bits agree.
LEMMA MaskAgrees ==
  ASSUME NEW ip \in Octets, NEW m, NEW v, NEW n, Fits(m, v, n)
  PROVE  (\A o \in 1..4 : Masked(ip[o], m[o]) = v[o]) <=> SamePrefix(ip, v, n)
<1>1. ASSUME NEW o \in 1..4
      PROVE  Masked(ip[o], m[o]) = v[o] <=> ip[o] \div Agreeing(BitsOf(n, o)) = v[o] \div Agreeing(BitsOf(n, o))
  <2> DEFINE k == 256 - m[o]  x == ip[o]  y == v[o]
  <2>1. k \in {1, 2, 16, 64, 256} /\ y % k = 0 /\ y \in 0..255 /\ Agreeing(BitsOf(n, o)) = k
    BY DEF Fits
  <2>2. x \in 0..255
    BY DEF Octets
  <2>3. Masked(ip[o], m[o]) = x - (x % k)
    BY DEF Masked
  <2> HIDE DEF k, x, y
  <2>4. x - (x % k) = y <=> x \div k = y \div k
    <3>1. k \in {1, 2, 16, 64, 256} /\ y % k = 0 /\ y \in 0..255
      BY <2>1
    <3>2. CASE k = 1
      BY <2>2, <3>1, <3>2
    <3>3. CASE k = 2
      BY <2>2, <3>1, <3>3
    <3>4. CASE k = 16
      BY <2>2, <3>1, <3>4
    <3>5. CASE k = 64
      BY <2>2, <3>1, <3>5
    <3>6. CASE k = 256
      BY <2>2, <3>1, <3>6
    <3> QED BY <3>1, <3>2, <3>3, <3>4, <3>5, <3>6
  <2> QED BY <2>1, <2>3, <2>4 DEF x, y
<1>2. SamePrefix(ip, v, n) <=> \A o \in 1..4 : ip[o] \div Agreeing(BitsOf(n, o)) = v[o] \div Agreeing(BitsOf(n, o))
  BY DEF SamePrefix, BitsOf
<1> QED BY <1>1, <1>2

\* The masks are the blocks their comments name.
LEMMA MasksFit ==
  /\ Fits(<<255, 0, 0, 0>>, <<0, 0, 0, 0>>, 8)
  /\ Fits(<<255, 0, 0, 0>>, <<10, 0, 0, 0>>, 8)
  /\ Fits(<<255, 192, 0, 0>>, <<100, 64, 0, 0>>, 10)
  /\ Fits(<<255, 0, 0, 0>>, <<127, 0, 0, 0>>, 8)
  /\ Fits(<<255, 255, 0, 0>>, <<169, 254, 0, 0>>, 16)
  /\ Fits(<<255, 240, 0, 0>>, <<172, 16, 0, 0>>, 12)
  /\ Fits(<<255, 255, 255, 0>>, <<192, 0, 0, 0>>, 24)
  /\ Fits(<<255, 255, 255, 0>>, <<192, 0, 2, 0>>, 24)
  /\ Fits(<<255, 255, 255, 0>>, <<192, 88, 99, 0>>, 24)
  /\ Fits(<<255, 255, 0, 0>>, <<192, 168, 0, 0>>, 16)
  /\ Fits(<<255, 254, 0, 0>>, <<198, 18, 0, 0>>, 15)
  /\ Fits(<<255, 255, 255, 0>>, <<198, 51, 100, 0>>, 24)
  /\ Fits(<<255, 255, 255, 0>>, <<203, 0, 113, 0>>, 24)
  /\ Fits(<<240, 0, 0, 0>>, <<224, 0, 0, 0>>, 4)
  /\ Fits(<<255, 255, 255, 0>>, <<233, 252, 0, 0>>, 24)
  /\ Fits(<<240, 0, 0, 0>>, <<240, 0, 0, 0>>, 4)
  /\ Fits(<<255, 255, 255, 255>>, <<255, 255, 255, 255>>, 32)
<1>1. Fits(<<255, 0, 0, 0>>, <<0, 0, 0, 0>>, 8)
  BY DEF Fits, Agreeing, BitsOf
<1>2. Fits(<<255, 0, 0, 0>>, <<10, 0, 0, 0>>, 8)
  BY DEF Fits, Agreeing, BitsOf
<1>3. Fits(<<255, 192, 0, 0>>, <<100, 64, 0, 0>>, 10)
  BY DEF Fits, Agreeing, BitsOf
<1>4. Fits(<<255, 0, 0, 0>>, <<127, 0, 0, 0>>, 8)
  BY DEF Fits, Agreeing, BitsOf
<1>5. Fits(<<255, 255, 0, 0>>, <<169, 254, 0, 0>>, 16)
  BY DEF Fits, Agreeing, BitsOf
<1>6. Fits(<<255, 240, 0, 0>>, <<172, 16, 0, 0>>, 12)
  BY DEF Fits, Agreeing, BitsOf
<1>7. Fits(<<255, 255, 255, 0>>, <<192, 0, 0, 0>>, 24)
  BY DEF Fits, Agreeing, BitsOf
<1>8. Fits(<<255, 255, 255, 0>>, <<192, 0, 2, 0>>, 24)
  BY DEF Fits, Agreeing, BitsOf
<1>9. Fits(<<255, 255, 255, 0>>, <<192, 88, 99, 0>>, 24)
  BY DEF Fits, Agreeing, BitsOf
<1>10. Fits(<<255, 255, 0, 0>>, <<192, 168, 0, 0>>, 16)
  BY DEF Fits, Agreeing, BitsOf
<1>11. Fits(<<255, 254, 0, 0>>, <<198, 18, 0, 0>>, 15)
  BY DEF Fits, Agreeing, BitsOf
<1>12. Fits(<<255, 255, 255, 0>>, <<198, 51, 100, 0>>, 24)
  BY DEF Fits, Agreeing, BitsOf
<1>13. Fits(<<255, 255, 255, 0>>, <<203, 0, 113, 0>>, 24)
  BY DEF Fits, Agreeing, BitsOf
<1>14. Fits(<<240, 0, 0, 0>>, <<224, 0, 0, 0>>, 4)
  BY DEF Fits, Agreeing, BitsOf
<1>15. Fits(<<255, 255, 255, 0>>, <<233, 252, 0, 0>>, 24)
  BY DEF Fits, Agreeing, BitsOf
<1>16. Fits(<<240, 0, 0, 0>>, <<240, 0, 0, 0>>, 4)
  BY DEF Fits, Agreeing, BitsOf
<1>17. Fits(<<255, 255, 255, 255>>, <<255, 255, 255, 255>>, 32)
  BY DEF Fits, Agreeing, BitsOf
<1> QED BY <1>1, <1>2, <1>3, <1>4, <1>5, <1>6, <1>7, <1>8, <1>9, <1>10, <1>11, <1>12, <1>13, <1>14, <1>15, <1>16, <1>17

\* The filter ignores the reserved blocks and nothing else.
LEMMA IgnoresBlocks ==
  ASSUME NEW ip \in Octets
  PROVE  IgnoredDst(ip) <=> Blocked(ip)
<1> DEFINE M(m, v) == \A o \in 1..4 : Masked(ip[o], m[o]) = v[o]
<1>1. \A m, v, n : Fits(m, v, n) => (M(m, v) <=> SamePrefix(ip, v, n))
  BY MaskAgrees
<1>2. IgnoredDst(ip) <=> \E r \in Reserved : M(r[1], r[2])
  BY DEF IgnoredDst
<1> HIDE DEF M
<1>3. ASSUME NEW r \in Reserved PROVE \E b \in ReservedBlocks : r[2] = b[1] /\ Fits(r[1], b[1], b[2])
  BY MasksFit, SMTT(60) DEF Reserved, ReservedBlocks
<1>4. ASSUME NEW b \in ReservedBlocks PROVE \E r \in Reserved : r[2] = b[1] /\ Fits(r[1], b[1], b[2])
  BY MasksFit, SMTT(60) DEF Reserved, ReservedBlocks
<1>5. IgnoredDst(ip) => Blocked(ip)
  BY <1>1, <1>2, <1>3 DEF Blocked
<1>6. Blocked(ip) => IgnoredDst(ip)
  BY <1>1, <1>2, <1>4 DEF Blocked
<1> QED BY <1>5, <1>6

\* What the receiver sends on is what is allowed.
LEMMA PassesAllowed ==
  ASSUME RawTypeOK, NEW i \in 1..Len(Packets)
  PROVE  Passes(Packets[i]) <=> Allowed(Packets[i])
<1>1. IgnoredDst(Packets[i].dst) <=> Blocked(Packets[i].dst)
  BY PacketTypes, IgnoresBlocks
<1>2. CASE path = "incoming"
  BY <1>2 DEF Passes, Allowed
<1>3. CASE path = "outgoing"
  <2> DEFINE p == Packets[i]
  <2>1. path # "incoming"
    BY <1>3
  <2>2. Passes(p) <=> /\ p.src = OwnIp /\ ~IgnoredDst(p.dst)
                      /\ p.port = 80 \/ p.port = 443 \/ p.port \in HighPorts
    BY <1>3, <2>1 DEF Passes
  <2>3. Allowed(p) <=> /\ p.src = OwnIp /\ p.port \in {80, 443} \cup HighPorts /\ ~Blocked(p.dst)
    BY <1>3, <2>1 DEF Allowed
  <2> HIDE DEF p
  <2>4. p.port \in {80, 443} \cup HighPorts <=> p.port = 80 \/ p.port = 443 \/ p.port \in HighPorts
    OBVIOUS
  <2> QED BY <1>1, <2>2, <2>3, <2>4, ZenonT(60) DEF p
<1> QED BY <1>2, <1>3 DEF RawTypeOK

-----------------------------------------------------------------------------
(* The raw proxies: the packets leave                                      *)

\* The packet that is complete is the whole first packet of the line, and the rest is in order.
LEMMA PacketRead ==
  ASSUME RawInv, Complete(buf), rconn # 0
  PROVE  /\ buf[1][1] \in 1..arrived /\ buf[1][1] \in 1..Len(Packets)
         /\ buf # <<>> /\ buf = Frame(buf[1][1]) /\ Of(buf) = {buf[1][1]}
         /\ Row(Coming(rconn), arrived)
         /\ conns[rconn].reader => WholeRow(Coming(rconn))
         /\ InOrder(Sent \cup {buf[1][1]}, Of(Coming(rconn)), Of(Waiting), Queued)
<1> DEFINE i == buf[1][1]  t == Coming(rconn)
<1>1. RawTypes
  BY DEF RawInv
<1>2. arrived \in Nat /\ arrived <= Len(Packets) /\ buf \in Seq(Pieces) /\ t \in Seq(Pieces)
  <2>1. rconn \in 0..Len(conns)
    BY <1>1 DEF RawTypes, RawTypeOK
  <2> QED BY <1>1, <2>1, LineTypes DEF RawTypes
<1>3. Row(buf \o t, arrived) /\ (conns[rconn].reader => WholeRow(buf \o t))
  BY DEF RawInv, RowsInv, Reading
<1>4. buf # <<>>
  BY DEF Complete
<1>5. InOrder(Sent, Of(buf \o t), Of(Waiting), Queued)
  BY DEF RawInv, OrderInv, Reading
<1>6. buf[1][2] = 1 => Len(buf) = Packets[buf[1][1]].pieces
  BY DEF Complete
<1> HIDE DEF t
<1>7. /\ buf = Frame(i) /\ i \in 1..arrived
      /\ Row(t, arrived) /\ (\A j \in Of(t) : i < j)
      /\ WholeRow(buf \o t) => WholeRow(t)
  BY <1>2, <1>3, <1>4, <1>6, RowPops
<1>8. i \in 1..Len(Packets)
  BY <1>2, <1>7, ArrivedId
<1>9. Of(buf) = {i}
  <2>1. Of(Frame(i)) = {i}
    BY <1>8, FrameProperties
  <2> QED BY <1>7, <2>1
<1>10. Of(buf \o t) = {i} \cup Of(t)
  BY <1>2, <1>9, OfJoined
<1> HIDE DEF i
<1>11. InOrder(Sent \cup {i}, Of(t), Of(Waiting), Queued)
  BY <1>5, <1>7, <1>10 DEF InOrder, Before
<1> QED BY <1>3, <1>4, <1>7, <1>8, <1>9, <1>11 DEF i, t

\* What the lines are when the packet is gone from the buffer.
LEMMA BufferGone ==
  ASSUME RawTypes, buf' = <<>>, UNCHANGED <<sconn, inHand, rconn, conns, waiting>>
  PROVE  Reading' = Coming(rconn) /\ Waiting' = Waiting
<1>1. Coming(rconn) \in Seq(Pieces)
  <2>1. rconn \in 0..Len(conns)
    BY DEF RawTypes, RawTypeOK
  <2> QED BY <2>1, LineTypes
<1>2. Reading' = <<>> \o Coming(rconn)
  BY DEF Reading, Coming, InHandFor
<1>3. Waiting' = Waiting
  BY DEF Waiting, Coming, InHandFor
<1> QED BY <1>1, <1>2, <1>3, ConcatEmptySeq

\* The packet in the buffer leaves the path, ignored, sent or lost, and the connections stay.
LEMMA PacketLeaves ==
  ASSUME RawInv, Complete(buf), receiver = "read", buf' = <<>>,
         UNCHANGED <<path, arrived, nfqueue, sender, inHand, sconn, rconn, conns, waiting>>,
         receiver' \in {"read", "ip"}, rawFaults' \in 0..MaxRawFaults,
         exposed \subseteq exposed', exposed' \subseteq exposed \cup Of(buf),
         out' \in Seq(Seq(Pieces)), Sent \subseteq Sent', Sent' \subseteq Sent \cup Of(buf),
         WholePackets'
  PROVE  RawInv'
<1> DEFINE i == buf[1][1]
<1>1. RawTypes /\ ConnsInv /\ HandsInv
  BY DEF RawInv
<1>2. rconn # 0
  BY <1>1 DEF HandsInv
<1>3. /\ i \in 1..arrived /\ i \in 1..Len(Packets) /\ Of(buf) = {i}
      /\ Row(Coming(rconn), arrived)
      /\ conns[rconn].reader => WholeRow(Coming(rconn))
      /\ InOrder(Sent \cup {i}, Of(Coming(rconn)), Of(Waiting), Queued)
  BY <1>2, PacketRead
<1>4. Reading' = Coming(rconn) /\ Waiting' = Waiting
  BY <1>1, BufferGone
<1> HIDE DEF i
<1>5. RawTypes'
  <2>1. exposed' \subseteq Ids
    BY <1>1, <1>3 DEF RawTypes, RawTypeOK, Ids
  <2> QED BY <1>1, <2>1, OfEmpty DEF RawTypes, RawTypeOK
<1>6. ConnsInv' /\ HandsInv'
  BY <1>1, <1>2 DEF ConnsInv, HandsInv
<1>7. RowsInv'
  BY <1>2, <1>3, <1>4 DEF RawInv, RowsInv
<1>8. OrderInv'
  <2>1. Queued' = Queued /\ Of(Reading)' = Of(Coming(rconn)) /\ Of(Waiting)' = Of(Waiting)
    BY <1>4 DEF Queued, Of
  <2>2. Sent' \subseteq Sent \cup {i}
    BY <1>3
  <2>3. InOrder(Sent', Of(Coming(rconn)), Of(Waiting), Queued)
    BY <1>3, <2>2, OrderShrinks
  <2> QED BY <2>1, <2>3 DEF RawInv, OrderInv
<1>9. DeadInv'
  <2>1. Of(buf') = {}
    BY OfEmpty
  <2> QED BY <2>1 DEF RawInv, DeadInv
<1> QED BY <1>5, <1>6, <1>7, <1>8, <1>9 DEF RawInv

\* A packet that does not pass is ignored.
LEMMA IgnoreKeeps_Raw ==
  ASSUME RawInv, Ignore
  PROVE  RawInv'
<1> DEFINE i == buf[1][1]
<1>1. /\ receiver = "read" /\ Complete(buf) /\ ~Passes(Packets[i]) /\ buf' = <<>>
      /\ UNCHANGED <<path, arrived, nfqueue, sender, inHand, sconn, receiver, rconn, conns, waiting, out, rawFaults, exposed>>
  BY DEF Ignore, senderVars
<1>2. rconn # 0 /\ RawTypeOK /\ out \in Seq(Seq(Pieces))
  BY <1>1 DEF RawInv, HandsInv, RawTypes
<1>3. i \in 1..Len(Packets) /\ Of(buf) = {i}
  BY <1>1, <1>2, PacketRead
<1>4. ~Allowed(Packets[i])
  BY <1>1, <1>2, <1>3, PassesAllowed
<1> HIDE DEF i
<1>5. Sent' = Sent
  BY <1>1 DEF Sent
<1>6. WholePackets'
  <2>1. \A p : Allowed(p)' <=> Allowed(p)
    BY <1>1 DEF Allowed
  <2>2. (\A n \in DOMAIN out : out[n] # <<>> /\ out[n][1][1] \in 1..arrived /\ out[n] = Frame(out[n][1][1]))'
    BY <1>1 DEF RawInv, WholePackets
  <2>3. (\A n \in DOMAIN out : Allowed(Packets[out[n][1][1]]))'
    BY <1>1, <2>1 DEF RawInv, WholePackets
  <2>4. (\A m, n \in DOMAIN out : m < n => out[m][1][1] < out[n][1][1])'
    BY <1>1 DEF RawInv, WholePackets
  <2>5. Queued' = Queued
    BY <1>1 DEF Queued
  <2>6. \A j \in InTransit : j = i \/ j \in InTransit'
    BY <1>1, <1>3, <2>5, Transit
  <2>7. ASSUME NEW j \in 1..arrived', Allowed(Packets[j])', j \notin exposed'
        PROVE  j \in InTransit' \/ \E n \in DOMAIN out' : out'[n] = Frame(j)
    <3>1. j \in 1..arrived /\ Allowed(Packets[j]) /\ j \notin exposed /\ j # i
      BY <1>1, <1>4, <2>1, <2>7
    <3>2. j \in InTransit \/ \E n \in DOMAIN out : out[n] = Frame(j)
      BY <3>1 DEF RawInv, WholePackets
    <3> QED BY <1>1, <2>6, <3>1, <3>2
  <2> QED BY <2>2, <2>3, <2>4, <2>7 DEF WholePackets
<1> QED BY <1>1, <1>2, <1>5, <1>6, PacketLeaves DEF RawTypeOK

\* A packet that passes is sent.
LEMMA SendToKeeps_Raw ==
  ASSUME RawInv, SendTo
  PROVE  RawInv'
<1> DEFINE i == buf[1][1]  L == Len(out)
<1>1. /\ receiver = "read" /\ Complete(buf) /\ Passes(Packets[i]) /\ buf' = <<>> /\ out' = Append(out, buf)
      /\ UNCHANGED <<path, arrived, nfqueue, sender, inHand, sconn, receiver, rconn, conns, waiting, rawFaults, exposed>>
  BY DEF SendTo, senderVars
<1>2. rconn # 0 /\ RawTypeOK /\ out \in Seq(Seq(Pieces)) /\ buf \in Seq(Pieces)
  BY <1>1 DEF RawInv, HandsInv, RawTypes
<1>3. /\ i \in 1..arrived /\ i \in 1..Len(Packets) /\ Of(buf) = {i} /\ buf # <<>> /\ buf = Frame(i)
      /\ InOrder(Sent \cup {i}, Of(Coming(rconn)), Of(Waiting), Queued)
  BY <1>1, <1>2, PacketRead
<1>4. Allowed(Packets[i])
  BY <1>1, <1>2, <1>3, PassesAllowed
<1>5. /\ out' \in Seq(Seq(Pieces)) /\ L \in Nat /\ DOMAIN out = 1..L /\ DOMAIN out' = 1..(L + 1)
      /\ out'[L + 1] = buf /\ \A n \in 1..L : out'[n] = out[n]
  BY <1>1, <1>2, AppendProperties, LenProperties
<1> HIDE DEF L
<1>6. /\ \A n \in DOMAIN out' : (n \in DOMAIN out /\ out'[n] = out[n]) \/ (n = L + 1 /\ out'[n] = buf)
      /\ \A n \in DOMAIN out : n \in DOMAIN out' /\ out'[n] = out[n] /\ n < L + 1
      /\ L + 1 \in DOMAIN out' /\ L + 1 \notin DOMAIN out /\ out'[L + 1] = buf
      /\ DOMAIN out' \subseteq Int /\ \A n \in DOMAIN out' : n <= L + 1
  BY <1>5
<1>7. Sent \subseteq Sent' /\ Sent' \subseteq Sent \cup {i}
  BY <1>6 DEF Sent
<1>8. \A j \in Sent : j < i
  <2>1. i \in Of(Reading)
    <3>1. Coming(rconn) \in Seq(Pieces)
      <4>1. rconn \in 0..Len(conns)
        BY <1>2 DEF RawTypeOK
      <4> QED BY <4>1, LineTypes DEF RawInv
    <3>2. Of(Reading) = Of(buf) \cup Of(Coming(rconn))
      BY <1>2, <3>1, OfJoined DEF Reading
    <3> QED BY <1>3, <3>2
  <2> QED BY <2>1 DEF RawInv, OrderInv, InOrder, Before
<1> HIDE DEF i
<1>9. buf[1][1] = i
  BY DEF i
<1>10. WholePackets'
  <2>1. \A p : Allowed(p)' <=> Allowed(p)
    BY <1>1 DEF Allowed
  <2>2. \A n \in DOMAIN out' : out'[n] # <<>> /\ out'[n][1][1] \in 1..arrived /\ out'[n] = Frame(out'[n][1][1])
    BY <1>3, <1>6, <1>9 DEF RawInv, WholePackets
  <2>3. \A n \in DOMAIN out' : Allowed(Packets[out'[n][1][1]])
    BY <1>4, <1>6, <1>9 DEF RawInv, WholePackets
  <2>4. ASSUME NEW m \in DOMAIN out', NEW n \in DOMAIN out', m < n PROVE out'[m][1][1] < out'[n][1][1]
    <3>1. m \in DOMAIN out /\ out'[m] = out[m] /\ out[m][1][1] \in Sent
      BY <1>5, <1>6, <2>4 DEF Sent
    <3>2. CASE n \in DOMAIN out /\ out'[n] = out[n]
      BY <2>4, <3>1, <3>2 DEF RawInv, WholePackets
    <3>3. CASE out'[n] = buf
      BY <1>8, <1>9, <3>1, <3>3
    <3> QED BY <1>6, <3>2, <3>3
  <2>5. Queued' = Queued
    BY <1>1 DEF Queued
  <2>6. \A j \in InTransit : j = i \/ j \in InTransit'
    BY <1>1, <1>3, <2>5, Transit
  <2>7. ASSUME NEW j \in 1..arrived', Allowed(Packets[j])', j \notin exposed'
        PROVE  j \in InTransit' \/ \E n \in DOMAIN out' : out'[n] = Frame(j)
    <3>1. CASE j = i
      BY <1>3, <1>6, <3>1
    <3>2. CASE j # i
      <4>1. j \in 1..arrived /\ Allowed(Packets[j]) /\ j \notin exposed
        BY <1>1, <2>1, <2>7
      <4>2. j \in InTransit \/ \E n \in DOMAIN out : out[n] = Frame(j)
        BY <4>1 DEF RawInv, WholePackets
      <4> QED BY <1>6, <2>6, <3>2, <4>2
    <3> QED BY <3>1, <3>2
  <2>8. (\A n \in DOMAIN out : Allowed(Packets[out[n][1][1]]))'
    BY <1>1, <2>1, <2>3 DEF Allowed
  <2> QED BY <1>1, <2>2, <2>4, <2>7, <2>8 DEF WholePackets
<1> QED BY <1>1, <1>2, <1>3, <1>5, <1>7, <1>10, PacketLeaves DEF RawTypeOK

-----------------------------------------------------------------------------
(* The raw proxies: the faults of the receiver and of the connection       *)

\* Sending a packet on fails on the incoming path: only the packet is lost.
LEMMA SendToErrIncoming_Raw ==
  ASSUME RawInv, SendToErr, path = "incoming"
  PROVE  RawInv'
<1>1. /\ receiver = "read" /\ Complete(buf) /\ buf' = <<>> /\ receiver' = "ip"
      /\ rawFaults < MaxRawFaults /\ rawFaults' = rawFaults + 1 /\ exposed' = exposed \cup Of(buf)
      /\ UNCHANGED <<path, arrived, nfqueue, sender, inHand, sconn, rconn, conns, waiting, out>>
  BY DEF SendToErr, RawFault, senderVars
<1>2. rawFaults' \in 0..MaxRawFaults
  BY <1>1, RawAssumption DEF RawInv, RawTypes, RawTypeOK
<1>3. Sent' = Sent /\ Queued' = Queued /\ out' \in Seq(Seq(Pieces))
  BY <1>1 DEF Sent, Queued, RawInv, RawTypes
<1>4. WholePackets'
  <2>1. InTransit \subseteq InTransit' \cup exposed'
    BY <1>1, <1>3, Transit
  <2> QED BY <1>1, <2>1, WholeKeeps DEF RawInv
<1> QED BY <1>1, <1>2, <1>3, <1>4, PacketLeaves

\* It fails on the outgoing path: the process ends, and all that was on its connections is lost.
LEMMA SendToErrOutgoing_Raw ==
  ASSUME RawInv, SendToErr, path # "incoming"
  PROVE  RawInv'
<1> DEFINE Mine == {rconn, waiting} \ {0}
           lost == UNION {Of(conns[c].data) : c \in Mine}
           Shut(c) == [conns[c] EXCEPT !.reader = FALSE, !.data = <<>>]
<1>1. /\ receiver = "read" /\ Complete(buf) /\ buf' = <<>> /\ receiver' = "down" /\ rconn' = 0 /\ waiting' = 0
      /\ rawFaults < MaxRawFaults /\ rawFaults' = rawFaults + 1 /\ exposed' = exposed \cup (Of(buf) \cup lost)
      /\ conns' = [c \in DOMAIN conns |-> IF c \in Mine THEN Shut(c) ELSE conns[c]]
      /\ UNCHANGED <<path, arrived, nfqueue, sender, inHand, sconn, out>>
  BY ZenonT(60) DEF SendToErr, RawFault, ConnsOfReceiver, senderVars
<1>2. RawTypes /\ ConnsInv /\ HandsInv
  BY DEF RawInv
<1>3. /\ DOMAIN conns = 1..Len(conns) /\ Len(conns) \in Nat /\ \A c \in 1..Len(conns) : conns[c] \in Conn
  BY <1>2, LineTypes
<1>4. Mine \subseteq DOMAIN conns
  BY <1>2, <1>3, ConnTypes
<1>5. \A c \in 1..Len(conns) : /\ Shut(c) \in Conn /\ Shut(c).data = <<>> /\ Shut(c).reader = FALSE
                               /\ Shut(c).writer = conns[c].writer
  BY <1>3, OfEmpty DEF Conn
<1> HIDE DEF Shut
<1>6. \A c \in 1..Len(conns) : (IF c \in Mine THEN Shut(c) ELSE conns[c]) \in Conn
  BY <1>3, <1>5
<1>7. /\ conns' \in Seq(Conn) /\ Len(conns') = Len(conns) /\ DOMAIN conns' = DOMAIN conns
      /\ \A c \in DOMAIN conns : conns'[c].data = <<>> /\ ~conns'[c].reader
  <2> DEFINE L == Len(conns)
  <2>1. conns' = [c \in 1..L |-> IF c \in Mine THEN Shut(c) ELSE conns[c]]
    BY <1>1, <1>3
  <2> HIDE DEF L
  <2>2. conns' \in [1..L -> Conn]
    BY <1>6, <2>1 DEF L
  <2>3. conns' \in Seq(Conn) /\ Len(conns') = L /\ DOMAIN conns' = 1..L
    BY <1>3, <2>2 DEF L
  <2>4. ASSUME NEW c \in DOMAIN conns PROVE conns'[c].data = <<>> /\ ~conns'[c].reader
    <3>1. CASE c \in Mine
      BY <1>1, <1>3, <1>5, <3>1
    <3>2. CASE c \notin Mine
      <4>1. c \notin {rconn, waiting}
        BY <1>3, <3>2
      <4>2. conns'[c] = conns[c]
        BY <1>1, <3>2
      <4> QED BY <1>2, <4>1, <4>2 DEF ConnsInv
    <3> QED BY <3>1, <3>2
  <2> QED BY <1>3, <2>3, <2>4 DEF L
<1>8. Reading' = <<>> /\ Waiting' = <<>>
  <2>1. Waiting' = <<>>
    BY <1>1 DEF Waiting, Coming
  <2>2. Reading' = <<>> \o <<>>
    BY <1>1 DEF Reading, Coming
  <2> QED BY <2>1, <2>2, OfEmpty, ConcatEmptySeq
<1>9. Sent' = Sent /\ Queued' = Queued
  BY <1>1 DEF Sent, Queued
<1>10. Of(buf) \subseteq Ids /\ lost \subseteq Ids
  <2>1. arrived \in Nat /\ arrived <= Len(Packets) /\ Len(Packets) \in Nat
    BY <1>2, LineTypes, RawAssumption
  <2>2. 1..arrived \subseteq Ids
    BY <2>1 DEF Ids
  <2>3. Reading \in Seq(Pieces) /\ Waiting \in Seq(Pieces) /\ buf \in Seq(Pieces)
    BY <1>2, LineTypes DEF RawTypes
  <2>4. Of(Reading) \subseteq 1..arrived /\ Of(Waiting) \subseteq 1..arrived
    BY <2>3, RowIds DEF RawInv, RowsInv
  <2>5. rconn # 0 /\ rconn \in 0..Len(conns) /\ waiting \in 0..Len(conns)
    BY <1>1, <1>2 DEF HandsInv, RawTypes, RawTypeOK
  <2>6. Of(Reading) = Of(buf) \cup Of(Coming(rconn)) /\ Coming(rconn) \in Seq(Pieces)
    BY <1>2, <2>3, <2>5, LineTypes, OfJoined DEF Reading
  <2>7. \A c \in Mine : Of(conns[c].data) \subseteq Of(Coming(c))
    <3> SUFFICES ASSUME NEW c \in Mine PROVE Of(conns[c].data) \subseteq Of(Coming(c))
      OBVIOUS
    <3>0. c \in 1..Len(conns) /\ c \in 0..Len(conns) /\ c # 0
      BY <1>3, <1>4
    <3>1. conns[c].data \in Seq(Pieces) /\ InHandFor(c) \in Seq(Pieces) /\ c # 0
      BY <1>2, <3>0, LineTypes
    <3> QED BY <3>1, OfJoined DEF Coming
  <2>8. \A c \in Mine : Of(Coming(c)) \subseteq 1..arrived
    BY <2>4, <2>6 DEF Waiting
  <2> QED BY <2>2, <2>4, <2>6, <2>7, <2>8
<1>11. RawTypes'
  <2>1. rawFaults' \in 0..MaxRawFaults
    <3>1. rawFaults \in 0..MaxRawFaults
      BY <1>2 DEF RawTypes, RawTypeOK
    <3> QED BY <3>1, <1>1, RawAssumption
  <2>2. 0 \in 0..Len(conns') /\ exposed' \subseteq Ids
    BY <1>1, <1>2, <1>3, <1>7, <1>10 DEF RawTypes, RawTypeOK
  <2> QED BY <1>1, <1>2, <1>7, <2>1, <2>2, OfEmpty DEF RawTypes, RawTypeOK
<1>12. ConnsInv'
  <2>1. sconn # 0 => sconn \in DOMAIN conns
    BY <1>2, <1>3, ConnTypes
  <2> QED BY <1>1, <1>2, <1>7, <2>1 DEF ConnsInv
<1>13. HandsInv'
  BY <1>1, <1>2 DEF HandsInv
<1>14. RowsInv'
  <2>1. Row(<<>>, arrived)
    BY DEF Row
  <2> QED BY <1>1, <1>8, <2>1 DEF RowsInv
<1>15. OrderInv'
  <2>1. Of(Reading)' = {} /\ Of(Waiting)' = {}
    BY <1>8, OfEmpty DEF Of
  <2>2. InOrder(Sent, {}, {}, Queued)
    BY OrderShrinks DEF RawInv, OrderInv
  <2> QED BY <1>1, <1>9, <2>1, <2>2 DEF RawInv, OrderInv
<1>16. DeadInv'
  BY <1>1 DEF DeadInv
<1>17. WholePackets'
  <2>1. ASSUME NEW j \in InTransit PROVE j \in InTransit' \/ j \in exposed'
    <3>1. CASE j \in Queued \/ j \in Of(inHand) \/ j \in Of(buf)
      BY <1>1, <1>9, <3>1, Transit
    <3>2. ASSUME NEW c \in DOMAIN conns, j \in Of(conns[c].data) PROVE j \in exposed'
      <4>1. c \in Mine
        BY <1>2, <1>3, <3>2, OfEmpty DEF ConnsInv
      <4> QED BY <1>1, <3>2, <4>1
    <3> QED BY <2>1, <3>1, <3>2, Transit
  <2> QED BY <1>1, <2>1, WholeKeeps DEF RawInv
<1> QED BY <1>11, <1>12, <1>13, <1>14, <1>15, <1>16, <1>17 DEF RawInv

\* A line that is cut.
LEMMA CutLine ==
  ASSUME NEW f \in Seq(Pieces), NEW d \in Seq(Pieces), NEW h \in Seq(Pieces), NEW u \in Seq(Pieces),
         Len(u) <= Len(d), \A b \in 1..Len(u) : u[b] = d[b]
  PROVE  /\ f \o (d \o h) \in Seq(Pieces) /\ f \o u \in Seq(Pieces) /\ Len(f \o u) <= Len(f \o (d \o h))
         /\ \A b \in 1..Len(f \o u) : (f \o u)[b] = (f \o (d \o h))[b]
<1> DEFINE e == d \o h  s == f \o e  t == f \o u
<1>1. /\ e \in Seq(Pieces) /\ \A b \in 1..Len(d) : e[b] = d[b] /\ b \in 1..Len(e)
      /\ Len(e) = Len(d) + Len(h) /\ Len(h) \in Nat /\ Len(d) \in Nat
  BY Joined
<1> HIDE DEF e
<1>2. /\ s \in Seq(Pieces) /\ Len(s) = Len(f) + Len(e) /\ Len(f) \in Nat
      /\ \A b \in 1..Len(f) : s[b] = f[b]
      /\ \A b \in 1..Len(e) : s[Len(f) + b] = e[b]
  <2>1. e \in Seq(Pieces)
    BY <1>1
  <2> QED BY <2>1, Joined
<1>3. /\ t \in Seq(Pieces) /\ Len(t) = Len(f) + Len(u) /\ Len(u) \in Nat
      /\ \A b \in 1..Len(f) : t[b] = f[b]
      /\ \A b \in 1..Len(u) : t[Len(f) + b] = u[b]
      /\ \A b \in 1..Len(t) : b \in 1..Len(f) \/ \E a \in 1..Len(u) : b = Len(f) + a
  BY Joined
<1> HIDE DEF s, t
<1>4. ASSUME NEW b \in 1..Len(t) PROVE t[b] = s[b]
  <2>1. CASE b \in 1..Len(f)
    BY <1>2, <1>3, <2>1
  <2>2. ASSUME NEW a \in 1..Len(u), b = Len(f) + a PROVE t[b] = s[b]
    <3>1. u[a] = d[a] /\ a \in 1..Len(d)
      BY <1>1, <1>3
    <3>2. e[a] = d[a] /\ a \in 1..Len(e)
      BY <1>1, <3>1
    <3> QED BY <1>2, <1>3, <2>2, <3>1, <3>2
  <2> QED BY <1>3, <2>1, <2>2
<1>5. Len(t) <= Len(s)
  BY <1>1, <1>2, <1>3
<1> QED BY <1>2, <1>3, <1>4, <1>5 DEF e, s, t

\* The connection is reset: its line is cut, and what is left of it has met the fault.
LEMMA ResetKeeps_Raw ==
  ASSUME RawInv, ResetVsock
  PROVE  RawInv'
<1> DEFINE d == conns[sconn].data  half == IF rconn = sconn /\ ~Complete(buf) THEN Of(buf) ELSE {}
<1>0. PICK k \in 0..Len(d) :
        conns' = [conns EXCEPT ![sconn] = [data |-> SubSeq(d, 1, k), writer |-> FALSE, reader |-> FALSE]]
  BY DEF ResetVsock
<1> DEFINE u == SubSeq(d, 1, k)
<1>1. /\ sconn # 0 /\ conns[sconn].writer /\ conns[sconn].reader
      /\ rawFaults < MaxRawFaults /\ rawFaults' = rawFaults + 1 /\ exposed' = exposed \cup (Of(d) \cup half)
      /\ UNCHANGED <<path, arrived, nfqueue, sender, inHand, sconn, receiver, rconn, buf, waiting, out>>
  BY DEF ResetVsock, RawFault, senderVars, receiverVars
<1>2. RawTypes /\ ConnsInv /\ HandsInv
  BY DEF RawInv
<1>3. /\ sconn \in 1..Len(conns) /\ DOMAIN conns = 1..Len(conns) /\ Len(conns) \in Nat
      /\ d \in Seq(Pieces) /\ buf \in Seq(Pieces) /\ inHand \in Seq(Pieces) /\ arrived \in Nat /\ arrived <= Len(Packets)
  BY <1>1, <1>2, ConnTypes, LineTypes DEF RawTypes
<1> HIDE DEF d, half
<1>4. /\ u \in Seq(Pieces) /\ Len(u) = k /\ k \in Nat /\ k <= Len(d) /\ Len(d) \in Nat
      /\ \A b \in 1..k : u[b] = d[b]
  <2>1. k \in 0..Len(d) /\ Len(d) \in Nat
    BY <1>0, <1>3
  <2>2. \A b \in 1..k : d[b] \in Pieces
    BY <1>3, <2>1
  <2> QED BY <2>1, <2>2, SubSeqProperties
<1> HIDE DEF u
<1>5. Of(u) \subseteq Of(d)
  <2>1. \A b \in 1..Len(u) : b \in 1..Len(d) /\ u[b] = d[b]
    BY <1>4
  <2> QED BY <1>3, <1>4, <2>1, OfPart
<1>6. /\ conns' \in Seq(Conn) /\ Len(conns') = Len(conns) /\ DOMAIN conns' = DOMAIN conns
      /\ \A c \in DOMAIN conns : c # sconn => conns'[c] = conns[c]
      /\ conns'[sconn].data = u /\ ~conns'[sconn].reader /\ ~conns'[sconn].writer
  <2>1. conns \in Seq(Conn)
    BY <1>2 DEF RawTypes
  <2> DEFINE r == [data |-> u, writer |-> FALSE, reader |-> FALSE]
  <2>2. r \in Conn /\ r.data = u /\ r.reader = FALSE /\ r.writer = FALSE
    BY <1>4 DEF Conn
  <2>3. conns' = [conns EXCEPT ![sconn] = r]
    BY <1>0 DEF u
  <2> HIDE DEF r
  <2>4. conns' \in Seq(Conn) /\ Len(conns') = Len(conns)
    BY <1>3, <2>1, <2>2, <2>3
  <2>5. DOMAIN conns' = DOMAIN conns /\ conns'[sconn] = r /\ \A c \in DOMAIN conns : c # sconn => conns'[c] = conns[c]
    BY <1>3, <2>3
  <2> QED BY <2>2, <2>4, <2>5
<1>7. sconn \in {rconn, waiting} /\ (waiting # 0 => waiting = sconn /\ rconn # sconn)
  BY <1>1, <1>2, <1>3 DEF ConnsInv
<1>8. Coming(sconn) = d \o inHand /\ Coming(sconn)' = u
  <2>1. Coming(sconn) = d \o inHand
    BY <1>1 DEF Coming, InHandFor, d
  <2>2. Coming(sconn)' = u \o <<>>
    BY <1>1, <1>6 DEF Coming, InHandFor
  <2>3. u \o <<>> = u
    BY <1>4, ConcatEmptySeq
  <2> QED BY <2>1, <2>2, <2>3
<1>9. ASSUME NEW c \in 0..Len(conns), c # sconn PROVE Coming(c)' = Coming(c)
  <2>1. CASE c = 0
    BY <2>1 DEF Coming
  <2>2. CASE c # 0
    <3>1. conns'[c] = conns[c]
      BY <1>3, <1>6, <1>9, <2>2
    <3>2. InHandFor(c)' = <<>> /\ InHandFor(c) = <<>>
      BY <1>1, <1>9 DEF InHandFor
    <3> QED BY <2>2, <3>1, <3>2 DEF Coming
  <2> QED BY <2>1, <2>2
<1>10. RawTypes'
  <2>1. rawFaults' \in 0..MaxRawFaults
    BY <1>1, <1>2, RawAssumption DEF RawTypes, RawTypeOK
  <2>2. Of(d) \subseteq 1..arrived /\ half \subseteq 1..arrived
    <3>1. Reading \in Seq(Pieces) /\ Waiting \in Seq(Pieces) /\ Coming(rconn) \in Seq(Pieces)
      <4>1. rconn \in 0..Len(conns)
        BY <1>2 DEF RawTypes, RawTypeOK
      <4> QED BY <1>2, <4>1, LineTypes
    <3>2. Of(Reading) \subseteq 1..arrived /\ Of(Waiting) \subseteq 1..arrived
      BY <3>1, RowIds DEF RawInv, RowsInv
    <3>3. Of(Reading) = Of(buf) \cup Of(Coming(rconn))
      BY <1>3, <3>1, OfJoined DEF Reading
    <3>4. Of(Coming(sconn)) = Of(d) \cup Of(inHand)
      BY <1>3, <1>8, OfJoined
    <3>5. Of(Coming(sconn)) \subseteq 1..arrived
      BY <1>7, <3>2, <3>3 DEF Waiting
    <3> QED BY <3>2, <3>3, <3>4, <3>5 DEF half
  <2>3. exposed' \subseteq Ids
    <3>1. 1..arrived \subseteq Ids
      BY <1>3, RawAssumption DEF Ids
    <3> QED BY <1>1, <1>2, <2>2, <3>1 DEF RawTypes, RawTypeOK
  <2> QED BY <1>1, <1>2, <1>6, <2>1, <2>3 DEF RawTypes, RawTypeOK
<1>11. ConnsInv'
  <2>1. \A c \in DOMAIN conns' : c \notin {rconn, waiting} => conns'[c].data = <<>>
    BY <1>2, <1>6, <1>7 DEF ConnsInv
  <2>2. \A c \in DOMAIN conns' : ~conns'[c].reader
    BY <1>2, <1>6 DEF ConnsInv
  <2>3. ~conns'[sconn].reader
    BY <1>6
  <2> QED BY <1>1, <1>2, <1>6, <2>1, <2>2, <2>3 DEF ConnsInv
<1>12. rconn # 0 => rconn \in DOMAIN conns
  BY <1>2, <1>3, ConnTypes
<1>13. HandsInv'
  <2>1. receiver = "accept" /\ rconn # 0 => conns'[rconn].data = <<>> /\ ~conns'[rconn].reader
    BY <1>1, <1>2, <1>6, <1>12 DEF HandsInv
  <2> QED BY <1>1, <1>2, <2>1 DEF HandsInv
<1>14. WholePackets'
  <2>1. ASSUME NEW j \in InTransit PROVE j \in InTransit' \/ j \in exposed'
    <3>1. Queued' = Queued
      BY <1>1 DEF Queued
    <3>2. CASE j \in Queued \/ j \in Of(inHand) \/ j \in Of(buf)
      BY <1>1, <3>1, <3>2, Transit
    <3>3. ASSUME NEW c \in DOMAIN conns, j \in Of(conns[c].data) PROVE j \in InTransit' \/ j \in exposed'
      <4>1. CASE c = sconn
        BY <1>1, <3>3, <4>1 DEF d
      <4>2. CASE c # sconn
        BY <1>6, <3>3, <4>2, Transit
      <4> QED BY <4>1, <4>2
    <3> QED BY <2>1, <3>2, <3>3, Transit
  <2> QED BY <1>1, <2>1, WholeKeeps DEF RawInv
<1>15. Sent' = Sent /\ Queued' = Queued
  BY <1>1 DEF Sent, Queued
<1>16. Complete(buf)' <=> Complete(buf)
  BY <1>1 DEF Complete
<1>17. CASE rconn = sconn
  <2>1. waiting = 0 /\ Waiting = <<>> /\ Waiting' = <<>>
    BY <1>1, <1>7, <1>17 DEF Waiting, Coming
  <2>2. Reading = buf \o (d \o inHand) /\ Reading' = buf \o u
    BY <1>1, <1>8, <1>17 DEF Reading
  <2> DEFINE s == buf \o (d \o inHand)  t == buf \o u
  <2>3. Row(t, arrived) /\ Of(t) \subseteq Of(s)
    <3>1. s \in Seq(Pieces) /\ t \in Seq(Pieces) /\ Len(t) <= Len(s) /\ \A b \in 1..Len(t) : t[b] = s[b]
      <4>1. Len(u) <= Len(d) /\ \A b \in 1..Len(u) : u[b] = d[b]
        BY <1>4
      <4> QED BY <1>3, <1>4, <4>1, CutLine, SMTT(30)
    <3>2. Row(s, arrived)
      BY <2>2 DEF RawInv, RowsInv
    <3> HIDE DEF s, t
    <3> QED BY <1>3, <3>1, <3>2, RowCut
  <2> HIDE DEF s, t
  <2>4. Reading' = t /\ Reading = s
    BY <2>2 DEF s, t
  <2>5. RowsInv'
    <3>1. Row(<<>>, arrived)
      BY DEF Row
    <3> QED BY <1>1, <1>6, <1>17, <2>1, <2>3, <2>4, <3>1 DEF RowsInv
  <2>6. OrderInv'
    <3>1. Of(Reading)' = Of(t) /\ Of(Waiting)' = Of(Waiting)
      BY <2>1, <2>4 DEF Of
    <3>2. InOrder(Sent, Of(s), Of(Waiting), Queued)
      BY <2>4 DEF RawInv, OrderInv
    <3>3. InOrder(Sent, Of(t), Of(Waiting), Queued)
      BY <2>3, <3>2, OrderShrinks
    <3> QED BY <1>1, <1>15, <3>1, <3>3 DEF RawInv, OrderInv
  <2>7. DeadInv'
    <3>1. Of(conns'[rconn].data) \subseteq exposed'
      BY <1>1, <1>5, <1>6, <1>17
    <3>2. Of(buf') \subseteq exposed' \/ Complete(buf)'
      BY <1>1, <1>16, <1>17 DEF half
    <3> QED BY <1>1, <2>1, <3>1, <3>2 DEF DeadInv
  <2> QED BY <1>10, <1>11, <1>13, <1>14, <2>5, <2>6, <2>7 DEF RawInv
<1>18. CASE waiting = sconn
  <2>1. rconn # sconn /\ rconn \in 0..Len(conns)
    BY <1>1, <1>2, <1>7, <1>18 DEF RawTypes, RawTypeOK
  <2>2. Reading' = Reading
    <3>1. Coming(rconn)' = Coming(rconn)
      BY <1>1, <1>9, <2>1 DEF Coming, InHandFor
    <3> QED BY <1>1, <3>1 DEF Reading
  <2> DEFINE s == d \o inHand
  <2>3. Waiting = s /\ Waiting' = u
    BY <1>1, <1>8, <1>18 DEF Waiting
  <2>4. Row(u, arrived) /\ Of(u) \subseteq Of(s)
    <3>1. /\ s \in Seq(Pieces) /\ \A b \in 1..Len(d) : s[b] = d[b]
          /\ Len(s) = Len(d) + Len(inHand) /\ Len(inHand) \in Nat
      BY <1>3, Joined
    <3>2. Row(s, arrived)
      BY <2>3 DEF RawInv, RowsInv
    <3> HIDE DEF s
    <3>3. Len(u) <= Len(s) /\ \A b \in 1..Len(u) : u[b] = s[b]
      BY <1>4, <3>1
    <3> QED BY <1>3, <1>4, <3>1, <3>2, <3>3, RowCut
  <2> HIDE DEF s
  <2>5. RowsInv'
    <3>1. rconn # 0 => conns'[rconn] = conns[rconn]
      BY <1>6, <1>12, <2>1
    <3> QED BY <1>1, <1>6, <1>18, <2>2, <2>3, <2>4, <3>1 DEF RawInv, RowsInv
  <2>6. OrderInv'
    <3>1. Of(Reading)' = Of(Reading) /\ Of(Waiting)' = Of(u)
      BY <2>2, <2>3 DEF Of
    <3>2. InOrder(Sent, Of(Reading), Of(s), Queued)
      BY <2>3 DEF RawInv, OrderInv
    <3>3. InOrder(Sent, Of(Reading), Of(u), Queued)
      BY <2>4, <3>2, OrderShrinks
    <3> QED BY <1>1, <1>15, <3>1, <3>3 DEF RawInv, OrderInv
  <2>7. DeadInv'
    <3>1. Of(conns'[waiting].data) \subseteq exposed'
      BY <1>1, <1>5, <1>6, <1>18
    <3>2. rconn # 0 => conns'[rconn] = conns[rconn]
      BY <1>6, <1>12, <2>1
    <3> QED BY <1>1, <1>16, <3>1, <3>2 DEF RawInv, DeadInv
  <2> QED BY <1>10, <1>11, <1>13, <1>14, <2>5, <2>6, <2>7 DEF RawInv
<1> QED BY <1>7, <1>17, <1>18

-----------------------------------------------------------------------------
(* The raw proxies: the theorems                                           *)

\* A path starts with nothing on it.
LEMMA RawStarts ==
  ASSUME RawInit
  PROVE  RawInv
<1>1. Reading = <<>> /\ Waiting = <<>>
  <2>1. Reading = <<>> \o <<>> /\ Waiting = <<>>
    BY DEF RawInit, Reading, Waiting, Coming
  <2> QED BY <2>1, OfEmpty, ConcatEmptySeq
<1>2. RawTypes
  BY RawAssumption, OfEmpty DEF RawInit, RawTypes, RawTypeOK
<1>3. ConnsInv /\ HandsInv /\ DeadInv
  BY DEF RawInit, ConnsInv, HandsInv, DeadInv
<1>4. RowsInv
  BY <1>1 DEF RawInit, RowsInv, Row
<1>5. OrderInv
  BY <1>1, OfEmpty DEF RawInit, OrderInv, InOrder, Before, Queued, Sent
<1>6. WholePackets
  BY DEF RawInit, WholePackets
<1> QED BY <1>2, <1>3, <1>4, <1>5, <1>6 DEF RawInv

\* Every step keeps it.
LEMMA RawSteps ==
  ASSUME RawInv, [RawNext]_rawVars
  PROVE  RawInv'
<1>1. CASE SenderStep
  BY <1>1, LoopKeeps_Raw, ConnectKeeps_Raw, QueueRecvKeeps_Raw, SendPartKeeps_Raw, SendErrKeeps_Raw DEF SenderStep
<1>2. CASE ReceiverStep
  BY <1>2, LoopKeeps_Raw, AcceptKeeps_Raw, ReadPartKeeps_Raw, ReadErrKeeps_Raw, IgnoreKeeps_Raw, SendToKeeps_Raw
     DEF ReceiverStep
<1>3. CASE Arrive \/ NfqErr
  BY <1>3, ArriveKeeps_Raw, NfqErrKeeps_Raw
<1>4. CASE SendToErr \/ ResetVsock
  BY <1>4, SendToErrIncoming_Raw, SendToErrOutgoing_Raw, ResetKeeps_Raw
<1>5. CASE UNCHANGED rawVars
  <2>1. UNCHANGED <<path, arrived, nfqueue, sender, inHand, sconn, receiver, rconn, buf, conns, waiting, out, rawFaults, exposed>>
    BY <1>5 DEF rawVars
  <2>2. ConnsInv' /\ HandsInv'
    BY <2>1 DEF RawInv, ConnsInv, HandsInv
  <2> QED BY <2>1, <2>2, LoopStep DEF RawInv, RawTypes, RawTypeOK
<1> QED BY <1>1, <1>2, <1>3, <1>4, <1>5 DEF RawNext

\* Rows, order, and what the dead connections still carry: the invariant of a path.
THEOREM RawInvariance == RawSpec => []RawInv
<1>1. RawInit => RawInv
  BY RawStarts
<1>2. RawInv /\ [RawNext]_rawVars => RawInv'
  BY RawSteps
<1> QED BY <1>1, <1>2, PTL DEF RawSpec

\* What goes out on the IP socket is whole packets, those that were queued and that the filter
\* allows, in order and each once, whatever is written in parts, reset and connected again; and
\* an allowed packet is missing only if a fault has met it.
THEOREM PacketsStayWhole == RawSpec => []WholePackets
<1>1. RawInv => WholePackets
  BY DEF RawInv
<1> QED BY <1>1, RawInvariance, PTL

-----------------------------------------------------------------------------
(* The network                                                             *)

\* A step of the network is a step of one layer and leaves the state of the others alone, so a
\* behaviour of it is one of each layer by itself: no layer relies on another one.
THEOREM LayersAlone == Spec => RawSpec /\ TcpSpec /\ ScallopSpec
<1>1. Init => RawInit /\ TcpInit /\ ScallopInit
  BY DEF Init
<1>2. [Next]_vars => [RawNext]_rawVars /\ [TcpNext]_tcpVars /\ [ScallopNext]_scallopVars
  BY DEF Next, Raw, Tcp, Channel, vars
<1> QED BY <1>1, <1>2, PTL DEF Spec, RawSpec, TcpSpec, ScallopSpec

\* Whatever layer carries an enclave's traffic: packets stay whole, streams faithful, peers
\* authenticated and bytes in order.
THEOREM NetworkIsSafe ==
  Spec => /\ []WholePackets /\ []StreamsFaithful
          /\ []Authenticated /\ []Faithful
<1> QED
  BY LayersAlone, PacketsStayWhole, ProxyIsFaithful, PeersAreAuthenticated, BytesArriveInOrder, PTL

=============================================================================
