------------------------------ MODULE Scallop ------------------------------
(***************************************************************************)
(* The Scallop secure channel (sdks/rs/src/scallop.rs): the handshake      *)
(* between a client and a server, with an attestation in either direction  *)
(* when the peer asks for one, and the record stream that follows on the   *)
(* same connection.  One peer, chosen initially, writes to the stream and  *)
(* the other reads.                                                        *)
(*                                                                         *)
(* The connection is external: per direction a sequence of pieces, handed  *)
(* over in any portions.  A handshake message is one piece, since          *)
(* read_exact waits for all of it; a record of the stream is two pieces of *)
(* length, then its body, one piece longer than the plaintext (the tag).   *)
(* Encryption is abstract: a body decrypts to its plaintext exactly when   *)
(* its pieces are together and in order.                                   *)
(***************************************************************************)
EXTENDS Naturals, Sequences

CONSTANTS
    MaxBytes,       \* how many bytes the writer's application has to send
    MaxRecord,      \* the longest plaintext of a record (64000 in the code)
    WireCap         \* how many pieces of records the connection takes before a write waits

ASSUME BoundsAssumption == MaxBytes \in Nat /\ MaxRecord \in Nat \ {0} /\ WireCap \in Nat \ {0}

Peers == {"client", "server"}
Other(p) == IF p = "client" THEN "server" ELSE "client"

\* Whether a peer has an auth store, and the remote key is in it from earlier; and what its
\* auther yields: there is none, or an attestation the remote rejects, or one it accepts, which
\* fits the stack buffers (1024 bytes), only the limit (60000 bytes), or neither.
Options == [store : {"none", "empty", "known"}, auther : {"none", "rejected", "small", "large", "huge"}]

VARIABLES
    options,        \* per peer, the arguments it was called with
    writer,         \* the peer whose application writes
    hs,             \* per peer, where its handshake stands
    verified,       \* the peers that have put the remote key into their store
    wire,           \* per peer, the pieces it has written and the other has not read
    closed,         \* the peers that have closed or lost their end
    \* the writer's ScallopStream and application
    wbuf,           \* wbuf[write_start..write_end]
    call,           \* the poll function the application is in, "idle", or how it ended
    accepted,       \* how many bytes poll_write has accepted
    flushed,        \* how many of them a finished flush or shutdown covers
    \* the reader's ScallopStream and application
    rbuf,           \* the pieces of the length or body read so far
    pending,        \* how many pieces are missing
    mode,           \* "Length", "Body" or "Read"
    received,       \* the bytes handed to the application
    eof,            \* the application was told the stream has ended
    \* observation
    broken,         \* the connection was lost
    wroteEmpty      \* the application wrote an empty buffer

hsVars == <<hs, verified>>
writerVars == <<wbuf, call, accepted, flushed, wroteEmpty>>
readerVars == <<rbuf, pending, mode, received, eof>>
fixed == <<options, writer>>
scallopVars == <<options, writer, hs, verified, wire, closed, wbuf, call, accepted, flushed,
                 rbuf, pending, mode, received, eof, broken, wroteEmpty>>

reader == Other(writer)
Msg(kind, ask, auth) == [kind |-> kind, n |-> ask, data |-> auth]

ScallopInit ==
    /\ options \in [Peers -> Options]
    \* An auther is looked at only when the remote asks.
    /\ \A p \in Peers : options[p].auther # "none" => options[Other(p)].store = "empty"
    /\ writer \in Peers
    /\ hs = [p \in Peers |-> IF p = "client" THEN "start" ELSE "msg1"]
    /\ verified = {}
    /\ wire = [p \in Peers |-> <<>>]
    /\ closed = {}
    /\ wbuf = <<>> /\ call = "idle" /\ accepted = 0 /\ flushed = 0
    /\ rbuf = <<>> /\ pending = 2 /\ mode = "Length" /\ received = <<>> /\ eof = FALSE
    /\ broken = FALSE /\ wroteEmpty = FALSE

-----------------------------------------------------------------------------
(* The handshake. *)

\* An auth store is given and does not hold the remote key.
ShouldAskAuth(p) == options[p].store = "empty"

Ask(p) == IF ShouldAskAuth(p) THEN 1 ELSE 0

Send(p, m) == wire' = [wire EXCEPT ![p] = Append(@, m)]

\* The peer returns an error and drops the connection.
Fails(p) ==
    /\ hs' = [hs EXCEPT ![p] = "error"]
    /\ closed' = closed \cup {p}

Arrived(p, kind) == wire[Other(p)] # <<>> /\ Head(wire[Other(p)]).kind = kind

UnchangedByHandshake == UNCHANGED <<fixed, writerVars, readerVars, broken>>

\* read_u16 or read_exact meets the end of the connection.
HandshakeEof(p) ==
    /\ hs[p] \in {"msg1", "msg2", "clientfin", "serverfin"}
    /\ wire[Other(p)] = <<>>
    /\ Other(p) \in closed
    /\ Fails(p)
    /\ UnchangedByHandshake
    /\ UNCHANGED <<verified, wire>>

\* -> e, s
ClientStart ==
    /\ hs["client"] = "start"
    /\ Send("client", Msg("msg1", 0, <<>>))
    /\ hs' = [hs EXCEPT !["client"] = "msg2"]
    /\ UnchangedByHandshake
    /\ UNCHANGED <<verified, closed>>

\* <- e, ee, se, s, es: the payload carries the server's auth request.
ServerMsg1 ==
    /\ hs["server"] = "msg1"
    /\ Arrived("server", "msg1")
    /\ wire' = [client |-> Tail(wire["client"]), server |-> Append(wire["server"], Msg("msg2", Ask("server"), <<>>))]
    /\ hs' = [hs EXCEPT !["server"] = "clientfin"]
    /\ UnchangedByHandshake
    /\ UNCHANGED <<verified, closed>>

\* What the client sends as attestation, if it is asked for one.
ClientAuth == IF Head(wire["server"]).n = 1 THEN <<options["client"].auther>> ELSE <<>>

\* Mutated: no CLIENTFIN when no attestation is asked for in either direction.
ClientMsg2_FinIfNeeded ==
    LET asked == Head(wire["server"]).n = 1 IN
    /\ hs["client"] = "msg2"
    /\ Arrived("client", "msg2")
    /\ options["client"].auther # "huge"
    /\ wire' = [client |-> IF asked \/ ShouldAskAuth("client")
                           THEN Append(wire["client"], Msg("clientfin", Ask("client"), ClientAuth)) ELSE wire["client"],
                server |-> Tail(wire["server"])]
    /\ hs' = [hs EXCEPT !["client"] = IF ShouldAskAuth("client") THEN "serverfin" ELSE "open"]
    /\ UnchangedByHandshake
    /\ UNCHANGED <<verified, closed>>

\* -> CLIENTFIN, after a look at the auth request: an error when there is no auther or its
\* attestation is too big.  The client is done unless it asks for an attestation itself.
ClientMsg2 ==
    LET asked == Head(wire["server"]).n = 1 IN
    /\ hs["client"] = "msg2"
    /\ Arrived("client", "msg2")
    /\ IF asked /\ options["client"].auther \in {"none", "huge"}
       THEN /\ wire' = [wire EXCEPT !["server"] = Tail(@)]
            /\ Fails("client")
       ELSE /\ wire' = [client |-> Append(wire["client"], Msg("clientfin", Ask("client"), ClientAuth)),
                        server |-> Tail(wire["server"])]
            /\ hs' = [hs EXCEPT !["client"] = IF ShouldAskAuth("client") THEN "serverfin" ELSE "open"]
            /\ UNCHANGED closed
    /\ UnchangedByHandshake
    /\ UNCHANGED verified

\* The attestation is verified; the remote key goes into the store only then.
Verify(p, auth) == auth # <<>> /\ auth[1] # "rejected"

\* The server reads CLIENTFIN into its 1024 byte buffer: a longer message is out of the
\* range of the slice and the task panics.  It verifies what it asked for, and answers an
\* auth request with SERVERFIN.
ServerClientFin ==
    LET m == Head(wire["client"])
        panics == m.data = <<"large">>
        rejects == ShouldAskAuth("server") /\ ~Verify("server", m.data)
        cannot == m.n = 1 /\ options["server"].auther \in {"none", "huge"}
    IN
    /\ hs["server"] = "clientfin"
    /\ Arrived("server", "clientfin")
    /\ verified' = IF ShouldAskAuth("server") /\ ~panics /\ ~rejects THEN verified \cup {"server"} ELSE verified
    /\ IF panics \/ rejects \/ cannot
       THEN /\ wire' = [wire EXCEPT !["client"] = Tail(@)]
            /\ hs' = [hs EXCEPT !["server"] = IF panics THEN "panic" ELSE "error"]
            /\ closed' = closed \cup {"server"}
       ELSE /\ wire' = [client |-> Tail(wire["client"]),
                        server |-> IF m.n = 1
                                   THEN Append(wire["server"], Msg("serverfin", 0, <<options["server"].auther>>))
                                   ELSE wire["server"]]
            /\ hs' = [hs EXCEPT !["server"] = "open"]
            /\ UNCHANGED closed
    /\ UnchangedByHandshake

\* Mutated: the stream is returned whatever verify says.
ClientServerFin_IgnoresVerify ==
    LET ok == Verify("client", Head(wire["server"]).data) IN
    /\ hs["client"] = "serverfin"
    /\ Arrived("client", "serverfin")
    /\ wire' = [wire EXCEPT !["server"] = Tail(@)]
    /\ verified' = IF ok THEN verified \cup {"client"} ELSE verified
    /\ hs' = [hs EXCEPT !["client"] = "open"]
    /\ UnchangedByHandshake
    /\ UNCHANGED closed

\* The client verifies SERVERFIN, which it reads into a buffer of 65000 bytes.
ClientServerFin ==
    LET ok == Verify("client", Head(wire["server"]).data) IN
    /\ hs["client"] = "serverfin"
    /\ Arrived("client", "serverfin")
    /\ wire' = [wire EXCEPT !["server"] = Tail(@)]
    /\ verified' = IF ok THEN verified \cup {"client"} ELSE verified
    /\ IF ok THEN hs' = [hs EXCEPT !["client"] = "open"] /\ UNCHANGED closed
             ELSE Fails("client")
    /\ UnchangedByHandshake

-----------------------------------------------------------------------------
(* The writer: poll_write, poll_flush, poll_shutdown.  Each of them first writes what is  *)
(* left in wbuf to the connection, in the portions the connection takes.                  *)

\* A record whose plaintext p is the p.len bytes that follow the first p.first ones of the
\* stream: its pieces, two of length and a body.
Piece(p, i) == IF i <= 2 THEN [kind |-> "len", n |-> i, data |-> p]
                         ELSE [kind |-> "body", n |-> i - 2, data |-> p]
Record(p) == [i \in 1..(p.len + 3) |-> Piece(p, i)]

CanWrite == hs[writer] = "open" /\ call \notin {"done", "failed", "dropped"} /\ ~broken

UnchangedByWriter == UNCHANGED <<fixed, hsVars, readerVars, broken>>

\* The application calls one of them.
Call ==
    /\ CanWrite
    /\ call = "idle"
    /\ \/ accepted < MaxBytes /\ call' = "write"
       \/ call' \in {"flush", "shutdown"}
    /\ UnchangedByWriter
    /\ UNCHANGED <<wire, closed, wbuf, accepted, flushed, wroteEmpty>>

\* The connection takes a portion of wbuf.
FlushStep ==
    /\ CanWrite
    /\ call # "idle"
    /\ \E k \in 1..Len(wbuf) :
          /\ Len(wire[writer]) + k <= WireCap
          /\ wire' = [wire EXCEPT ![writer] = @ \o SubSeq(wbuf, 1, k)]
          /\ wbuf' = SubSeq(wbuf, k + 1, Len(wbuf))
    /\ UnchangedByWriter
    /\ UNCHANGED <<closed, call, accepted, flushed, wroteEmpty>>

\* Mutated: the new record replaces whatever is left in wbuf.
PollWrite_NoFlush ==
    /\ CanWrite
    /\ call = "write"
    /\ \E len \in 1..(MaxBytes - accepted) :
          LET taken == IF len < MaxRecord THEN len ELSE MaxRecord IN
          /\ wbuf' = Record([first |-> accepted, len |-> taken])
          /\ accepted' = accepted + taken
    /\ call' = "idle"
    /\ UnchangedByWriter
    /\ UNCHANGED <<wire, closed, flushed, wroteEmpty>>

\* wbuf is written out: poll_write queues a record of at most MaxRecord bytes of the buffer
\* it was given and returns how many, without a flush.
PollWrite ==
    /\ CanWrite
    /\ call = "write"
    /\ wbuf = <<>>
    /\ \E len \in 0..(MaxBytes - accepted) :
          LET taken == IF len < MaxRecord THEN len ELSE MaxRecord IN
          /\ wbuf' = Record([first |-> accepted, len |-> taken])
          /\ accepted' = accepted + taken
          /\ wroteEmpty' = (wroteEmpty \/ len = 0)
    /\ call' = "idle"
    /\ UnchangedByWriter
    /\ UNCHANGED <<wire, closed, flushed>>

PollFlush ==
    /\ CanWrite
    /\ call = "flush"
    /\ wbuf = <<>>
    /\ flushed' = accepted
    /\ call' = "idle"
    /\ UnchangedByWriter
    /\ UNCHANGED <<wire, closed, wbuf, accepted, wroteEmpty>>

PollShutdown ==
    /\ CanWrite
    /\ call = "shutdown"
    /\ wbuf = <<>>
    /\ flushed' = accepted
    /\ closed' = closed \cup {writer}
    /\ call' = "done"
    /\ UnchangedByWriter
    /\ UNCHANGED <<wire, wbuf, accepted, wroteEmpty>>

\* The remote has gone: the poll function returns the error of the base stream.
PollErr ==
    /\ CanWrite
    /\ call # "idle"
    /\ reader \in closed
    /\ call' = "failed"
    /\ UnchangedByWriter
    /\ UNCHANGED <<wire, closed, wbuf, accepted, flushed, wroteEmpty>>

\* The application drops the stream, and what is left in wbuf with it.
DropStream ==
    /\ CanWrite
    /\ call = "idle"
    /\ call' = "dropped"
    /\ closed' = closed \cup {writer}
    /\ UnchangedByWriter
    /\ UNCHANGED <<wire, wbuf, accepted, flushed, wroteEmpty>>

-----------------------------------------------------------------------------
(* The reader: poll_read. *)

CanRead == hs[reader] = "open" /\ ~eof

UnchangedByReader == UNCHANGED <<fixed, hsVars, closed, writerVars, broken>>

\* The plaintext in rbuf, and what the application gets of it.
Plain(p) == [i \in 1..p.len |-> [kind |-> "plain", n |-> p.first + i, data |-> <<>>]]
Bytes(s) == [i \in 1..Len(s) |-> s[i].n]

\* The body decrypts.
Decrypts(pieces) ==
    \A i \in 1..Len(pieces) : pieces[i] = [kind |-> "body", n |-> i, data |-> pieces[1].data]

\* The connection hands over a portion of what is missing.  A complete length sets the
\* size of the body; a complete body is decrypted, or the read fails for good.
Fill ==
    /\ CanRead
    /\ pending # 0
    /\ \E k \in 1..pending :
          /\ k <= Len(wire[writer])
          /\ wire' = [wire EXCEPT ![writer] = SubSeq(@, k + 1, Len(@))]
          /\ LET got == rbuf \o SubSeq(wire[writer], 1, k) IN
             CASE k < pending -> /\ rbuf' = got
                                 /\ pending' = pending - k
                                 /\ UNCHANGED mode
               [] k = pending /\ mode = "Length" -> /\ rbuf' = <<>>
                                                    /\ pending' = got[1].data.len + 1
                                                    /\ mode' = "Body"
               [] k = pending /\ mode = "Body" -> /\ rbuf' = IF Decrypts(got) THEN Plain(got[1].data) ELSE <<>>
                                                  /\ pending' = 0
                                                  /\ mode' = IF Decrypts(got) THEN "Read" ELSE "Failed"
    /\ UnchangedByReader
    /\ UNCHANGED <<received, eof>>

\* The plaintext goes to the application, as much as its buffer has room for; after the
\* last of it the next length is read.  A read of nothing is what an end of file looks like.
Deliver ==
    /\ CanRead
    /\ mode = "Read"
    /\ \E room \in 1..MaxRecord :
          IF room < Len(rbuf)
          THEN /\ received' = received \o Bytes(SubSeq(rbuf, 1, room))
               /\ rbuf' = SubSeq(rbuf, room + 1, Len(rbuf))
               /\ UNCHANGED <<pending, mode, eof>>
          ELSE /\ received' = received \o Bytes(rbuf)
               /\ eof' = (rbuf = <<>>)
               /\ rbuf' = <<>>
               /\ pending' = 2
               /\ mode' = "Length"
    /\ UnchangedByReader
    /\ UNCHANGED wire

\* The connection is at its end: a read of nothing, whatever of a record has been read.
ReadEof ==
    /\ CanRead
    /\ pending # 0
    /\ wire[writer] = <<>>
    /\ writer \in closed
    /\ eof' = TRUE
    /\ UnchangedByReader
    /\ UNCHANGED <<wire, rbuf, pending, mode, received>>

-----------------------------------------------------------------------------

\* The connection is lost, and with it what is on its way.
Break ==
    /\ ~broken
    /\ broken' = TRUE
    /\ closed' = Peers
    /\ \E k \in 0..Len(wire[writer]) : wire' = [wire EXCEPT ![writer] = SubSeq(@, 1, k)]
    /\ UNCHANGED <<fixed, hsVars, writerVars, readerVars>>

HandshakeStep(p) ==
    \/ HandshakeEof(p)
    \/ p = "client" /\ (ClientStart \/ ClientMsg2 \/ ClientServerFin)
    \/ p = "server" /\ (ServerMsg1 \/ ServerClientFin)

WriterStep == FlushStep \/ PollWrite \/ PollFlush \/ PollShutdown \/ PollErr
ReaderStep == Fill \/ Deliver \/ ReadEof

ScallopNext ==
    \/ \E p \in Peers : HandshakeStep(p)
    \/ Call \/ WriterStep \/ DropStream \/ ReaderStep \/ Break

\* The channel by itself; Networking adds the fairness.
ScallopSpec == ScallopInit /\ [][ScallopNext]_scallopVars

-----------------------------------------------------------------------------

ScallopTypeOK ==
    /\ options \in [Peers -> Options] /\ writer \in Peers
    /\ hs \in [Peers -> {"start", "msg1", "msg2", "clientfin", "serverfin", "open", "error", "panic"}]
    /\ verified \subseteq Peers /\ closed \subseteq Peers
    /\ call \in {"idle", "write", "flush", "shutdown", "done", "failed", "dropped"}
    /\ accepted \in 0..MaxBytes /\ flushed \in 0..accepted
    /\ pending \in 0..(MaxRecord + 1) \cup {2}
    /\ mode \in {"Length", "Body", "Read", "Failed"}
    /\ eof \in BOOLEAN /\ broken \in BOOLEAN /\ wroteEmpty \in BOOLEAN

\* A peer that was given an auth store has its stream only if the remote key was in the store
\* or the remote has proved it with an attestation the store accepts; a key gets into the
\* store in no other way, and no peer is left with an open stream because of what the other
\* asked or did not ask for (the checks before the streams are returned, both functions).
Authenticated ==
    \A p \in Peers :
        /\ hs[p] = "open" /\ options[p].store # "none" => options[p].store = "known" \/ p \in verified
        /\ p \in verified => options[Other(p)].auther \in {"small", "large"}

\* However the connection cuts the records up, the reader is given the bytes the writer's
\* poll_write accepted, in order, none twice and none left out, and never a body that does
\* not decrypt; and when it is told the stream has ended after the writer shut it down, it
\* has been given all of them (poll_read, poll_write and poll_shutdown together).
Faithful ==
    /\ mode # "Failed"
    /\ Len(received) <= accepted /\ received = [i \in 1..Len(received) |-> i]
    /\ eof /\ call = "done" /\ ~broken /\ ~wroteEmpty => Len(received) = accepted

\* The attestation each peer asks for is there, accepted, and fits what the other reads it
\* into: the server's buffer for CLIENTFIN takes only a small one.
Compatible ==
    /\ ShouldAskAuth("client") => options["server"].auther \in {"small", "large"}
    /\ ShouldAskAuth("server") => options["client"].auther = "small"

\* Once the client has started, peers whose options fit together both get their stream, whichever of them asks for an
\* attestation, and what the writer has flushed or shut down reaches the reader's application
\* although a write alone may stay in wbuf (handshake order; poll_flush against poll_read).
\* The exceptions are a lost connection and an empty write, which the reader takes for the end.
Delivered ==
    []<>(Compatible /\ hs["client"] # "start" =>
            \/ broken \/ wroteEmpty
            \/ (\A p \in Peers : hs[p] = "open") /\ Len(received) >= flushed)

=============================================================================
