----------------------------- MODULE Networking -----------------------------
(***************************************************************************)
(* How an enclave is reached.  The image decides which proxies carry its   *)
(* packets: a tuna image brings the raw proxies, a salmon image the tcp    *)
(* proxies, and the host is set up with the other half of the same family. *)
(* Programs may talk through a scallop channel on top, which knows nothing *)
(* of what carries it.  The three share no state, so a behaviour is one of *)
(* a path of raw proxies, a pair of tcp proxies, or a channel.             *)
(***************************************************************************)
EXTENDS RawProxy, TcpProxy, Scallop

VARIABLE layer

vars == <<layer, rawVars, tcpVars, scallopVars>>

Init ==
    /\ layer \in {"raw", "tcp", "scallop"}
    /\ RawInit /\ TcpInit /\ ScallopInit
    \* What a layer does not use is fixed.
    /\ layer # "raw" => path = "incoming"
    /\ layer # "tcp" => chain = "plain" /\ dst = (CHOOSE a \in Destinations : TRUE)
    /\ layer # "scallop" => writer = "client" /\ \A p \in Peers : options[p] = [store |-> "none", auther |-> "none"]

Raw(A) == layer = "raw" /\ A /\ UNCHANGED <<layer, tcpVars, scallopVars>>
Tcp(A) == layer = "tcp" /\ A /\ UNCHANGED <<layer, rawVars, scallopVars>>
Channel(A) == layer = "scallop" /\ A /\ UNCHANGED <<layer, rawVars, tcpVars>>

Next == Raw(RawNext) \/ Tcp(TcpNext) \/ Channel(ScallopNext)

\* The processes and tasks run on, and the two ends of a proxied connection read.  A socket or
\* connection that the raw proxies try again and again with a backoff is opened in the end, and
\* so is the queue at the start; a queue that has failed is never bound again.  A poll function of a scallop stream that has been called is polled until it is ready,
\* and the reader goes on reading.  No packet has to arrive; no end has to send or to close.
Spec ==
    /\ Init /\ [][Next]_vars
    /\ WF_vars(Raw(SenderStep)) /\ WF_vars(Raw(ReceiverStep))
    /\ WF_vars(Tcp(SetUpA)) /\ WF_vars(Tcp(SetUpB))
    /\ \A r \in Relays, d \in Dirs : WF_vars(Tcp(CopyAny(r, d)))
    /\ \A d \in Dirs : WF_vars(Tcp(EndReads(d)))
    /\ \A p \in Peers : WF_vars(Channel(HandshakeStep(p)))
    /\ WF_vars(Channel(WriterStep)) /\ WF_vars(Channel(ReaderStep))

=============================================================================
