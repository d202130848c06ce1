---------------------------- MODULE MCNetworking ----------------------------
(* Networking on a small instance, and what the outgoing filter computes.  *)
EXTENDS Networking, Bitwise

\* The masks of the filter are applied with &.
ASSUME MaskedIsAnd ==
    \A r \in Reserved, o \in 1..4, x \in 0..255 : Masked(x, r[1][o]) = (x & r[1][o])

\* An allowed packet, one whose address is the last of a reserved block on the outgoing path and
\* wrong on the incoming one, and an allowed one just beyond that block.
MCOwnIp == <<198, 20, 0, 0>>
MCPackets == <<
    [src |-> MCOwnIp, dst |-> MCOwnIp, port |-> 1024, pieces |-> 2],
    [src |-> MCOwnIp, dst |-> <<198, 19, 255, 255>>, port |-> 443, pieces |-> 2],
    [src |-> MCOwnIp, dst |-> MCOwnIp, port |-> 80, pieces |-> 3] >>

\* Destinations with bytes that differ, one that is IPv6 and one the kernel does not know.
MCDestinations == {
    [family |-> "v4", ip |-> <<93, 184, 216, 34>>, port |-> <<1, 187>>],
    [family |-> "v6", ip |-> <<32, 1, 13, 184>>, port |-> <<31, 144>>],
    [family |-> "none", ip |-> <<0, 0, 0, 0>>, port |-> <<0, 0>>] }

MCMaxSent == [d \in Dirs |-> IF d = "up" THEN 2 ELSE 1]

=============================================================================
