------------------------------- MODULE MCUmNat -------------------------------
EXTENDS UmNatInv, TLC

CONSTANTS u1, u2, u3, c1, c2

\* Two instances share a core, a third has its own.
HomeOfThree == [u \in Umi |-> IF u = u3 THEN c2 ELSE c1]

\* The two on one core are alike, and so are the host's ports.
NatSymmetry == Permutations({u1, u2}) \cup Permutations(HostPort)

\* Bound: connections to the outside and connections from the host, which share nothing
\* but the slot, are not explored together.
OneDirection ==
    \/ natVars = <<NatPort, [n \in Port |-> NoEntry],
                   [c \in Core |-> [n \in Port |-> NoEntry]], {}>>
       /\ \A c \in Core : outgoing[c] = {}
    \/ /\ \A u \in Umi : src_ports[u] = {}
       /\ \A c \in Core, p \in HostPort :
             host_conn[c][p] = NoUmi /\ host_src_port_map_cache[c][p] = NoUmi

=============================================================================
