------------------------------ MODULE UmNatInv ------------------------------
(***************************************************************************)
(* The inductive invariant of UmNat: what the caches may know of the       *)
(* master map, and who may hold a host port.                               *)
(***************************************************************************)
EXTENDS UmNat

\* The master map gives each port one connection, each connection one port, and has
\* nothing for ports that may still be allocated.
MasterInv ==
    /\ \A n \in Port : master_port_map[n] # NullMapping
    /\ \A n, k \in Port :
          master_port_map[n] # NoEntry /\ master_port_map[n] = master_port_map[k] => n = k
    /\ \A n \in port_set : master_port_map[n] = NoEntry

\* A core's cache has what the master map has; for port 0 it may have a connection of its
\* own core instead.
CacheInv ==
    \A c \in Core : \A n \in Port :
        LET m == port_map_cache[c][n] IN
        m \in Mapping => m = master_port_map[n] \/ (n = 0 /\ m.core = c)

\* Packets on the network carry the port of their connection; packets passed on are on
\* the core of theirs.
PacketInv ==
    /\ \A s \in sent : s.nport # 0 => master_port_map[s.nport] = s.conn
    /\ \A c \in Core : \A n \in remote[c] :
          master_port_map[n] \in Mapping /\ master_port_map[n].core = c

\* The occupant lives on its own core.  A host port that a living instance registered is
\* mapped to it, or was refused to it, or was taken away when another instance halted that
\* it had been refused to.
HostInv ==
    /\ \A c \in Core : umi_id[c] # NoUmi => Home[umi_id[c]] = c /\ life[umi_id[c]] = "live"
    /\ \A u \in Umi : \A p \in src_ports[u] :
          life[u] # "gone" => \/ host_src_port_map_cache[Home[u]][p] = u
                              \/ p \in refused[u]
                              \/ RefusedHalted(Home[u], p)
    /\ \A c \in Core : \A p \in HostPort :
          host_conn[c][p] # NoUmi => life[host_conn[c][p]] # "new"

NatInv ==
    /\ TypeOK
    /\ MasterInv
    /\ CacheInv
    /\ PacketInv
    /\ HostInv
    /\ HostConnectionKept

=============================================================================
