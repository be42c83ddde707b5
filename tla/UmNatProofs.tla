----------------------------- MODULE UmNatProofs -----------------------------
(***************************************************************************)
(* Theorems about UmNat for every number of cores, instances and ports.    *)
(***************************************************************************)
EXTENDS UmNatInv, WellFoundedInduction, TLAPS

USE NatAssumption

-----------------------------------------------------------------------------
(* Ports *)

\* The lowest of a set of ports is one of them.
LEMMA FirstIsMember ==
    ASSUME NEW S \in SUBSET NatPort, S # {}
    PROVE  first(S) \in S
<1>1. \E n \in S : \A k \in S : <<k, n>> \notin OpToRel(<, Nat)
  BY NatLessThanWellFounded, WFMin
<1>2. PICK n \in S : \A k \in S : <<k, n>> \notin OpToRel(<, Nat)
  BY <1>1
<1>3. \A k \in S : n <= k
  <2>. TAKE k \in S
  <2>1. k \in Nat /\ n \in Nat
    OBVIOUS
  <2>2. ~(k < n)
    BY <1>2, <2>1 DEF OpToRel
  <2>. QED
    BY <2>1, <2>2
<1>. QED
  BY <1>3 DEF first

\* allocate_port: a port of the set, or port 0 when the set is empty.
LEMMA Allocated ==
    ASSUME TypeOK
    PROVE  /\ allocate_port \in Port
           /\ allocate_port # 0 => allocate_port \in port_set
<1>1. port_set \in SUBSET NatPort
  BY DEF TypeOK
<1>2. port_set # {} => first(port_set) \in port_set
  BY <1>1, FirstIsMember
<1>. QED
  BY <1>1, <1>2 DEF allocate_port, Port

\* insert changes at most one entry, an empty one, and only if the value is new.
LEMMA InsertEffect ==
    ASSUME NEW map \in Map, NEW n \in Port, NEW m \in Mapping \cup {NullMapping}
    PROVE  /\ insert(map, n, m) \in Map
           /\ \A k \in Port : insert(map, n, m)[k] # map[k] =>
                 k = n /\ map[k] = NoEntry /\ insert(map, n, m)[k] = m
           /\ PortsOf(map, m) = {} /\ map[n] = NoEntry => insert(map, n, m)[n] = m
           /\ PortsOf(map, m) # {} => insert(map, n, m) = map
  BY DEF insert, Map

\* external_portmap_lookup: the cache's entry, the master map's, or none.
LEMMA LookupEffect ==
    ASSUME NatInv, NEW c \in Core, NEW n \in Port
    PROVE  LET m == external_portmap_lookup(c, n) IN
           /\ m \in Mapping \cup {NullMapping}
           /\ m \in Mapping => m = port_map_cache[c][n] \/ m = master_port_map[n]
           /\ port_map_cache[c][n] # NoEntry => m = port_map_cache[c][n]
           /\ port_map_cache[c][n] = NoEntry /\ master_port_map[n] # NoEntry =>
                 m = master_port_map[n]
<1>1. /\ port_map_cache[c][n] \in Mapping \cup {NoEntry, NullMapping}
      /\ master_port_map[n] \in Mapping \cup {NoEntry, NullMapping}
  BY DEF NatInv, TypeOK, Map
<1>. QED
  BY <1>1 DEF external_portmap_lookup, ExternalPortLookup

\* The root's port for a connection: the one it has, or one nobody has, or 0.
LEMMA RootPort ==
    ASSUME NatInv, NEW m \in Mapping
    PROVE  LET n == SetupExternalPortMapping(m) IN
           /\ n \in Port
           /\ PortsOf(master_port_map, m) # {} => master_port_map[n] = m
           /\ PortsOf(master_port_map, m) = {} /\ n # 0 =>
                 n \in port_set /\ master_port_map[n] = NoEntry
<1>1. CASE PortsOf(master_port_map, m) # {}
  <2>1. \E n \in Port : master_port_map[n] = m
    BY <1>1 DEF PortsOf
  <2>. QED
    BY <1>1, <2>1 DEF SetupExternalPortMapping
<1>2. CASE PortsOf(master_port_map, m) = {}
  <2>1. /\ allocate_port \in Port
        /\ allocate_port # 0 => allocate_port \in port_set
    BY Allocated DEF NatInv
  <2>. QED
    BY <1>2, <2>1 DEF SetupExternalPortMapping, NatInv, MasterInv
<1>. QED
  BY <1>1, <1>2

-----------------------------------------------------------------------------
(* Packets to and from the outside *)

\* What an event leaves alone stays as it was.
LEMMA HostUnchanged ==
    ASSUME NatInv, UNCHANGED <<slotVars, hostVars>>
    PROVE  HostInv' /\ HostConnectionKept'
<1>1. \A c \in Core : \A p \in HostPort : RefusedHalted(c, p)' <=> RefusedHalted(c, p)
  BY DEF RefusedHalted, slotVars, hostVars
<1>2. HostInv'
  <2>1. \A t \in Umi : src_ports[t] \subseteq HostPort /\ Home[t] \in Core
    BY DEF NatInv, TypeOK
  <2>. QED
    BY <1>1, <2>1 DEF NatInv, HostInv, slotVars, hostVars
<1>3. HostConnectionKept'
  BY <1>1 DEF NatInv, HostConnectionKept, slotVars, hostVars
<1>. QED
  BY <1>2, <1>3

\* What a halt took away is gone: refusals are not forgotten, and who has halted stays so.
LEMMA RefusedHaltedStays ==
    ASSUME \A t \in Umi : /\ refused[t] \subseteq refused'[t]
                          /\ life[t] = "gone" => life'[t] = "gone",
           NEW c \in Core, NEW p \in HostPort, RefusedHalted(c, p)
    PROVE  RefusedHalted(c, p)'
  BY DEF RefusedHalted

LEMMA NatUnchanged ==
    ASSUME NatInv, UNCHANGED <<natVars, remote>>
    PROVE  MasterInv' /\ CacheInv' /\ PacketInv'
  BY DEF NatInv, MasterInv, CacheInv, PacketInv, natVars

\* A packet goes out under a port that is its connection's in the master map, or under
\* port 0; what is added to the maps is that pair.
LEMMA OutgoingKeeps ==
    ASSUME NatInv, NEW c \in Core, NEW g \in GuestPort, ProcessOutgoing(c, g)
    PROVE  NatInv'
<1>. DEFINE m == [umi |-> umi_id[c], core |-> c, port |-> g]
            hit == CachedPorts(c, m) # {}
            n == IF hit THEN CHOOSE k \in Port : k \in CachedPorts(c, m)
                 ELSE SetupExternalPortMapping(m)
            known == PortsOf(master_port_map, m) # {}
<1>1. /\ TypeOK /\ MasterInv /\ CacheInv /\ PacketInv
      /\ m \in Mapping /\ m.core = c
      /\ master_port_map \in Map /\ port_map_cache[c] \in Map
  BY DEF NatInv, TypeOK, Mapping
<1>2. /\ outgoing' = [outgoing EXCEPT ![c] = @ \ {g}]
      /\ IF hit \/ known
         THEN UNCHANGED <<port_set, master_port_map>>
         ELSE /\ port_set' = Allocatable(n)
              /\ master_port_map' = insert(master_port_map, n, m)
      /\ port_map_cache' = [port_map_cache EXCEPT ![c] =
                              IF hit THEN @ ELSE insert(@, n, m)]
      /\ sent' = sent \cup {[nport |-> n, conn |-> m]}
      /\ UNCHANGED <<slotVars, hostVars, remote>>
  BY DEF ProcessOutgoing
<1>3. hit => n \in Port /\ port_map_cache[c][n] = m
  <2>. SUFFICES ASSUME hit PROVE n \in Port /\ port_map_cache[c][n] = m
    OBVIOUS
  <2>1. \E k \in Port : k \in CachedPorts(c, m)
    BY DEF CachedPorts, PortsOf
  <2>2. n \in Port /\ n \in CachedPorts(c, m)
    BY <2>1
  <2>. QED
    BY <2>2 DEF CachedPorts, PortsOf
<1>4. ~hit => /\ n \in Port
              /\ known => master_port_map[n] = m
              /\ ~known /\ n # 0 => n \in port_set /\ master_port_map[n] = NoEntry
  BY <1>1, RootPort
<1>. HIDE DEF n, hit, m
<1>5. n \in Port
  BY <1>3, <1>4
<1>6. \/ master_port_map' = master_port_map /\ port_set' = port_set
      \/ /\ ~hit /\ ~known
         /\ master_port_map' = insert(master_port_map, n, m)
         /\ port_set' = port_set \ {n}
  BY <1>2 DEF Allocatable
<1>7. /\ master_port_map' \in Map
      /\ \A k \in Port : master_port_map'[k] # master_port_map[k] =>
            k = n /\ ~known /\ master_port_map[k] = NoEntry /\ master_port_map'[k] = m
  BY <1>1, <1>5, <1>6, InsertEffect
<1>8. /\ port_map_cache' \in [Core -> Map]
      /\ \A d \in Core : \A k \in Port : port_map_cache'[d][k] # port_map_cache[d][k] =>
            d = c /\ k = n /\ ~hit /\ port_map_cache'[d][k] = m
  <2>1. insert(port_map_cache[c], n, m) \in Map
    BY <1>1, <1>5, InsertEffect
  <2>2. \A k \in Port : insert(port_map_cache[c], n, m)[k] # port_map_cache[c][k] =>
            k = n /\ insert(port_map_cache[c], n, m)[k] = m
    BY <1>1, <1>5, InsertEffect
  <2>3. port_map_cache \in [Core -> Map]
    BY <1>1 DEF TypeOK
  <2>4. CASE hit
    BY <1>2, <2>3, <2>4
  <2>5. CASE ~hit
    BY <1>2, <2>1, <2>2, <2>3, <2>5
  <2>. QED
    BY <2>4, <2>5
<1>9. n # 0 => master_port_map'[n] = m
  <2>. SUFFICES ASSUME n # 0 PROVE master_port_map'[n] = m
    OBVIOUS
  <2>1. CASE hit
    <3>1. master_port_map[n] = m
      BY <1>1, <1>3, <2>1 DEF CacheInv
    <3>. QED
      BY <1>6, <2>1, <3>1
  <2>2. CASE ~hit /\ known
    BY <1>4, <1>6, <2>2
  <2>3. CASE ~hit /\ ~known
    <3>1. master_port_map' = insert(master_port_map, n, m)
      BY <1>2, <2>3
    <3>. QED
      BY <1>1, <1>4, <1>5, <2>3, <3>1, InsertEffect
  <2>. QED
    BY <2>1, <2>2, <2>3
<1>10. TypeOK'
  <2>1. port_set' \subseteq NatPort
    BY <1>1, <1>6 DEF TypeOK
  <2>2. sent' \subseteq [nport : Port, conn : Mapping]
    BY <1>1, <1>2, <1>5 DEF TypeOK
  <2>3. outgoing' \in [Core -> SUBSET GuestPort]
    BY <1>1, <1>2 DEF TypeOK
  <2>. QED
    BY <1>1, <1>2, <1>7, <1>8, <2>1, <2>2, <2>3 DEF TypeOK, slotVars, hostVars
<1>11. MasterInv'
  <2>1. \A k \in Port : master_port_map'[k] # NullMapping
    BY <1>1, <1>7 DEF MasterInv
  <2>2. ASSUME NEW j \in Port, NEW k \in Port,
               master_port_map'[j] # NoEntry, master_port_map'[j] = master_port_map'[k]
        PROVE  j = k
    <3>1. \A i \in Port : ~known => master_port_map[i] # m
      BY DEF PortsOf
    <3>. QED
      BY <1>1, <1>7, <2>2, <3>1 DEF MasterInv
  <2>3. \A k \in port_set' : master_port_map'[k] = NoEntry
    <3>1. port_set \subseteq Port /\ port_set' \subseteq port_set
      BY <1>1, <1>6 DEF TypeOK, Port
    <3>. QED
      BY <1>1, <1>6, <1>7, <3>1 DEF MasterInv
  <2>. QED
    BY <2>1, <2>2, <2>3 DEF MasterInv
<1>12. CacheInv'
  <2>. SUFFICES ASSUME NEW d \in Core, NEW k \in Port, port_map_cache'[d][k] \in Mapping
                PROVE  \/ port_map_cache'[d][k] = master_port_map'[k]
                       \/ k = 0 /\ port_map_cache'[d][k].core = d
    BY DEF CacheInv
  <2>1. CASE port_map_cache'[d][k] = port_map_cache[d][k]
    BY <1>1, <1>7, <2>1 DEF CacheInv
  <2>2. CASE port_map_cache'[d][k] # port_map_cache[d][k]
    BY <1>1, <1>8, <1>9, <2>2
  <2>. QED
    BY <2>1, <2>2
<1>13. PacketInv'
  <2>1. \A s \in sent' : s.nport # 0 => master_port_map'[s.nport] = s.conn
    <3>1. ASSUME NEW s \in sent, s.nport # 0
          PROVE  master_port_map'[s.nport] = s.conn
      <4>1. s.nport \in Port /\ s.conn \in Mapping
        BY <1>1 DEF TypeOK
      <4>2. master_port_map[s.nport] = s.conn
        BY <1>1, <3>1 DEF PacketInv
      <4>. QED
        BY <1>7, <4>1, <4>2
    <3>. QED
      BY <1>2, <1>9, <3>1
  <2>2. ASSUME NEW d \in Core, NEW k \in remote'[d]
        PROVE  master_port_map'[k] \in Mapping /\ master_port_map'[k].core = d
    <3>1. k \in remote[d] /\ k \in Port
      BY <1>1, <1>2, <2>2 DEF TypeOK
    <3>2. master_port_map[k] \in Mapping /\ master_port_map[k].core = d
      BY <1>1, <3>1 DEF PacketInv
    <3>. QED
      BY <1>7, <3>1, <3>2
  <2>. QED
    BY <2>1, <2>2 DEF PacketInv
<1>. QED
  BY <1>2, <1>10, <1>11, <1>12, <1>13, HostUnchanged DEF NatInv

\* A packet that arrives adds what the lookup found to the core's cache, and if it is
\* passed on it goes to the core of its connection.  It may have been passed on itself.
LEMMA IncomingKeeps ==
    ASSUME NatInv, NEW c \in Core, NEW n \in Port, NEW before \in [Core -> SUBSET Port],
           \A d \in Core : before[d] \subseteq remote[d],
           ProcessIncoming(c, n, before)
    PROVE  NatInv'
<1>. DEFINE m == external_portmap_lookup(c, n)
<1>1. /\ TypeOK /\ MasterInv /\ CacheInv /\ PacketInv
      /\ port_map_cache \in [Core -> Map] /\ port_map_cache[c] \in Map
  BY DEF NatInv, TypeOK
<1>2. /\ port_map_cache' = [port_map_cache EXCEPT ![c] = insert(@, n, m)]
      /\ remote' = IF m # NullMapping /\ m.core # c
                   THEN [before EXCEPT ![Destination(c, m)] = @ \cup {n}]
                   ELSE before
      /\ UNCHANGED <<slotVars, hostVars, port_set, master_port_map, sent, outgoing>>
  BY DEF ProcessIncoming
<1>3. /\ m \in Mapping \cup {NullMapping}
      /\ m \in Mapping => m = port_map_cache[c][n] \/ m = master_port_map[n]
  BY LookupEffect
<1>4. m \in Mapping => m = master_port_map[n] \/ (n = 0 /\ m.core = c)
  BY <1>1, <1>3 DEF CacheInv
<1>. HIDE DEF m
<1>5. port_map_cache' \in [Core -> Map]
  <2>1. insert(port_map_cache[c], n, m) \in Map
    BY <1>1, <1>3, InsertEffect
  <2>. QED
    BY <1>1, <1>2, <2>1
<1>6. \A d \in Core : \A k \in Port : port_map_cache'[d][k] # port_map_cache[d][k] =>
            d = c /\ k = n /\ port_map_cache'[d][k] = m
  <2>1. \A k \in Port : insert(port_map_cache[c], n, m)[k] # port_map_cache[c][k] =>
            k = n /\ insert(port_map_cache[c], n, m)[k] = m
    BY <1>1, <1>3, InsertEffect
  <2>. QED
    BY <1>1, <1>2, <2>1
<1>7. remote' \in [Core -> SUBSET Port]
  <2>1. CASE m # NullMapping /\ m.core # c
    <3>1. m.core \in Core
      BY <1>3, <2>1 DEF Mapping
    <3>. QED
      BY <1>2, <2>1, <3>1 DEF Destination
  <2>2. CASE ~(m # NullMapping /\ m.core # c)
    BY <1>2, <2>2
  <2>. QED
    BY <2>1, <2>2
<1>8. \A d \in Core : \A k \in remote'[d] :
          k \in remote[d] \/ (k = n /\ m \in Mapping /\ m.core # c /\ d = m.core)
  <2>1. CASE m # NullMapping /\ m.core # c
    <3>1. m \in Mapping /\ m.core \in Core
      BY <1>3, <2>1 DEF Mapping
    <3>2. remote' = [before EXCEPT ![m.core] = @ \cup {n}]
      BY <1>2, <2>1 DEF Destination
    <3>. QED
      BY <2>1, <3>1, <3>2
  <2>2. CASE ~(m # NullMapping /\ m.core # c)
    BY <1>2, <2>2
  <2>. QED
    BY <2>1, <2>2
<1>9. TypeOK'
  BY <1>1, <1>2, <1>5, <1>7 DEF TypeOK, slotVars, hostVars
<1>10. MasterInv'
  BY <1>1, <1>2 DEF MasterInv
<1>11. CacheInv'
  <2>. SUFFICES ASSUME NEW d \in Core, NEW k \in Port, port_map_cache'[d][k] \in Mapping
                PROVE  \/ port_map_cache'[d][k] = master_port_map'[k]
                       \/ k = 0 /\ port_map_cache'[d][k].core = d
    BY DEF CacheInv
  <2>1. CASE port_map_cache'[d][k] = port_map_cache[d][k]
    BY <1>1, <1>2, <2>1 DEF CacheInv
  <2>2. CASE port_map_cache'[d][k] # port_map_cache[d][k]
    BY <1>2, <1>4, <1>6, <2>2
  <2>. QED
    BY <2>1, <2>2
<1>12. PacketInv'
  <2>1. \A s \in sent' : s.nport # 0 => master_port_map'[s.nport] = s.conn
    BY <1>1, <1>2 DEF PacketInv
  <2>2. ASSUME NEW d \in Core, NEW k \in remote'[d]
        PROVE  master_port_map'[k] \in Mapping /\ master_port_map'[k].core = d
    <3>1. CASE k \in remote[d]
      BY <1>1, <1>2, <3>1 DEF PacketInv
    <3>2. CASE k = n /\ m \in Mapping /\ m.core # c /\ d = m.core
      BY <1>2, <1>4, <3>2
    <3>. QED
      BY <1>8, <3>1, <3>2
  <2>. QED
    BY <2>1, <2>2 DEF PacketInv
<1>. QED
  BY <1>2, <1>9, <1>10, <1>11, <1>12, HostUnchanged DEF NatInv

-----------------------------------------------------------------------------
(* Instances and the host *)

\* RegisterInternalPort changes the mapping of one port, which nobody had; on a conflict
\* the instance is refused the port.
LEMMA RegisterEffect ==
    ASSUME TypeOK, NEW c \in Core, NEW u \in Umi, NEW p \in HostPort,
           RegisterInternalPort(c, u, p)
    PROVE  /\ host_src_port_map_cache' \in [Core -> [HostPort -> Umi \cup {NoUmi}]]
           /\ host_src_port_map_cache'[c][p] =
                 IF host_src_port_map_cache[c][p] = NoUmi THEN u
                 ELSE host_src_port_map_cache[c][p]
           /\ \A d \in Core : \A q \in HostPort :
                 host_src_port_map_cache[d][q] # NoUmi \/ <<d, q>> # <<c, p>> =>
                    host_src_port_map_cache'[d][q] = host_src_port_map_cache[d][q]
           /\ refused' \in [Umi -> SUBSET HostPort]
           /\ \A t \in Umi : refused[t] \subseteq refused'[t]
           /\ host_src_port_map_cache'[c][p] = u \/ p \in refused'[u]
<1>1. host_src_port_map_cache \in [Core -> [HostPort -> Umi \cup {NoUmi}]]
  BY DEF TypeOK
<1>. DEFINE v == IF host_src_port_map_cache[c][p] = NoUmi THEN u
                 ELSE host_src_port_map_cache[c][p]
<1>2. host_src_port_map_cache' = [host_src_port_map_cache EXCEPT ![c][p] = v]
  BY <1>1 DEF RegisterInternalPort
<1>3. /\ refused' \in [Umi -> SUBSET HostPort]
      /\ \A t \in Umi : refused[t] \subseteq refused'[t]
      /\ v # u => p \in refused'[u]
  <2>1. refused \in [Umi -> SUBSET HostPort]
    BY DEF TypeOK
  <2>2. CASE host_src_port_map_cache[c][p] \in {NoUmi, u}
    BY <2>1, <2>2 DEF RegisterInternalPort
  <2>3. CASE host_src_port_map_cache[c][p] \notin {NoUmi, u}
    BY <2>1, <2>3 DEF RegisterInternalPort
  <2>. QED
    BY <2>2, <2>3
<1>4. v \in Umi \cup {NoUmi}
  BY <1>1
<1>. HIDE DEF v
<1>5. /\ host_src_port_map_cache' \in [Core -> [HostPort -> Umi \cup {NoUmi}]]
      /\ host_src_port_map_cache'[c][p] = v
      /\ \A d \in Core : \A q \in HostPort : <<d, q>> # <<c, p>> =>
            host_src_port_map_cache'[d][q] = host_src_port_map_cache[d][q]
  BY <1>1, <1>2, <1>4
<1>6. host_src_port_map_cache[c][p] # NoUmi => v = host_src_port_map_cache[c][p]
  BY DEF v
<1>. QED
  BY <1>3, <1>5, <1>6 DEF v

LEMMA SetActiveKeeps ==
    ASSUME NatInv, NEW u \in Umi, SetActiveInstance(u)
    PROVE  NatInv'
<1>1. /\ life[u] # "gone"
      /\ umi_id' = [umi_id EXCEPT ![Home[u]] = u]
      /\ life' = [life EXCEPT ![u] = "live"]
      /\ UNCHANGED <<natVars, hostVars, outgoing, remote>>
      /\ Home[u] \in Core
  BY DEF SetActiveInstance
<1>2. TypeOK'
  BY <1>1 DEF NatInv, TypeOK, natVars, hostVars
<1>3. \A c \in Core : \A p \in HostPort : RefusedHalted(c, p) => RefusedHalted(c, p)'
  <2>1. \A t \in Umi : /\ refused[t] \subseteq refused'[t]
                       /\ life[t] = "gone" => life'[t] = "gone"
    BY <1>1 DEF NatInv, TypeOK, hostVars
  <2>. QED
    BY <2>1, RefusedHaltedStays
<1>4. HostInv'
  <2>1. \A c \in Core : umi_id'[c] # NoUmi =>
            Home[umi_id'[c]] = c /\ life'[umi_id'[c]] = "live"
    BY <1>1 DEF NatInv, TypeOK, HostInv
  <2>2. ASSUME NEW t \in Umi, NEW p \in src_ports'[t], life'[t] # "gone"
        PROVE  \/ host_src_port_map_cache'[Home[t]][p] = t
               \/ p \in refused'[t]
               \/ RefusedHalted(Home[t], p)'
    <3>1. /\ life[t] # "gone" /\ p \in src_ports[t] /\ p \in HostPort
          /\ Home[t] \in Core
      BY <1>1, <2>2 DEF NatInv, TypeOK, hostVars
    <3>2. \/ host_src_port_map_cache[Home[t]][p] = t
          \/ p \in refused[t]
          \/ RefusedHalted(Home[t], p)
      BY <3>1 DEF NatInv, HostInv
    <3>. QED
      BY <1>1, <1>3, <3>1, <3>2 DEF hostVars
  <2>3. \A c \in Core : \A p \in HostPort :
            host_conn'[c][p] # NoUmi => life'[host_conn'[c][p]] # "new"
    BY <1>1 DEF NatInv, TypeOK, HostInv, hostVars
  <2>. QED
    BY <2>1, <2>2, <2>3 DEF HostInv
<1>5. HostConnectionKept'
  <2>. SUFFICES ASSUME NEW c \in Core, NEW p \in HostPort, host_conn'[c][p] # NoUmi,
                       life'[host_conn'[c][p]] = "live"
                PROVE  \/ host_src_port_map_cache'[c][p] = host_conn'[c][p]
                       \/ RefusedHalted(c, p)'
    BY DEF HostConnectionKept
  <2>1. host_conn[c][p] \in Umi /\ life[host_conn[c][p]] # "new"
    BY <1>1 DEF NatInv, TypeOK, HostInv, hostVars
  <2>2. life[host_conn[c][p]] = "live"
    BY <1>1, <2>1 DEF NatInv, TypeOK, hostVars
  <2>. QED
    BY <1>1, <1>3, <2>2 DEF NatInv, HostConnectionKept, hostVars
<1>. QED
  BY <1>1, <1>2, <1>4, <1>5, NatUnchanged DEF NatInv

\* The ports that are unmapped were mapped to the instance that halts, or it was refused
\* them, or they had been taken away before.
LEMMA RemoveKeeps ==
    ASSUME NatInv, NEW c \in Core, RemoveInstanceState(c)
    PROVE  NatInv'
<1>. DEFINE u == umi_id[c]
<1>1. /\ u \in Umi /\ Home[u] = c /\ life[u] = "live"
      /\ umi_id' = [umi_id EXCEPT ![c] = NoUmi]
      /\ life' = [life EXCEPT ![u] = "gone"]
      /\ host_src_port_map_cache' = [host_src_port_map_cache EXCEPT ![c] = Unregistered(c, u)]
      /\ UNCHANGED <<natVars, src_ports, refused, host_conn, outgoing, remote>>
  BY DEF RemoveInstanceState, NatInv, TypeOK, HostInv
<1>2. Unregistered(c, u) \in [HostPort -> Umi \cup {NoUmi}]
  BY DEF NatInv, TypeOK, Unregistered
<1>3. \A d \in Core : \A p \in HostPort : RefusedHalted(d, p) => RefusedHalted(d, p)'
  <2>1. \A t \in Umi : /\ refused[t] \subseteq refused'[t]
                       /\ life[t] = "gone" => life'[t] = "gone"
    BY <1>1 DEF NatInv, TypeOK
  <2>. QED
    BY <2>1, RefusedHaltedStays
<1>4. ASSUME NEW d \in Core, NEW p \in HostPort,
             host_src_port_map_cache'[d][p] # host_src_port_map_cache[d][p]
      PROVE  host_src_port_map_cache[d][p] = u \/ RefusedHalted(d, p)'
  <2>1. d = c /\ p \in src_ports[u]
    BY <1>1, <1>4 DEF NatInv, TypeOK, Unregistered
  <2>2. \/ host_src_port_map_cache[d][p] = u
        \/ p \in refused[u]
        \/ RefusedHalted(d, p)
    BY <1>1, <2>1 DEF NatInv, HostInv
  <2>3. p \in refused[u] => RefusedHalted(d, p)'
    BY <1>1, <2>1 DEF NatInv, TypeOK, RefusedHalted
  <2>. QED
    BY <1>3, <2>2, <2>3
<1>5. TypeOK'
  BY <1>1, <1>2 DEF NatInv, TypeOK, natVars
<1>6. HostInv'
  <2>1. \A d \in Core : umi_id'[d] # NoUmi =>
            Home[umi_id'[d]] = d /\ life'[umi_id'[d]] = "live"
    BY <1>1 DEF NatInv, TypeOK, HostInv
  <2>2. ASSUME NEW t \in Umi, NEW p \in src_ports'[t], life'[t] # "gone"
        PROVE  \/ host_src_port_map_cache'[Home[t]][p] = t
               \/ p \in refused'[t]
               \/ RefusedHalted(Home[t], p)'
    <3>1. /\ t # u /\ life[t] # "gone" /\ p \in src_ports[t] /\ p \in HostPort
          /\ Home[t] \in Core
      BY <1>1, <2>2 DEF NatInv, TypeOK
    <3>2. \/ host_src_port_map_cache[Home[t]][p] = t
          \/ p \in refused[t]
          \/ RefusedHalted(Home[t], p)
      BY <3>1 DEF NatInv, HostInv
    <3>. QED
      BY <1>1, <1>4, <1>3, <3>1, <3>2
  <2>3. \A d \in Core : \A p \in HostPort :
            host_conn'[d][p] # NoUmi => life'[host_conn'[d][p]] # "new"
    BY <1>1 DEF NatInv, TypeOK, HostInv
  <2>. QED
    BY <2>1, <2>2, <2>3 DEF HostInv
<1>7. HostConnectionKept'
  <2>. SUFFICES ASSUME NEW d \in Core, NEW p \in HostPort, host_conn'[d][p] # NoUmi,
                       life'[host_conn'[d][p]] = "live"
                PROVE  \/ host_src_port_map_cache'[d][p] = host_conn'[d][p]
                       \/ RefusedHalted(d, p)'
    BY DEF HostConnectionKept
  <2>1. host_conn[d][p] # u /\ life[host_conn[d][p]] = "live"
    BY <1>1 DEF NatInv, TypeOK
  <2>2. host_src_port_map_cache[d][p] = host_conn[d][p] \/ RefusedHalted(d, p)
    BY <1>1, <2>1 DEF NatInv, HostConnectionKept
  <2>. QED
    BY <1>1, <1>4, <1>3, <2>1, <2>2
<1>. QED
  BY <1>1, <1>5, <1>6, <1>7, NatUnchanged DEF NatInv

LEMMA RegisterKeeps ==
    ASSUME NatInv, NEW u \in Umi, NEW p \in HostPort, RegisterPort(u, p)
    PROVE  NatInv'
<1>. DEFINE c == Home[u]
<1>1. /\ TypeOK /\ HostInv /\ HostConnectionKept
      /\ c \in Core
      /\ RegisterInternalPort(c, u, p)
      /\ src_ports' = [src_ports EXCEPT ![u] = @ \cup {p}]
      /\ UNCHANGED <<slotVars, natVars, host_conn, outgoing, remote>>
  BY DEF RegisterPort, NatInv
<1>2. /\ host_src_port_map_cache' \in [Core -> [HostPort -> Umi \cup {NoUmi}]]
      /\ host_src_port_map_cache'[c][p] = u \/ p \in refused'[u]
      /\ \A d \in Core : \A q \in HostPort :
            host_src_port_map_cache[d][q] # NoUmi =>
                host_src_port_map_cache'[d][q] = host_src_port_map_cache[d][q]
      /\ refused' \in [Umi -> SUBSET HostPort]
      /\ \A t \in Umi : refused[t] \subseteq refused'[t]
  BY <1>1, RegisterEffect
<1>3. \A d \in Core : \A q \in HostPort : RefusedHalted(d, q) => RefusedHalted(d, q)'
  BY <1>1, <1>2, RefusedHaltedStays DEF slotVars
<1>. HIDE DEF c
<1>4. TypeOK'
  BY <1>1, <1>2 DEF TypeOK, slotVars, natVars
<1>5. HostInv'
  <2>1. ASSUME NEW t \in Umi, NEW q \in src_ports'[t], life'[t] # "gone"
        PROVE  \/ host_src_port_map_cache'[Home[t]][q] = t
               \/ q \in refused'[t]
               \/ RefusedHalted(Home[t], q)'
    <3>1. CASE q \in src_ports[t]
      <4>1. Home[t] \in Core /\ q \in HostPort
        BY <1>1, <3>1 DEF TypeOK
      <4>2. \/ host_src_port_map_cache[Home[t]][q] = t
            \/ q \in refused[t]
            \/ RefusedHalted(Home[t], q)
        BY <1>1, <2>1, <3>1 DEF HostInv, slotVars
      <4>3. t \in Umi /\ t # NoUmi
        OBVIOUS
      <4>. QED
        BY <1>2, <1>3, <4>1, <4>2, <4>3
    <3>2. CASE q \notin src_ports[t]
      <4>1. t = u /\ q = p
        BY <1>1, <2>1, <3>2 DEF TypeOK
      <4>. QED
        BY <1>2, <4>1 DEF c
    <3>. QED
      BY <3>1, <3>2
  <2>. QED
    BY <1>1, <2>1 DEF HostInv, slotVars
<1>6. HostConnectionKept'
  <2>. SUFFICES ASSUME NEW d \in Core, NEW q \in HostPort, host_conn[d][q] # NoUmi,
                       life[host_conn[d][q]] = "live"
                PROVE  \/ host_src_port_map_cache'[d][q] = host_conn[d][q]
                       \/ RefusedHalted(d, q)'
    BY <1>1 DEF HostConnectionKept, slotVars
  <2>1. host_src_port_map_cache[d][q] = host_conn[d][q] \/ RefusedHalted(d, q)
    BY <1>1 DEF HostConnectionKept
  <2>. QED
    BY <1>2, <1>3, <2>1
<1>. QED
  BY <1>1, <1>4, <1>5, <1>6, NatUnchanged DEF NatInv

LEMMA ConnectKeeps ==
    ASSUME NatInv, NEW c \in Core, NEW p \in HostPort, HostConnect(c, p)
    PROVE  NatInv'
<1>. DEFINE mapped == host_src_port_map_cache[c][p]
            target == IF mapped # NoUmi THEN mapped ELSE umi_id[c]
<1>1. /\ TypeOK /\ HostInv /\ HostConnectionKept
      /\ target \in Umi
      /\ RegisterInternalPort(c, target, p)
      /\ host_conn' = [host_conn EXCEPT ![c][p] =
                          IF life[target] = "live" THEN target ELSE @]
      /\ UNCHANGED <<slotVars, natVars, src_ports, outgoing, remote>>
  BY DEF HostConnect, NatInv, TypeOK
<1>2. /\ host_src_port_map_cache' \in [Core -> [HostPort -> Umi \cup {NoUmi}]]
      /\ host_src_port_map_cache'[c][p] = target
      /\ \A d \in Core : \A q \in HostPort :
            host_src_port_map_cache[d][q] # NoUmi =>
                host_src_port_map_cache'[d][q] = host_src_port_map_cache[d][q]
      /\ refused' \in [Umi -> SUBSET HostPort]
      /\ \A t \in Umi : refused[t] \subseteq refused'[t]
  BY <1>1, RegisterEffect
<1>. HIDE DEF target
<1>3. /\ host_conn' \in [Core -> [HostPort -> Umi \cup {NoUmi}]]
      /\ \A d \in Core : \A q \in HostPort : host_conn'[d][q] # host_conn[d][q] =>
            d = c /\ q = p /\ host_conn'[d][q] = target /\ life[target] = "live"
  <2>. DEFINE v == IF life[target] = "live" THEN target ELSE host_conn[c][p]
  <2>1. /\ host_conn \in [Core -> [HostPort -> Umi \cup {NoUmi}]]
        /\ v \in Umi \cup {NoUmi}
        /\ host_conn' = [host_conn EXCEPT ![c][p] = v]
    BY <1>1 DEF TypeOK
  <2>2. v # host_conn[c][p] => v = target /\ life[target] = "live"
    OBVIOUS
  <2>. HIDE DEF v
  <2>. QED
    BY <2>1, <2>2
<1>4. \A d \in Core : \A q \in HostPort : RefusedHalted(d, q) => RefusedHalted(d, q)'
  BY <1>1, <1>2, RefusedHaltedStays DEF slotVars
<1>5. TypeOK'
  BY <1>1, <1>2, <1>3 DEF TypeOK, slotVars, natVars
<1>6. HostInv'
  <2>1. ASSUME NEW t \in Umi, NEW q \in src_ports'[t], life'[t] # "gone"
        PROVE  \/ host_src_port_map_cache'[Home[t]][q] = t
               \/ q \in refused'[t]
               \/ RefusedHalted(Home[t], q)'
    <3>1. Home[t] \in Core /\ q \in HostPort /\ t # NoUmi
      BY <1>1 DEF TypeOK
    <3>2. \/ host_src_port_map_cache[Home[t]][q] = t
          \/ q \in refused[t]
          \/ RefusedHalted(Home[t], q)
      BY <1>1, <2>1 DEF HostInv, slotVars
    <3>. QED
      BY <1>2, <1>4, <3>1, <3>2
  <2>2. \A d \in Core : \A q \in HostPort :
            host_conn'[d][q] # NoUmi => life'[host_conn'[d][q]] # "new"
    BY <1>1, <1>3 DEF HostInv, slotVars
  <2>. QED
    BY <1>1, <2>1, <2>2 DEF HostInv, slotVars
<1>7. HostConnectionKept'
  <2>. SUFFICES ASSUME NEW d \in Core, NEW q \in HostPort, host_conn'[d][q] # NoUmi,
                       life'[host_conn'[d][q]] = "live"
                PROVE  \/ host_src_port_map_cache'[d][q] = host_conn'[d][q]
                       \/ RefusedHalted(d, q)'
    BY DEF HostConnectionKept
  <2>1. CASE host_conn'[d][q] = host_conn[d][q]
    BY <1>1, <1>2, <1>4, <2>1 DEF HostConnectionKept, slotVars
  <2>2. CASE host_conn'[d][q] # host_conn[d][q]
    BY <1>2, <1>3, <2>2
  <2>. QED
    BY <2>1, <2>2
<1>. QED
  BY <1>1, <1>5, <1>6, <1>7, NatUnchanged DEF NatInv

LEMMA CloseKeeps ==
    ASSUME NatInv, NEW c \in Core, NEW p \in HostPort, HostClose(c, p)
    PROVE  NatInv'
<1>1. /\ host_conn' = [host_conn EXCEPT ![c][p] = NoUmi]
      /\ UNCHANGED <<slotVars, natVars, host_src_port_map_cache, src_ports, refused, outgoing,
                     remote>>
  BY DEF HostClose
<1>2. /\ host_conn' \in [Core -> [HostPort -> Umi \cup {NoUmi}]]
      /\ \A d \in Core : \A q \in HostPort :
            host_conn'[d][q] # NoUmi => host_conn'[d][q] = host_conn[d][q]
  BY <1>1 DEF NatInv, TypeOK
<1>3. TypeOK'
  BY <1>1, <1>2 DEF NatInv, TypeOK, slotVars, natVars
<1>4. HostInv' /\ HostConnectionKept'
  BY <1>1, <1>2 DEF NatInv, HostInv, HostConnectionKept, RefusedHalted, slotVars
<1>. QED
  BY <1>1, <1>3, <1>4, NatUnchanged DEF NatInv

LEMMA WriteKeeps ==
    ASSUME NatInv, NEW c \in Core, NEW g \in GuestPort, GuestWrite(c, g)
    PROVE  NatInv'
<1>1. /\ outgoing' = [outgoing EXCEPT ![c] = @ \cup {g}]
      /\ UNCHANGED <<slotVars, natVars, hostVars, remote>>
  BY DEF GuestWrite
<1>2. TypeOK'
  BY <1>1 DEF NatInv, TypeOK, slotVars, natVars, hostVars
<1>. QED
  BY <1>1, <1>2, NatUnchanged, HostUnchanged DEF NatInv

-----------------------------------------------------------------------------
(* The theorems *)

LEMMA NextKeeps ==
    ASSUME NatInv, [Next]_vars
    PROVE  NatInv'
<1>1. CASE Instances
  BY <1>1, SetActiveKeeps, RemoveKeeps, RegisterKeeps DEF Instances
<1>2. CASE Outside
  <2>. PICK c \in Core :
          \/ \E g \in GuestPort : GuestWrite(c, g) \/ ProcessOutgoing(c, g)
          \/ \E n \in Port : Arrive(c, n) \/ PassedOn(c, n)
    BY <1>2 DEF Outside
  <2>1. remote \in [Core -> SUBSET Port]
    BY DEF NatInv, TypeOK
  <2>2. ASSUME NEW g \in GuestPort, GuestWrite(c, g) \/ ProcessOutgoing(c, g)
        PROVE  NatInv'
    BY <2>2, WriteKeeps, OutgoingKeeps
  <2>3. ASSUME NEW n \in Port, Arrive(c, n)
        PROVE  NatInv'
    BY <2>1, <2>3, IncomingKeeps DEF Arrive
  <2>4. ASSUME NEW n \in Port, PassedOn(c, n)
        PROVE  NatInv'
    <3>. DEFINE before == [remote EXCEPT ![c] = @ \ {n}]
    <3>1. /\ before \in [Core -> SUBSET Port]
          /\ \A d \in Core : before[d] \subseteq remote[d]
      BY <2>1
    <3>2. ProcessIncoming(c, n, before)
      BY <2>4 DEF PassedOn
    <3>. HIDE DEF before
    <3>. QED
      BY <3>1, <3>2, IncomingKeeps
  <2>. QED
    BY <2>2, <2>3, <2>4
<1>3. CASE Host
  BY <1>3, ConnectKeeps, CloseKeeps DEF Host
<1>4. CASE UNCHANGED vars
  <2>1. /\ UNCHANGED <<slotVars, hostVars>>
        /\ UNCHANGED <<natVars, remote>>
        /\ TypeOK'
    BY <1>4 DEF vars, slotVars, hostVars, natVars, NatInv, TypeOK
  <2>. QED
    BY <2>1, HostUnchanged, NatUnchanged DEF NatInv
<1>. QED
  BY <1>1, <1>2, <1>3, <1>4 DEF Next

\* The inductive invariant, on which the other theorems rest.
THEOREM NatInvariance == Spec => []NatInv
<1>1. Init => NatInv
  <2>. SUFFICES ASSUME Init PROVE NatInv
    OBVIOUS
  <2>1. TypeOK
    BY DEF Init, TypeOK, Map
  <2>2. MasterInv /\ CacheInv /\ PacketInv
    BY DEF Init, MasterInv, CacheInv, PacketInv, Port
  <2>3. HostInv /\ HostConnectionKept
    BY DEF Init, HostInv, HostConnectionKept
  <2>. QED
    BY <2>1, <2>2, <2>3 DEF NatInv
<1>2. NatInv /\ [Next]_vars => NatInv'
  BY NextKeeps
<1>. QED
  BY <1>1, <1>2, PTL DEF Spec

\* SetupExternalPortMapping, allocate_port: no two connections share a port, no
\* connection has two, as long as ports are left.
THEOREM PortsAreUnique == Spec => []PortPerConnection
<1>1. NatInv => PortPerConnection
  <2>. SUFFICES ASSUME NatInv, NEW s \in sent, NEW t \in sent, s.nport # 0, t.nport # 0
                PROVE  s.nport = t.nport <=> s.conn = t.conn
    BY DEF PortPerConnection
  <2>1. /\ s.nport \in Port /\ t.nport \in Port
        /\ s.conn \in Mapping /\ t.conn \in Mapping
    BY DEF NatInv, TypeOK
  <2>2. master_port_map[s.nport] = s.conn /\ master_port_map[t.nport] = t.conn
    BY DEF NatInv, PacketInv
  <2>. QED
    BY <2>1, <2>2 DEF NatInv, MasterInv
<1>. QED
  BY <1>1, NatInvariance, PTL

\* external_portmap_lookup: whatever the core has cached, an answer reaches the connection
\* whose packet it answers, unless the core was asked for the port too early.
THEOREM RepliesReachWriters == Spec => []ReplyReachesWriter
<1>1. NatInv => ReplyReachesWriter
  <2>. SUFFICES ASSUME NatInv, NEW s \in sent, s.nport # 0, NEW c \in Core
                PROVE  external_portmap_lookup(c, s.nport) =
                          IF port_map_cache[c][s.nport] = NullMapping THEN NullMapping
                          ELSE s.conn
    BY DEF ReplyReachesWriter
  <2>1. s.nport \in Port /\ s.conn \in Mapping
    BY DEF NatInv, TypeOK
  <2>2. master_port_map[s.nport] = s.conn
    BY DEF NatInv, PacketInv
  <2>3. port_map_cache[c][s.nport] \in Mapping \cup {NoEntry, NullMapping}
    BY <2>1 DEF NatInv, TypeOK, Map
  <2>4. port_map_cache[c][s.nport] \in Mapping => port_map_cache[c][s.nport] = s.conn
    BY <2>1, <2>2 DEF NatInv, CacheInv
  <2>. QED
    BY <2>1, <2>2, <2>3, <2>4 DEF external_portmap_lookup, ExternalPortLookup
<1>. QED
  BY <1>1, NatInvariance, PTL

\* The caches need no invalidation: they are never stale.
THEOREM CachesNeverStale == Spec => []CachesAgree
<1>1. NatInv => CachesAgree
  <2>. SUFFICES ASSUME NatInv, NEW c \in Core, NEW n \in NatPort
                PROVE  port_map_cache[c][n] \in {NoEntry, NullMapping, master_port_map[n]}
    BY DEF CachesAgree
  <2>1. n \in Port /\ n # 0
    BY DEF Port
  <2>2. port_map_cache[c][n] \in Mapping \cup {NoEntry, NullMapping}
    BY <2>1 DEF NatInv, TypeOK, Map
  <2>. QED
    BY <2>1, <2>2 DEF NatInv, CacheInv
<1>. QED
  BY <1>1, NatInvariance, PTL

\* ProcessIncoming: a packet that was passed on is not passed on again, so no packet
\* travels between cores for ever.
THEOREM PassedOnAtMostOnce == Spec => []PassedOnOnce
<1>1. NatInv => PassedOnOnce
  <2>. SUFFICES ASSUME NatInv, NEW c \in Core, NEW n \in remote[c],
                       external_portmap_lookup(c, n) # NullMapping
                PROVE  external_portmap_lookup(c, n).core = c
    BY DEF PassedOnOnce
  <2>. DEFINE m == external_portmap_lookup(c, n)
  <2>1. n \in Port
    BY DEF NatInv, TypeOK
  <2>2. m \in Mapping /\ (m = port_map_cache[c][n] \/ m = master_port_map[n])
    BY <2>1, LookupEffect
  <2>3. master_port_map[n].core = c
    BY DEF NatInv, PacketInv
  <2>4. m = port_map_cache[c][n] => m = master_port_map[n] \/ m.core = c
    BY <2>1, <2>2 DEF NatInv, CacheInv
  <2>. QED
    BY <2>2, <2>3, <2>4
<1>. QED
  BY <1>1, NatInvariance, PTL

\* RegisterInternalPort, RemoveInstanceState: while the instance lives that a host connection
\* was made to, nothing takes its port away but the halt of an instance that registered the
\* same port and was refused.
THEOREM HostConnectionsAreKept == Spec => []HostConnectionKept
<1>1. NatInv => HostConnectionKept
  BY DEF NatInv
<1>. QED
  BY <1>1, NatInvariance, PTL
=============================================================================
