-------------------------------- MODULE UmNat --------------------------------
(***************************************************************************)
(* The proxy's address translation (UmProxy.cc).  Outward, a connection of *)
(* an instance gets a port of the machine: the master map, under a lock,   *)
(* is shared by all cores, and each core caches what it has seen of it.    *)
(* Inward, each core maps the ports from which the host connects to the    *)
(* instances it connects to.                                               *)
(*                                                                         *)
(* Each action is one event on one core.  An event takes the lock at most  *)
(* once and touches its own core's state only, apart from that.  What      *)
(* packets do to the slot is in UmSlot.                                    *)
(***************************************************************************)
EXTENDS Naturals

CONSTANTS
    Core, Umi, NoUmi,
    Home,         \* the core of each instance
    GuestPort,    \* ports from which guests connect to the outside
    HostPort,     \* ports from which the host connects to instances
    NatPort,      \* the ports the NAT hands out
    NoEntry,      \* a map has nothing for a port
    NullMapping   \* null_port_mapping_, the answer for an unknown port

Port == NatPort \cup {0}
Mapping == [umi : Umi \cup {NoUmi}, core : Core, port : GuestPort]

ASSUME NatAssumption ==
    /\ NoUmi \notin Umi
    /\ Home \in [Umi -> Core]
    /\ NatPort \subseteq Nat \ {0}
    /\ NoEntry \notin Mapping /\ NullMapping \notin Mapping /\ NoEntry # NullMapping

VARIABLES
    life,                     \* of an instance: not loaded yet, live, gone
    umi_id,                   \* the proxy's active instance, on each core
    port_set,                 \* the ports that may be allocated
    master_port_map,          \* the connection each port stands for
    port_map_cache,           \* what each core has seen of it
    host_src_port_map_cache,  \* on each core, the instance of each host port
    src_ports,                \* the host ports an instance has registered
    refused,                  \* those of them that were another instance's (history)
    outgoing,                 \* guest ports of packets written and not yet processed
    remote,                   \* packets another core has passed on
    sent,                     \* the port and the connection of each packet sent
    host_conn                 \* the instance that the host's connections talk to

vars == <<life, umi_id, port_set, master_port_map, port_map_cache,
          host_src_port_map_cache, src_ports, refused, outgoing, remote, sent, host_conn>>
slotVars == <<life, umi_id>>
natVars == <<port_set, master_port_map, port_map_cache, sent>>
hostVars == <<host_src_port_map_cache, src_ports, refused, host_conn>>

(***************************************************************************)
(* Maps between ports and connections.                                     *)
(***************************************************************************)
\* The ports that map gives connection m.
PortsOf(map, m) == {n \in Port : map[n] = m}

\* insert of a bimap: nothing happens if the port or the connection has an entry.
insert(map, n, m) ==
    IF map[n] # NoEntry \/ PortsOf(map, m) # {} THEN map ELSE [map EXCEPT ![n] = m]

first(S) == CHOOSE n \in S : \A k \in S : n <= k

\* Faulty variant of allocate_port.
AllocateNext == IF port_set = {} THEN 0 ELSE first(port_set) + 1
allocate_port == IF port_set = {} THEN 0 ELSE first(port_set)

\* Faulty variant of Allocatable: the port handed out stays in the set.
StillAllocatable(n) == port_set
Allocatable(n) == port_set \ {n}

\* Faulty variant of SetupExternalPortMapping: the root does not look the connection up.
AlwaysAllocated(m) == allocate_port

\* The port of connection m at the root: its entry, or a new one.
SetupExternalPortMapping(m) ==
    IF PortsOf(master_port_map, m) # {}
    THEN CHOOSE n \in Port : master_port_map[n] = m
    ELSE allocate_port

\* Faulty variant of CachedPorts: the instance is not compared.
CachedForAnyone(c, m) ==
    {n \in Port : port_map_cache[c][n] \in Mapping /\ port_map_cache[c][n].port = m.port}

\* swizzle_port_out: what the core's cache has for connection m.
CachedPorts(c, m) == PortsOf(port_map_cache[c], m)

\* The connection that port n stands for, at the root and as core c finds it.
ExternalPortLookup(n) == IF master_port_map[n] = NoEntry THEN NullMapping ELSE master_port_map[n]

external_portmap_lookup(c, n) ==
    IF port_map_cache[c][n] = NoEntry THEN ExternalPortLookup(n) ELSE port_map_cache[c][n]

\* Faulty variant of RegisterInternalPort: on a conflict the last one gets the port.
RegisterTakesOver(c, u, p) ==
    /\ host_src_port_map_cache' = [host_src_port_map_cache EXCEPT ![c][p] = u]
    /\ UNCHANGED refused

\* On a conflict the proxy prints an error, and the port stays with the instance that has it.
RegisterInternalPort(c, u, p) ==
    /\ host_src_port_map_cache' =
          [host_src_port_map_cache EXCEPT ![c][p] = IF @ = NoUmi THEN u ELSE @]
    /\ refused' = IF host_src_port_map_cache[c][p] \in {NoUmi, u} THEN refused
                  ELSE [refused EXCEPT ![u] = @ \cup {p}]

(***************************************************************************)
(* Instances.                                                              *)
(***************************************************************************)
Init ==
    /\ life = [u \in Umi |-> "new"]
    /\ umi_id = [c \in Core |-> NoUmi]
    /\ port_set = NatPort
    /\ master_port_map = [n \in Port |-> NoEntry]
    /\ port_map_cache = [c \in Core |-> [n \in Port |-> NoEntry]]
    /\ host_src_port_map_cache = [c \in Core |-> [p \in HostPort |-> NoUmi]]
    /\ src_ports = [u \in Umi |-> {}]
    /\ refused = [u \in Umi |-> {}]
    /\ outgoing = [c \in Core |-> {}]
    /\ remote = [c \in Core |-> {}]
    /\ sent = {}
    /\ host_conn = [c \in Core |-> [p \in HostPort |-> NoUmi]]

\* The instance enters the slot, new or swapped in.  The manager changes the slot in an
\* event of its own: packets of the instance before may still wait.
SetActiveInstance(u) ==
    LET c == Home[u] IN
    /\ life[u] # "gone"
    /\ umi_id[c] # u
    /\ umi_id' = [umi_id EXCEPT ![c] = u]
    /\ life' = [life EXCEPT ![u] = "live"]
    /\ UNCHANGED <<natVars, hostVars, outgoing, remote>>

\* Faulty variant of Unregistered: all host ports are unmapped.
AllUnregistered(c, u) == [p \in HostPort |-> NoUmi]

\* RemoveInstanceState: the host ports after the registered ones of u are erased.
Unregistered(c, u) ==
    [p \in HostPort |-> IF p \in src_ports[u] THEN NoUmi ELSE host_src_port_map_cache[c][p]]

\* The occupant halts; Halt waits until no event is pending.
RemoveInstanceState(c) ==
    LET u == umi_id[c] IN
    /\ u # NoUmi
    /\ outgoing[c] = {}
    /\ umi_id' = [umi_id EXCEPT ![c] = NoUmi]
    /\ life' = [life EXCEPT ![u] = "gone"]
    /\ host_src_port_map_cache' = [host_src_port_map_cache EXCEPT ![c] = Unregistered(c, u)]
    /\ UNCHANGED <<natVars, src_ports, refused, host_conn, outgoing, remote>>

\* A client registers a host port for its instance, which keeps it whatever the proxy says.
RegisterPort(u, p) ==
    /\ life[u] # "gone"
    /\ RegisterInternalPort(Home[u], u, p)
    /\ src_ports' = [src_ports EXCEPT ![u] = @ \cup {p}]
    /\ UNCHANGED <<slotVars, natVars, host_conn, outgoing, remote>>

(***************************************************************************)
(* Packets to and from the outside.                                        *)
(***************************************************************************)
\* The occupant writes a packet from port g; it is processed in an event of its own.
GuestWrite(c, g) ==
    /\ umi_id[c] # NoUmi
    /\ outgoing' = [outgoing EXCEPT ![c] = @ \cup {g}]
    /\ UNCHANGED <<slotVars, natVars, hostVars, remote>>

\* ProcessOutgoing, for a packet to the outside: nat_masquerade_out, swizzle_port_out.
\* The connection is taken to be that of the instance that is active by now, which need
\* not be the one that wrote.
ProcessOutgoing(c, g) ==
    LET m == [umi |-> umi_id[c], core |-> c, port |-> g]
        n == IF CachedPorts(c, m) # {} THEN CHOOSE k \in Port : k \in CachedPorts(c, m)
             ELSE SetupExternalPortMapping(m)
    IN
    /\ g \in outgoing[c]
    /\ outgoing' = [outgoing EXCEPT ![c] = @ \ {g}]
    /\ IF CachedPorts(c, m) # {} \/ PortsOf(master_port_map, m) # {}
       THEN UNCHANGED <<port_set, master_port_map>>
       ELSE /\ port_set' = Allocatable(n)
            /\ master_port_map' = insert(master_port_map, n, m)
    /\ port_map_cache' = [port_map_cache EXCEPT ![c] =
                            IF CachedPorts(c, m) # {} THEN @ ELSE insert(@, n, m)]
    /\ sent' = sent \cup {[nport |-> n, conn |-> m]}
    /\ UNCHANGED <<slotVars, hostVars, remote>>

\* Faulty variant of Destination: the packet is passed on to the core it is on.
SameCore(c, m) == c

\* The core that must deliver a packet of connection m.
Destination(c, m) == m.core

\* ProcessIncoming on core c, for a packet from the outside to port n; before is what
\* was passed on and is left to process.  The packet is dropped, passed on, or delivered.
ProcessIncoming(c, n, before) ==
    LET m == external_portmap_lookup(c, n) IN
    /\ port_map_cache' = [port_map_cache EXCEPT ![c] = insert(@, n, m)]
    /\ remote' = IF m # NullMapping /\ m.core # c
                 THEN [before EXCEPT ![Destination(c, m)] = @ \cup {n}]
                 ELSE before
    /\ UNCHANGED <<slotVars, hostVars, port_set, master_port_map, sent, outgoing>>

\* The network brings a packet for any port, on any core: an answer, perhaps more than
\* once, or a packet for a port that was not handed out, say before a restart.
Arrive(c, n) == ProcessIncoming(c, n, remote)

PassedOn(c, n) ==
    /\ n \in remote[c]
    /\ ProcessIncoming(c, n, [remote EXCEPT ![c] = @ \ {n}])

(***************************************************************************)
(* Packets from the host.                                                  *)
(***************************************************************************)
\* The host connects from port p: the instance mapped to p, else the active one, which p
\* is mapped to from now on.
HostConnect(c, p) ==
    LET mapped == host_src_port_map_cache[c][p]
        target == IF mapped # NoUmi THEN mapped ELSE umi_id[c]
    IN
    /\ host_conn[c][p] = NoUmi
    /\ target # NoUmi
    /\ RegisterInternalPort(c, target, p)
    /\ host_conn' = [host_conn EXCEPT ![c][p] = IF life[target] = "live" THEN target ELSE @]
    /\ UNCHANGED <<slotVars, natVars, src_ports, outgoing, remote>>

HostClose(c, p) ==
    /\ host_conn[c][p] # NoUmi
    /\ host_conn' = [host_conn EXCEPT ![c][p] = NoUmi]
    /\ UNCHANGED <<slotVars, natVars, host_src_port_map_cache, src_ports, refused, outgoing,
                   remote>>

Instances ==
    \/ \E u \in Umi : SetActiveInstance(u)
    \/ \E c \in Core : RemoveInstanceState(c)
    \/ \E u \in Umi, p \in HostPort : RegisterPort(u, p)

Outside ==
    \E c \in Core :
        \/ \E g \in GuestPort : GuestWrite(c, g) \/ ProcessOutgoing(c, g)
        \/ \E n \in Port : Arrive(c, n) \/ PassedOn(c, n)

Host == \E c \in Core, p \in HostPort : HostConnect(c, p) \/ HostClose(c, p)

Next == Instances \/ Outside \/ Host

Spec == Init /\ [][Next]_vars

(***************************************************************************)
(* Properties.                                                             *)
(***************************************************************************)
Map == [Port -> Mapping \cup {NoEntry, NullMapping}]

TypeOK ==
    /\ life \in [Umi -> {"new", "live", "gone"}]
    /\ umi_id \in [Core -> Umi \cup {NoUmi}]
    /\ port_set \subseteq NatPort
    /\ master_port_map \in Map
    /\ port_map_cache \in [Core -> Map]
    /\ host_src_port_map_cache \in [Core -> [HostPort -> Umi \cup {NoUmi}]]
    /\ src_ports \in [Umi -> SUBSET HostPort]
    /\ refused \in [Umi -> SUBSET HostPort]
    /\ outgoing \in [Core -> SUBSET GuestPort]
    /\ remote \in [Core -> SUBSET Port]
    /\ sent \subseteq [nport : Port, conn : Mapping]
    /\ host_conn \in [Core -> [HostPort -> Umi \cup {NoUmi}]]

\* "By not freeing used ports we guarantee a unique port each time" (UmProxy.cc:80), as
\* long as there are any: two connections never appear outside with the same port, and
\* one connection never with two.
PortPerConnection ==
    \A s, t \in sent :
        s.nport # 0 /\ t.nport # 0 => (s.nport = t.nport <=> s.conn = t.conn)

\* An answer reaches the connection that the packet was sent for, on whichever core it
\* arrives and whatever that core has cached, except on a core that was asked for the port
\* before it was handed out (external_portmap_lookup): there it is dropped for ever.
ReplyReachesWriter ==
    \A s \in sent : s.nport # 0 =>
        \A c \in Core :
            external_portmap_lookup(c, s.nport) =
                IF port_map_cache[c][s.nport] = NullMapping THEN NullMapping ELSE s.conn

\* The caches, which are never cleared, never name a connection that the master map does
\* not have for the port.  Port 0, which connections share when there are none left, is
\* different on each core.
CachesAgree ==
    \A c \in Core : \A n \in NatPort :
        port_map_cache[c][n] \in {NoEntry, NullMapping, master_port_map[n]}

\* A packet that was passed on is on the core of its instance, or is dropped there: it is
\* never passed on again (ProcessIncoming).
PassedOnOnce ==
    \A c \in Core : \A n \in remote[c] :
        LET m == external_portmap_lookup(c, n) IN m # NullMapping => m.core = c

\* An instance that registered port p of core c though it was another's has halted since.
RefusedHalted(c, p) == \E t \in Umi : Home[t] = c /\ life[t] = "gone" /\ p \in refused[t]

\* The host's packets go on reaching the instance that its connection was made to, as
\* long as that lives (ProcessIncoming, RemoveInstanceState): nothing takes the port away
\* but the halt of an instance whose registration of it was refused.
HostConnectionKept ==
    \A c \in Core : \A p \in HostPort :
        LET u == host_conn[c][p] IN
        u # NoUmi /\ life[u] = "live" =>
            host_src_port_map_cache[c][p] = u \/ RefusedHalted(c, p)

=============================================================================
