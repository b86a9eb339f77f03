------------------------------- MODULE Ipv6Nd -------------------------------
(***************************************************************************)
(* The IPv6 side of an IP instance's interfaces: the neighbour (ND) cache, *)
(* the interface addresses with their solicited-node multicast groups in  *)
(* the driver's filter, the default routers, and stateless address        *)
(* autoconfiguration with its router solicitations.                       *)
(*                                                                         *)
(* The ND cache is a flat table of NX_IPV6_NEIGHBOR_CACHE_SIZE entries;    *)
(* an entry is free (no interface) or belongs to one interface, holds an   *)
(* address, is static or dynamic, and queues the packets waiting for the  *)
(* address to resolve.  Every service runs under the IP mutex, so each is *)
(* one step.  Translated from src/: the error-checking wrappers, the       *)
(* per-interface ND purge, autoconfiguration disable, the address change  *)
(* notify setter and the multicast leave driver call.  The internals they *)
(* call (_nxd_nd_cache_entry_set, _nx_nd_cache_delete_internal,           *)
(* _nxd_ipv6_address_set/_delete, the router table, the interface attach  *)
(* and detach, the periodic router solicitation) are not under src/ and   *)
(* are modelled from the spec (sections on the ARP/ND cache and the       *)
(* driver contract).                                                       *)
(***************************************************************************)
EXTENDS Naturals, FiniteSets

CONSTANTS MaxPhysical,  \* NX_MAX_PHYSICAL_INTERFACES
          CacheSize,    \* NX_IPV6_NEIGHBOR_CACHE_SIZE
          MaxAddresses, \* NX_MAX_IPV6_ADDRESSES
          Addrs,        \* IPv6 addresses (neighbours, interface addresses, routers)
          Pkts,         \* packet buffers waiting for resolution
          RsMax,        \* nx_ipv6_rtr_solicitation_max
          AddrNotifiers,    \* address change callbacks
          NoIf,         \* NX_NULL interface pointer: a free entry
          NoAddrNotify      \* NX_NULL callback

Ifs == 0..(MaxPhysical - 1)
NdSlots == 0..(CacheSize - 1)
AddrSlots == 0..(MaxAddresses - 1)

\* The solicited-node group of an address (ff02::1:ffXX:XXXX), kept apart
\* from the address itself.  Distinct addresses are given distinct groups
\* here; real groups (the low 24 bits) can be shared, which no property
\* of this module depends on.
Group(a) == <<"sn", a>>

NdStates == {"incomplete", "reachable", "static"}

\* The contents of a field that is not in use.
AnyAddr == CHOOSE a \in Addrs : TRUE

VARIABLES
  if_valid,      \* nx_interface_valid
  nd_if,         \* ND entry -> its interface (NoIf: free)
  nd_addr,       \* ND entry -> its neighbour address
  nd_state,      \* ND entry -> "incomplete", "reachable" or "static"
  nd_pending,    \* ND entry -> packets queued waiting for resolution
  nd_pool,       \* packets not queued on any entry
  a_if,          \* address slot -> interface it is assigned to (NoIf: free)
  a_addr,        \* address slot -> the address
  mcast,         \* interface -> groups in the driver's multicast filter
  routers,       \* default routers: address -> interface (NoIf: none)
  autoconf,      \* interface -> stateless autoconfiguration enabled
  rs_count,      \* interface -> nx_ipv6_rtr_solicitation_count
  addr_notify    \* nx_ipv6_address_change_notify

ndvars == <<if_valid, nd_if, nd_addr, nd_state, nd_pending, nd_pool, a_if,
            a_addr, mcast, routers, autoconf, rs_count, addr_notify>>

NdTypeOK ==
  /\ if_valid \in [Ifs -> BOOLEAN]
  /\ nd_if \in [NdSlots -> Ifs \cup {NoIf}]
  /\ nd_addr \in [NdSlots -> Addrs]
  /\ nd_state \in [NdSlots -> NdStates]
  /\ nd_pending \in [NdSlots -> SUBSET Pkts]
  /\ nd_pool \subseteq Pkts
  /\ a_if \in [AddrSlots -> Ifs \cup {NoIf}]
  /\ a_addr \in [AddrSlots -> Addrs]
  /\ mcast \in [Ifs -> SUBSET {Group(a) : a \in Addrs}]
  /\ routers \in [Addrs -> Ifs \cup {NoIf}]
  /\ autoconf \in [Ifs -> BOOLEAN]
  /\ rs_count \in [Ifs -> 0..RsMax]
  /\ addr_notify \in AddrNotifiers \cup {NoAddrNotify}

\* After nx_ip_create and the interface attach: every interface valid,
\* autoconfiguration enabled with its solicitations to send, tables empty.
NdInit ==
  /\ if_valid = [i \in Ifs |-> TRUE]
  /\ nd_if = [s \in NdSlots |-> NoIf]
  /\ nd_addr = [s \in NdSlots |-> AnyAddr]
  /\ nd_state = [s \in NdSlots |-> "incomplete"]
  /\ nd_pending = [s \in NdSlots |-> {}]
  /\ nd_pool = Pkts
  /\ a_if = [k \in AddrSlots |-> NoIf]
  /\ a_addr = [k \in AddrSlots |-> AnyAddr]
  /\ mcast = [i \in Ifs |-> {}]
  /\ routers = [a \in Addrs |-> NoIf]
  /\ autoconf = [i \in Ifs |-> TRUE]
  /\ rs_count = [i \in Ifs |-> RsMax]
  /\ addr_notify = NoAddrNotify

\* The active entry for address a, if any.
NdEntries(a) == {s \in NdSlots : nd_if[s] # NoIf /\ nd_addr[s] = a}

-----------------------------------------------------------------------------
(* The ND cache                                                            *)

\* _nx_nd_cache_delete_internal (not under src/) for each entry of gone:
\* its queued packets are released and it returns to the free entries.
NdDeleteInternal(gone) ==
  /\ nd_if' = [s \in NdSlots |-> IF s \in gone THEN NoIf ELSE nd_if[s]]
  /\ nd_addr' = [s \in NdSlots |-> IF s \in gone THEN AnyAddr ELSE nd_addr[s]]
  /\ nd_state' = [s \in NdSlots |-> IF s \in gone THEN "incomplete" ELSE nd_state[s]]
  /\ nd_pending' = [s \in NdSlots |-> IF s \in gone THEN {} ELSE nd_pending[s]]
  /\ nd_pool' = nd_pool \cup UNION {nd_pending[s] : s \in gone}

\* Mutant: the loop stops one entry short (i < NX_IPV6_NEIGHBOR_CACHE_SIZE - 1).
NdCacheInterfaceEntriesDeleteSkipsLast(idx) ==
  NdDeleteInternal({s \in 0..(CacheSize - 2) : nd_if[s] = idx})

\* _nx_nd_cache_interface_entries_delete: every entry whose interface
\* pointer is &nx_ip_interface[index] is deleted.
NdCacheInterfaceEntriesDelete(idx) ==
  NdDeleteInternal({s \in NdSlots : nd_if[s] = idx})

\* An entry _nxd_nd_cache_entry_set and a resolution miss may take: a free
\* one, or else a dynamic one to evict (never a static one).
FreeSlots == {s \in NdSlots : nd_if[s] = NoIf}
Victims == IF FreeSlots # {} THEN FreeSlots
           ELSE {s \in NdSlots : nd_state[s] # "static"}

\* Entry s now holds address a on interface idx in state st with queue q;
\* the packets it queued before are released (sent or dropped).
NdFill(s, idx, a, st, q) ==
  /\ nd_if' = [nd_if EXCEPT ![s] = idx]
  /\ nd_addr' = [nd_addr EXCEPT ![s] = a]
  /\ nd_state' = [nd_state EXCEPT ![s] = st]
  /\ nd_pending' = [nd_pending EXCEPT ![s] = q]
  /\ nd_pool' = (nd_pool \cup nd_pending[s]) \ q

\* _nxde_nd_cache_entry_set: NX_INVALID_INTERFACE for an index at or above
\* NX_MAX_PHYSICAL_INTERFACES; then _nxd_nd_cache_entry_set (not under
\* src/): the address's entry, or a new one, becomes static on the
\* interface and its waiting packets are sent.  The internal service is
\* taken to refuse an interface that is not valid.
NxdeNdCacheEntrySet(idx, a) ==
  /\ idx < MaxPhysical /\ if_valid[idx]
  /\ \E s \in IF NdEntries(a) # {} THEN NdEntries(a) ELSE Victims :
       NdFill(s, idx, a, "static", {})
  /\ UNCHANGED <<if_valid, a_if, a_addr, mcast, routers, autoconf, rs_count,
                 addr_notify>>

\* A packet for neighbour a without a resolved entry (not under src/): it
\* is queued on the address's incomplete entry, or on a new one while a
\* neighbour solicitation goes out.
NdResolveMiss(idx, a, p) ==
  /\ if_valid[idx] /\ p \in nd_pool
  /\ \/ \E s \in NdEntries(a) :
          /\ nd_state[s] = "incomplete"
          /\ nd_pending' = [nd_pending EXCEPT ![s] = @ \cup {p}]
          /\ nd_pool' = nd_pool \ {p}
          /\ UNCHANGED <<nd_if, nd_addr, nd_state>>
     \/ /\ NdEntries(a) = {}
        /\ \E s \in Victims : NdFill(s, idx, a, "incomplete", {p})
  /\ UNCHANGED <<if_valid, a_if, a_addr, mcast, routers, autoconf, rs_count,
                 addr_notify>>

\* A neighbour advertisement resolves an incomplete entry (not under
\* src/): its queued packets are sent.
NdAdvertisement(s) ==
  /\ nd_if[s] # NoIf /\ nd_state[s] = "incomplete"
  /\ nd_state' = [nd_state EXCEPT ![s] = "reachable"]
  /\ nd_pending' = [nd_pending EXCEPT ![s] = {}]
  /\ nd_pool' = nd_pool \cup nd_pending[s]
  /\ UNCHANGED <<if_valid, nd_if, nd_addr, a_if, a_addr, mcast, routers,
                 autoconf, rs_count, addr_notify>>

-----------------------------------------------------------------------------
(* Interface addresses and the driver's multicast filter                   *)

\* _nx_ipv6_multicast_leave under the IP mutex: an NX_LINK_MULTICAST_LEAVE
\* request to the interface's driver, which drops the groups from its
\* filter (one request per group; G is the set of groups left).
Ipv6MulticastLeave(m, idx, G) == [m EXCEPT ![idx] = @ \ G]

\* _nxd_ipv6_address_set (not under src/): a free address slot takes an
\* address not yet assigned, and its solicited-node group is joined.
Ipv6AddressSet(idx, a) ==
  /\ if_valid[idx]
  /\ \A k \in AddrSlots : a_if[k] # NoIf => a_addr[k] # a
  /\ \E k \in AddrSlots :
       /\ a_if[k] = NoIf
       /\ a_if' = [a_if EXCEPT ![k] = idx]
       /\ a_addr' = [a_addr EXCEPT ![k] = a]
  /\ mcast' = [mcast EXCEPT ![idx] = @ \cup {Group(a)}]
  /\ UNCHANGED <<if_valid, nd_if, nd_addr, nd_state, nd_pending, nd_pool,
                 routers, autoconf, rs_count, addr_notify>>

\* _nxde_ipv6_address_delete: NX_NO_INTERFACE_ADDRESS for an index at or
\* above NX_MAX_IPV6_ADDRESSES; then _nxd_ipv6_address_delete (not under
\* src/): a slot in use leaves its solicited-node group with
\* _nx_ipv6_multicast_leave, is freed, and the change callback is told.
NxdeIpv6AddressDelete(k) ==
  /\ k < MaxAddresses /\ a_if[k] # NoIf
  /\ mcast' = Ipv6MulticastLeave(mcast, a_if[k], {Group(a_addr[k])})
  /\ a_if' = [a_if EXCEPT ![k] = NoIf]
  /\ a_addr' = [a_addr EXCEPT ![k] = AnyAddr]
  /\ UNCHANGED <<if_valid, nd_if, nd_addr, nd_state, nd_pending, nd_pool,
                 routers, autoconf, rs_count, addr_notify>>

\* _nxd_ipv6_address_change_notify: the callback is replaced under the IP
\* mutex and TX_DISABLE.
NxdIpv6AddressChangeNotify(f) ==
  /\ addr_notify' = f
  /\ UNCHANGED <<if_valid, nd_if, nd_addr, nd_state, nd_pending, nd_pool,
                 a_if, a_addr, mcast, routers, autoconf, rs_count>>

-----------------------------------------------------------------------------
(* Default routers                                                         *)

\* nxd_ipv6_default_router_add (not under src/).
Ipv6DefaultRouterAdd(idx, a) ==
  /\ if_valid[idx] /\ routers[a] = NoIf
  /\ routers' = [routers EXCEPT ![a] = idx]
  /\ UNCHANGED <<if_valid, nd_if, nd_addr, nd_state, nd_pending, nd_pool,
                 a_if, a_addr, mcast, autoconf, rs_count, addr_notify>>

\* _nxde_ipv6_default_router_delete: NX_INVALID_PARAMETERS unless the
\* address is NX_IP_VERSION_V6; then _nxd_ipv6_default_router_delete (not
\* under src/) removes the router if it is in the table.
NxdeIpv6DefaultRouterDelete(a, version) ==
  /\ version = 6 /\ routers[a] # NoIf
  /\ routers' = [routers EXCEPT ![a] = NoIf]
  /\ UNCHANGED <<if_valid, nd_if, nd_addr, nd_state, nd_pending, nd_pool,
                 a_if, a_addr, mcast, autoconf, rs_count, addr_notify>>

-----------------------------------------------------------------------------
(* Stateless address autoconfiguration                                     *)

\* _nxde_ipv6_stateless_address_autoconfig_enable: NX_INVALID_INTERFACE
\* for an index at or above NX_MAX_PHYSICAL_INTERFACES; then
\* _nxd_ipv6_stateless_address_autoconfig_enable (not under src/): enabled,
\* and the router solicitations start over.
NxdeIpv6StatelessAddressAutoconfigEnable(idx) ==
  /\ idx < MaxPhysical
  /\ autoconf' = [autoconf EXCEPT ![idx] = TRUE]
  /\ rs_count' = [rs_count EXCEPT ![idx] = RsMax]
  /\ UNCHANGED <<if_valid, nd_if, nd_addr, nd_state, nd_pending, nd_pool,
                 a_if, a_addr, mcast, routers, addr_notify>>

\* _nxd_ipv6_stateless_address_autoconfig_disable: NX_SUCCESS at once if
\* already disabled (read before the mutex is taken); otherwise, under the
\* IP mutex, the status is set to disabled and the router solicitation
\* count to 0.
NxdIpv6StatelessAddressAutoconfigDisable(idx) ==
  /\ autoconf[idx]
  /\ autoconf' = [autoconf EXCEPT ![idx] = FALSE]
  /\ rs_count' = [rs_count EXCEPT ![idx] = 0]
  /\ UNCHANGED <<if_valid, nd_if, nd_addr, nd_state, nd_pending, nd_pool,
                 a_if, a_addr, mcast, routers, addr_notify>>

\* The periodic router solicitation (not under src/): while the count is
\* nonzero on a valid interface an RS goes out and the count drops.
RouterSolicitationSend(idx) ==
  /\ if_valid[idx] /\ rs_count[idx] > 0
  /\ rs_count' = [rs_count EXCEPT ![idx] = @ - 1]
  /\ UNCHANGED <<if_valid, nd_if, nd_addr, nd_state, nd_pending, nd_pool,
                 a_if, a_addr, mcast, routers, autoconf, addr_notify>>

-----------------------------------------------------------------------------
(* Interface detach                                                        *)

\* nx_ip_interface_detach (not under src/): the interface stops being
\* valid, its ND entries are purged with
\* _nx_nd_cache_interface_entries_delete, its addresses deleted (leaving
\* their groups) and its default routers removed.
InterfaceDetach(idx) ==
  LET mine == {k \in AddrSlots : a_if[k] = idx}
  IN  /\ if_valid[idx]
      /\ if_valid' = [if_valid EXCEPT ![idx] = FALSE]
      /\ NdCacheInterfaceEntriesDelete(idx)
      /\ mcast' = Ipv6MulticastLeave(mcast, idx, {Group(a_addr[k]) : k \in mine})
      /\ a_if' = [k \in AddrSlots |-> IF k \in mine THEN NoIf ELSE a_if[k]]
      /\ a_addr' = [k \in AddrSlots |-> IF k \in mine THEN AnyAddr ELSE a_addr[k]]
      /\ routers' = [a \in Addrs |-> IF routers[a] = idx THEN NoIf ELSE routers[a]]
      /\ UNCHANGED <<autoconf, rs_count, addr_notify>>

\* The application purges an interface's ND entries itself.
NdPurgeCall(idx) ==
  /\ NdCacheInterfaceEntriesDelete(idx)
  /\ UNCHANGED <<if_valid, a_if, a_addr, mcast, routers, autoconf, rs_count,
                 addr_notify>>

NdNext ==
  \/ \E idx \in 0..MaxPhysical, a \in Addrs : NxdeNdCacheEntrySet(idx, a)
  \/ \E idx \in Ifs, a \in Addrs, p \in Pkts : NdResolveMiss(idx, a, p)
  \/ \E s \in NdSlots : NdAdvertisement(s)
  \/ \E idx \in Ifs : NdPurgeCall(idx) \/ InterfaceDetach(idx)
  \/ \E idx \in Ifs, a \in Addrs : Ipv6AddressSet(idx, a) \/ Ipv6DefaultRouterAdd(idx, a)
  \/ \E k \in 0..MaxAddresses : NxdeIpv6AddressDelete(k)
  \/ \E f \in AddrNotifiers \cup {NoAddrNotify} : NxdIpv6AddressChangeNotify(f)
  \/ \E a \in Addrs, v \in {4, 6} : NxdeIpv6DefaultRouterDelete(a, v)
  \/ \E idx \in 0..MaxPhysical : NxdeIpv6StatelessAddressAutoconfigEnable(idx)
  \/ \E idx \in Ifs :
       NxdIpv6StatelessAddressAutoconfigDisable(idx) \/ RouterSolicitationSend(idx)

NdSpec == NdInit /\ [][NdNext]_ndvars

-----------------------------------------------------------------------------
(* Properties                                                              *)

\* No ND entry, interface address or default router is left referring to
\* an interface once it has been detached: the purge loop of
\* _nx_nd_cache_interface_entries_delete reaches every entry of the table,
\* whichever slots resolution and static entries have filled.
NoDetachedReferences ==
  /\ \A s \in NdSlots : nd_if[s] # NoIf => if_valid[nd_if[s]]
  /\ \A k \in AddrSlots : a_if[k] # NoIf => if_valid[a_if[k]]
  /\ \A a \in Addrs : routers[a] # NoIf => if_valid[routers[a]]

====
