---------------------------- MODULE Ipv4Interface ----------------------------
(***************************************************************************)
(* IPv4 configuration of an IP instance's interfaces: each interface's     *)
(* address and network mask, the address-change callback, the static      *)
(* route table and whether ICMP processing is installed, with the          *)
(* services that read and change them.                                     *)
(*                                                                         *)
(* Under src/ are the reading services (nx_ip_address_get and the checked  *)
(* interface info get), the checked address-change notify and static route *)
(* delete, and ICMP enable.  The address set, the route add and the        *)
(* internals the checked services forward to are not under src/ and are   *)
(* modelled from the spec's interface table and static route table.  A     *)
(* reading service's result is what it writes to the caller's variables.   *)
(***************************************************************************)
EXTENDS Naturals, FiniteSets

CONSTANTS MaxV4Interfaces, \* NX_MAX_PHYSICAL_INTERFACES
          V4Addresses,     \* addresses (and network masks) an interface may take
          V4Notifiers,     \* address-change callbacks
          NoV4Notify,      \* NX_NULL callback
          MaxStaticRoutes  \* NX_IP_ROUTING_TABLE_SIZE

V4Ifs == 0..(MaxV4Interfaces - 1)

\* A static route: destination network, its mask and the next hop.
Routes == [net : V4Addresses, mask : V4Addresses, hop : V4Addresses]

Statuses4 == {"none", "success", "invalid_interface", "not_successful",
              "table_full"}

VARIABLES
  ip4_addr,        \* interface -> nx_interface_ip_address
  ip4_mask,        \* interface -> nx_interface_ip_network_mask
  v4_notify,       \* nx_ip_address_change_notify
  notified,        \* interfaces whose address change the callback was told of
  static_routes,   \* nx_ip_routing_table entries in use
  icmp4_enabled,   \* the ICMPv4 queue/receive/process handlers are installed
  reply            \* the last service's status and the values it wrote

v4vars == <<ip4_addr, ip4_mask, v4_notify, notified, static_routes,
            icmp4_enabled, reply>>

Ipv4TypeOK ==
  /\ ip4_addr \in [V4Ifs -> V4Addresses \cup {0}]
  /\ ip4_mask \in [V4Ifs -> V4Addresses \cup {0}]
  /\ v4_notify \in V4Notifiers \cup {NoV4Notify}
  /\ notified \subseteq V4Ifs
  /\ static_routes \subseteq Routes
  /\ icmp4_enabled \in BOOLEAN
  /\ reply \in Statuses4 \X (V4Addresses \cup {0}) \X (V4Addresses \cup {0})

\* The address and mask nx_ip_create gives interface 0 (any will do: every
\* other value is reached by an address set).
CreateAddress == CHOOSE a \in V4Addresses : TRUE

\* After nx_ip_create: interface 0 has the address and mask it was created
\* with; the other interfaces are not attached yet.
Ipv4Init ==
  /\ ip4_addr = [i \in V4Ifs |-> IF i = 0 THEN CreateAddress ELSE 0]
  /\ ip4_mask = [i \in V4Ifs |-> IF i = 0 THEN CreateAddress ELSE 0]
  /\ v4_notify = NoV4Notify
  /\ notified = {}
  /\ static_routes = {}
  /\ icmp4_enabled = FALSE
  /\ reply = <<"none", 0, 0>>

-----------------------------------------------------------------------------
(* Address, mask and the change callback                                   *)

\* _nx_ip_interface_address_set (not under src/): under the IP mutex the
\* interface's address and mask are replaced; then, with the mutex
\* released, the address-change callback, if one is set, is called.
IpInterfaceAddressSet(i, a, m) ==
  /\ ip4_addr' = [ip4_addr EXCEPT ![i] = a]
  /\ ip4_mask' = [ip4_mask EXCEPT ![i] = m]
  /\ notified' = IF v4_notify # NoV4Notify THEN notified \cup {i} ELSE notified
  /\ reply' = <<"success", 0, 0>>
  /\ UNCHANGED <<v4_notify, static_routes, icmp4_enabled>>

\* _nx_ip_address_get: under the IP mutex and with interrupts disabled,
\* interface 0's address and network mask are copied out.
IpAddressGet ==
  /\ reply' = <<"success", ip4_addr[0], ip4_mask[0]>>
  /\ UNCHANGED <<ip4_addr, ip4_mask, v4_notify, notified, static_routes,
                 icmp4_enabled>>

\* _nxe_ip_address_change_notify: NX_PTR_ERROR for a NULL or not created
\* IP instance (never passed here), then _nx_ip_address_change_notify
\* stores the callback (a NULL one included) under the IP mutex.
NxeIpAddressChangeNotify(f) ==
  /\ v4_notify' = f
  /\ reply' = <<"success", 0, 0>>
  /\ UNCHANGED <<ip4_addr, ip4_mask, notified, static_routes, icmp4_enabled>>

\* _nxe_ip_interface_info_get: NX_INVALID_INTERFACE for an index of
\* NX_MAX_PHYSICAL_INTERFACES or more; otherwise _nx_ip_interface_info_get
\* copies out the interface's address and mask (its name, MTU and physical
\* address are not modelled).
NxeIpInterfaceInfoGet(i) ==
  /\ reply' = IF i >= MaxV4Interfaces
              THEN <<"invalid_interface", 0, 0>>
              ELSE <<"success", ip4_addr[i], ip4_mask[i]>>
  /\ UNCHANGED <<ip4_addr, ip4_mask, v4_notify, notified, static_routes,
                 icmp4_enabled>>

-----------------------------------------------------------------------------
(* Static routes and ICMP                                                  *)

\* The table's entries for network net with mask m.
RoutesTo(net, m) == {x \in static_routes : x.net = net /\ x.mask = m}

\* _nx_ip_static_route_add (not under src/): a network already in the
\* table has its next hop replaced; a new one takes a free entry, and
\* with none left the add is NX_OVERFLOW.
IpStaticRouteAdd(r) ==
  /\ IF RoutesTo(r.net, r.mask) = {} /\ Cardinality(static_routes) >= MaxStaticRoutes
     THEN /\ reply' = <<"table_full", 0, 0>>
          /\ UNCHANGED static_routes
     ELSE /\ static_routes' = (static_routes \ RoutesTo(r.net, r.mask)) \cup {r}
          /\ reply' = <<"success", 0, 0>>
  /\ UNCHANGED <<ip4_addr, ip4_mask, v4_notify, notified, icmp4_enabled>>

\* _nxe_ip_static_route_delete: NX_PTR_ERROR for a NULL or not created IP
\* instance (never passed here); then _nx_ip_static_route_delete (not
\* under src/) removes the entry for the network and mask, or returns
\* NX_NOT_SUCCESSFUL when there is none.
NxeIpStaticRouteDelete(net, m) ==
  /\ static_routes' = static_routes \ RoutesTo(net, m)
  /\ reply' = IF RoutesTo(net, m) = {} THEN <<"not_successful", 0, 0>>
                                       ELSE <<"success", 0, 0>>
  /\ UNCHANGED <<ip4_addr, ip4_mask, v4_notify, notified, icmp4_enabled>>

\* _nx_icmp_enable: the ICMP queue-process, packet-receive and ICMPv4
\* process handlers are installed.
IcmpEnable ==
  /\ icmp4_enabled' = TRUE
  /\ reply' = <<"success", 0, 0>>
  /\ UNCHANGED <<ip4_addr, ip4_mask, v4_notify, notified, static_routes>>

Ipv4Next ==
  \/ \E i \in V4Ifs, a, m \in V4Addresses : IpInterfaceAddressSet(i, a, m)
  \/ IpAddressGet
  \/ \E f \in V4Notifiers \cup {NoV4Notify} : NxeIpAddressChangeNotify(f)
  \/ \E i \in 0..MaxV4Interfaces : NxeIpInterfaceInfoGet(i)
  \/ \E r \in Routes : IpStaticRouteAdd(r)
  \/ \E net, m \in V4Addresses : NxeIpStaticRouteDelete(net, m)
  \/ IcmpEnable

Ipv4Spec == Ipv4Init /\ [][Ipv4Next]_v4vars

====
