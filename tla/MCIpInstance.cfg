\* Sockets: three sockets compete for two ports, deletes racing bind waits
\* and connections.  Multicast: two groups on two interfaces in a
\* two-entry table, joined up to twice: the table fills, and a group
\* joined on interface 1 cannot be left by nx_igmp_multicast_leave.  IPv4:
\* two interfaces with two address values, a one-entry static route table
\* (so that an add overflows) and an interface index one past the table.
\* Trace: three callers, two event ids and a two-entry buffer that wraps
\* between a call's insert and its update; the filter is only widened.
\* IPv6: two interfaces sharing a two-entry ND cache and two address
\* slots, with two neighbour/interface addresses and one waiting packet:
\* enough for eviction, static promotion over queued packets, and an entry
\* of a detached interface in the last slot.
CONSTANTS
  Sockets = {s1, s2, s3}
  Ports <- MCPorts
  Callbacks = {cb1}
  QueueMaxes = {8, 16}
  DefaultMax = 8
  NULL = NULL
  McGroups = {g1, g2}
  McInterfaces = {0, 1}
  MaxMcGroups = 2
  MaxJoins = 2
  NoGroup = NoGroup
  MaxV4Interfaces = 2
  V4Addresses = {1, 2}
  V4Notifiers = {v1}
  NoV4Notify = NoV4Notify
  MaxStaticRoutes = 1
  Callers = {c1, c2, c3}
  EventIds = {ev1, ev2}
  NumSlots = 2
  NX_NULL = NX_NULL
  None = None
  InitialEnabled = {ev1}
  FilterSettings = {{ev1, ev2}}
  CoarseClock = FALSE
  MaxPhysical = 2
  CacheSize = 2
  MaxAddresses = 2
  Addrs = {x1, x2}
  Pkts = {k1}
  RsMax = 1
  AddrNotifiers = {n1}
  NoIf = NoIf
  NoAddrNotify = NoAddrNotify

SPECIFICATION IpSpec

INVARIANTS
  IpTypeOK
  CreatedListConsistent
  NoDanglingSocket
  UpdateHitsOwnEvent
  NoDetachedReferences
