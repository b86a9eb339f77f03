---------------------------- MODULE MCIpInstance ----------------------------
(***************************************************************************)
(* Model-checking instance of the parts of one IP instance that are        *)
(* checked for safety only: TCP socket lifetime, the IPv4 multicast        *)
(* membership table, the IPv4 interface configuration, the trace buffer    *)
(* shared by traced calls, and the IPv6 neighbour cache with the           *)
(* interfaces' addresses, routers and autoconfiguration.  They share no    *)
(* variable and every property is about one of them, so an initial state   *)
(* picks one (phase) and the others keep their initial state: the state    *)
(* count is the sum of the parts.                                          *)
(***************************************************************************)
EXTENDS TcpSocket, Igmp, Ipv4Interface, TraceBuffer, Ipv6Nd

VARIABLE phase

allvars == <<vars, mvars, v4vars, tvars, ndvars, phase>>

MCPorts == {80, 81}

IpInit ==
  /\ phase \in {"tcp", "igmp", "ipv4", "trace", "nd"}
  /\ Init /\ IgmpInit /\ Ipv4Init /\ TraceInit /\ NdInit

IpNext ==
  \/ phase = "tcp" /\ Next /\ UNCHANGED <<mvars, v4vars, tvars, ndvars, phase>>
  \/ phase = "igmp" /\ IgmpNext /\ UNCHANGED <<vars, v4vars, tvars, ndvars, phase>>
  \/ phase = "ipv4" /\ Ipv4Next /\ UNCHANGED <<vars, mvars, tvars, ndvars, phase>>
  \/ phase = "trace" /\ TraceNext /\ UNCHANGED <<vars, mvars, v4vars, ndvars, phase>>
  \/ phase = "nd" /\ NdNext /\ UNCHANGED <<vars, mvars, v4vars, tvars, phase>>

IpSpec == IpInit /\ [][IpNext]_allvars

\* Every variable of every part stays within its type (a joined-groups
\* counter or a solicitation count that goes below zero, a trace pointer
\* past the buffer's end, or an interface index past the table in a read,
\* shows up here).
IpTypeOK == TypeOK /\ IgmpTypeOK /\ Ipv4TypeOK /\ TraceTypeOK /\ NdTypeOK

====
