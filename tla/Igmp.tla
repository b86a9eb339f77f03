-------------------------------- MODULE Igmp --------------------------------
(***************************************************************************)
(* IPv4 multicast group membership of one IP instance.                     *)
(*                                                                         *)
(* The IP instance keeps a table of NX_MAX_MULTICAST_GROUPS entries        *)
(* (nx_ipv4_multicast_entry): a group address, the interface it was        *)
(* joined on and a join count.  The first join of a group on an interface  *)
(* takes a free entry and asks the driver to accept the group              *)
(* (NX_LINK_MULTICAST_JOIN); later joins count up; a leave counts down and *)
(* the last one frees the entry and asks the driver to drop the group      *)
(* (NX_LINK_MULTICAST_LEAVE).  The services under src/ are thin:           *)
(* nx_ipv4_multicast_interface_join and nx_igmp_multicast_leave forward to *)
(* the join and leave internals (not under src/, modelled from the spec's  *)
(* multicast membership and driver contract), and _nxe_igmp_info_get      *)
(* checks that IGMP is enabled before reading the counters.               *)
(***************************************************************************)
EXTENDS Naturals, FiniteSets

CONSTANTS McGroups,        \* multicast group addresses
          McInterfaces,    \* interface indices of the IP instance
          MaxMcGroups,     \* NX_MAX_MULTICAST_GROUPS
          MaxJoins,        \* bound on a group's join count
          NoGroup          \* 0: an entry not in use

McSlots == 0..(MaxMcGroups - 1)

VARIABLES
  mc_group,       \* slot -> nx_ipv4_multicast_join_list
  mc_if,          \* slot -> nx_ipv4_multicast_join_interface_list
  mc_count,       \* slot -> nx_ipv4_multicast_join_count
  link_filter,    \* the <<group, interface>> pairs the drivers accept
  groups_joined,  \* nx_ip_igmp_groups_joined
  igmp_enabled,   \* nx_ip_igmp_packet_receive is set
  info_result     \* status and groups joined the last info get returned

mvars == <<mc_group, mc_if, mc_count, link_filter, groups_joined,
           igmp_enabled, info_result>>

IgmpTypeOK ==
  /\ mc_group \in [McSlots -> McGroups \cup {NoGroup}]
  /\ mc_if \in [McSlots -> McInterfaces]
  /\ mc_count \in [McSlots -> 0..MaxJoins]
  /\ link_filter \subseteq McGroups \X McInterfaces
  /\ groups_joined \in 0..MaxMcGroups
  /\ igmp_enabled \in BOOLEAN
  /\ info_result \in {"none", "not_enabled", "success"} \X (0..MaxMcGroups)

IgmpInit ==
  /\ mc_group = [k \in McSlots |-> NoGroup]
  /\ mc_if = [k \in McSlots |-> 0]
  /\ mc_count = [k \in McSlots |-> 0]
  /\ link_filter = {}
  /\ groups_joined = 0
  /\ igmp_enabled = FALSE
  /\ info_result = <<"none", 0>>

\* The entries holding group g joined on interface i.
Entries(g, i) == {k \in McSlots : mc_group[k] = g /\ mc_if[k] = i}

-----------------------------------------------------------------------------
(* The join and leave internals (not under src/)                           *)

\* _nx_igmp_multicast_interface_join_internal, under the IP mutex: a group
\* already joined on the interface counts one more join; otherwise the
\* first free entry takes it with count 1, the driver is asked to accept
\* it and the joined-groups counter goes up (the membership report is
\* sent); with no free entry, NX_NO_MORE_ENTRIES and nothing changes.
JoinInternal(g, i) ==
  IF Entries(g, i) # {}
  THEN \E k \in Entries(g, i) :
         /\ mc_count[k] < MaxJoins
         /\ mc_count' = [mc_count EXCEPT ![k] = @ + 1]
         /\ UNCHANGED <<mc_group, mc_if, link_filter, groups_joined>>
  ELSE IF \E k \in McSlots : mc_group[k] = NoGroup
  THEN LET k == CHOOSE j \in McSlots :
                  /\ mc_group[j] = NoGroup
                  /\ \A j2 \in McSlots : mc_group[j2] = NoGroup => j <= j2
       IN  /\ mc_group' = [mc_group EXCEPT ![k] = g]
           /\ mc_if' = [mc_if EXCEPT ![k] = i]
           /\ mc_count' = [mc_count EXCEPT ![k] = 1]
           /\ link_filter' = link_filter \cup {<<g, i>>}
           /\ groups_joined' = groups_joined + 1
  ELSE UNCHANGED <<mc_group, mc_if, mc_count, link_filter, groups_joined>>

\* _nx_igmp_multicast_interface_leave_internal, under the IP mutex: the
\* entry of g on interface i counts one join less; the last leave frees
\* the entry, asks the driver to drop the group and lowers the joined-
\* groups counter (the leave report is sent); a group not joined there is
\* NX_ENTRY_NOT_FOUND.
LeaveInternal(g, i) ==
  IF Entries(g, i) # {}
  THEN \E k \in Entries(g, i) :
         IF mc_count[k] > 1
         THEN /\ mc_count' = [mc_count EXCEPT ![k] = @ - 1]
              /\ UNCHANGED <<mc_group, mc_if, link_filter, groups_joined>>
         ELSE /\ mc_group' = [mc_group EXCEPT ![k] = NoGroup]
              /\ mc_count' = [mc_count EXCEPT ![k] = 0]
              /\ link_filter' = link_filter \ {<<g, i>>}
              /\ groups_joined' = groups_joined - 1
              /\ UNCHANGED mc_if
  ELSE UNCHANGED <<mc_group, mc_if, mc_count, link_filter, groups_joined>>

-----------------------------------------------------------------------------
(* The services                                                            *)

\* _nx_ipv4_multicast_interface_join: the join internal on interface i,
\* waiting forever for the IP mutex.
Ipv4MulticastInterfaceJoin(g, i) ==
  /\ JoinInternal(g, i)
  /\ UNCHANGED <<igmp_enabled, info_result>>

\* _nx_igmp_multicast_leave: the leave internal on interface 0.
IgmpMulticastLeave(g) ==
  /\ LeaveInternal(g, 0)
  /\ UNCHANGED <<igmp_enabled, info_result>>

\* _nx_igmp_enable (not under src/): IGMP packet processing is installed.
IgmpEnable ==
  /\ igmp_enabled' = TRUE
  /\ UNCHANGED <<mc_group, mc_if, mc_count, link_filter, groups_joined,
                 info_result>>

\* _nxe_igmp_info_get: NX_NOT_ENABLED unless IGMP processing is installed;
\* otherwise _nx_igmp_info_get copies the counters out, among them the
\* groups currently joined.
NxeIgmpInfoGet ==
  /\ info_result' = IF igmp_enabled THEN <<"success", groups_joined>>
                    ELSE <<"not_enabled", 0>>
  /\ UNCHANGED <<mc_group, mc_if, mc_count, link_filter, groups_joined,
                 igmp_enabled>>

IgmpNext ==
  \/ \E g \in McGroups, i \in McInterfaces : Ipv4MulticastInterfaceJoin(g, i)
  \/ \E g \in McGroups : IgmpMulticastLeave(g)
  \/ IgmpEnable
  \/ NxeIgmpInfoGet

IgmpSpec == IgmpInit /\ [][IgmpNext]_mvars

====
