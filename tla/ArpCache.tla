------------------------------ MODULE ArpCache ------------------------------
(***************************************************************************)
(* The IPv4 ARP cache of one IP instance.                                  *)
(*                                                                         *)
(* Every ARP entry sits either on the dynamic list                         *)
(* (nx_ip_arp_dynamic_list, most recently used first; free entries and     *)
(* entries in use alike) or on the static list (nx_ip_arp_static_list).    *)
(* An entry in use is also on the circular chain of its hash bucket        *)
(* (nx_ip_arp_table[(ip + (ip >> 8)) & NX_ARP_TABLE_MASK]), and an entry   *)
(* still being resolved holds the packets waiting for it.                  *)
(*                                                                         *)
(* Every operation runs with the IP mutex held and is therefore one atomic *)
(* step here.  _nx_arp_static_entry_create is translated from the source.  *)
(* The operations that are not under src/ (address resolution on send,     *)
(* the ARP reply, the periodic retry and aging, entry allocation) are      *)
(* modelled from the spec.  The lists and bucket chains are sequences in   *)
(* list order; the pointer splices themselves are abstracted.              *)
(***************************************************************************)
EXTENDS Naturals, Sequences, SequencesExt, FiniteSets, Functions, Bitwise

CONSTANTS Entries,     \* the ARP entry pool handed to nx_arp_enable
          Addrs,       \* IPv4 addresses on the local link
          Macs,        \* physical addresses
          Packets,     \* packet buffers of the arena
          TableMask,   \* NX_ARP_TABLE_MASK
          MaxQueue,    \* NX_ARP_MAX_QUEUE_DEPTH
          MaxRetries,  \* NX_ARP_MAXIMUM_RETRIES
          NoAddr,      \* ip address 0 of a free entry
          NoMac        \* physical address 0: not yet resolved

ASSUME TableMask \in Nat /\ MaxQueue \in Nat \ {0} /\ MaxRetries \in Nat

VARIABLES
  dynamic_list,         \* nx_ip_arp_dynamic_list, head first
  static_list,          \* nx_ip_arp_static_list, head first
  arp_table,            \* nx_ip_arp_table: bucket -> chain, head first
  ip_address,           \* entry -> nx_arp_ip_address
  physical,             \* entry -> nx_arp_physical_address_msw/lsw
  route_static,         \* entry -> nx_arp_route_static
  packets_waiting,      \* entry -> nx_arp_packets_waiting, oldest first
  retries,              \* entry -> nx_arp_retries
  dynamic_active_count, \* nx_ip_arp_dynamic_active_count
  static_entries,       \* nx_ip_arp_static_entries
  arena                 \* packets free in the packet pool

vars == <<dynamic_list, static_list, arp_table, ip_address, physical,
          route_static, packets_waiting, retries, dynamic_active_count,
          static_entries, arena>>

Buckets == 0..TableMask

\* The bucket index computed by every ARP lookup.
ArpHash(ip) == (ip + shiftR(ip, 8)) & TableMask

TypeOK ==
  /\ dynamic_list \in Seq(Entries)
  /\ static_list \in Seq(Entries)
  /\ arp_table \in [Buckets -> Seq(Entries)]
  /\ ip_address \in [Entries -> Addrs \cup {NoAddr}]
  /\ physical \in [Entries -> Macs \cup {NoMac}]
  /\ route_static \in [Entries -> BOOLEAN]
  /\ packets_waiting \in [Entries -> Seq(Packets)]
  /\ retries \in [Entries -> 0..MaxRetries]
  /\ dynamic_active_count \in 0..Cardinality(Entries)
  /\ static_entries \in 0..Cardinality(Entries)
  /\ arena \subseteq Packets

\* nx_arp_enable: every entry free on the dynamic list.
Init ==
  /\ dynamic_list \in SetToSeqs(Entries)
  /\ static_list = <<>>
  /\ arp_table = [b \in Buckets |-> <<>>]
  /\ ip_address = [e \in Entries |-> NoAddr]
  /\ physical = [e \in Entries |-> NoMac]
  /\ route_static = [e \in Entries |-> FALSE]
  /\ packets_waiting = [e \in Entries |-> <<>>]
  /\ retries = [e \in Entries |-> 0]
  /\ dynamic_active_count = 0
  /\ static_entries = 0
  /\ arena = Packets

InUse(e) == ip_address[e] # NoAddr

\* Mutant: the search looks at the chain head only.
ChainSearchHeadOnly(ip) ==
  IF arp_table[ArpHash(ip)] # <<>> /\ ip_address[Head(arp_table[ArpHash(ip)])] = ip
  THEN 1 ELSE 0

\* Position of the entry for ip on its bucket chain, 0 if none: the
\* search loop of _nx_arp_static_entry_create, from the chain head round
\* to the head again.
ChainSearch(ip) ==
  SelectInSeq(arp_table[ArpHash(ip)], LAMBDA e : ip_address[e] = ip)

(***************************************************************************)
(* _nx_arp_entry_allocate: the entry at the tail of the dynamic list (the  *)
(* least recently used) is taken; if it is in use it is first unlinked     *)
(* from its bucket and its waiting packets are released.                   *)
(***************************************************************************)
Victim == Last(dynamic_list)

TableWithout(v) ==
  IF InUse(v) THEN [arp_table EXCEPT ![ArpHash(ip_address[v])] = Remove(@, v)]
              ELSE arp_table

ActiveCountWithout(v) ==
  IF InUse(v) THEN dynamic_active_count - 1 ELSE dynamic_active_count

\* The waiting packets of v go back to the arena: released by
\* _nx_arp_entry_allocate, or transmitted by _nx_arp_queue_send once the
\* driver is done with them.
ArenaWith(v) == arena \cup ToSet(packets_waiting[v])

-----------------------------------------------------------------------------
(* _nx_arp_static_entry_create, in three parts.                            *)

\* Mutant: the active count is not decremented on promotion.
PromoteNoCountDecrement(e) ==
  /\ dynamic_list' = Remove(dynamic_list, e)
  /\ static_list' = Append(static_list, e)
  /\ static_entries' = static_entries + 1
  /\ UNCHANGED <<arp_table, dynamic_active_count>>

\* Mutant: the entry is linked on the static list but left on the dynamic
\* list.
PromoteKeepsDynamic(e) ==
  /\ dynamic_active_count' = dynamic_active_count - 1
  /\ static_list' = Append(static_list, e)
  /\ static_entries' = static_entries + 1
  /\ UNCHANGED <<arp_table, dynamic_list>>

\* A dynamic entry found on the chain moves, under TX_DISABLE, from the
\* dynamic list to the tail of the static list; the counters follow.
PromoteToStatic(e) ==
  /\ dynamic_list' = Remove(dynamic_list, e)
  /\ dynamic_active_count' = dynamic_active_count - 1
  /\ static_list' = Append(static_list, e)
  /\ static_entries' = static_entries + 1
  /\ UNCHANGED arp_table

\* No entry found: _nx_arp_entry_allocate(..., NX_TRUE) takes the victim
\* off the dynamic list onto the static list and links it at the tail of
\* the chain of bucket ArpHash(ip).
AllocateStatic(ip) ==
  LET v == Victim
  IN  /\ arp_table' = [TableWithout(v) EXCEPT ![ArpHash(ip)] = Append(@, v)]
      /\ dynamic_list' = Front(dynamic_list)
      /\ dynamic_active_count' = ActiveCountWithout(v)
      /\ static_list' = Append(static_list, v)
      /\ static_entries' = static_entries + 1

\* Mutant: the waiting queue is cleared without sending or releasing it.
BindStaticDropsQueue(e, ip, mac) ==
  /\ ip_address' = [ip_address EXCEPT ![e] = ip]
  /\ route_static' = [route_static EXCEPT ![e] = TRUE]
  /\ physical' = [physical EXCEPT ![e] = mac]
  /\ packets_waiting' = [packets_waiting EXCEPT ![e] = <<>>]
  /\ UNCHANGED arena

\* Mutant: _nx_arp_queue_send is not called.
BindStaticNoQueueSend(e, ip, mac) ==
  /\ ip_address' = [ip_address EXCEPT ![e] = ip]
  /\ route_static' = [route_static EXCEPT ![e] = TRUE]
  /\ physical' = [physical EXCEPT ![e] = mac]
  /\ UNCHANGED <<packets_waiting, arena>>

\* The static binding is written and _nx_arp_queue_send sends what was
\* waiting on the entry.
BindStatic(e, ip, mac) ==
  /\ ip_address' = [ip_address EXCEPT ![e] = ip]
  /\ route_static' = [route_static EXCEPT ![e] = TRUE]
  /\ physical' = [physical EXCEPT ![e] = mac]
  /\ packets_waiting' = [packets_waiting EXCEPT ![e] = <<>>]
  /\ arena' = ArenaWith(e)

\* Mutant: a found entry is promoted without checking that it is dynamic.
StaticEntryCreateAlwaysPromote(ip, mac) ==
  /\ \/ /\ ChainSearch(ip) > 0
        /\ LET e == arp_table[ArpHash(ip)][ChainSearch(ip)]
           IN  PromoteToStatic(e) /\ BindStatic(e, ip, mac)
     \/ /\ ChainSearch(ip) = 0
        /\ dynamic_list # <<>>
        /\ AllocateStatic(ip)
        /\ BindStatic(Victim, ip, mac)
  /\ UNCHANGED retries

(***************************************************************************)
(* _nx_arp_static_entry_create(ip, mac) with ip on a local link (a         *)
(* route-check failure returns before any state is touched).  An entry     *)
(* for ip already on the chain is kept (moved to the static list if it is  *)
(* dynamic); otherwise a static entry is allocated, and with no entry left *)
(* on the dynamic list NX_NO_MORE_ENTRIES is returned with nothing         *)
(* changed.  The whole call holds the IP mutex.                            *)
(***************************************************************************)
StaticEntryCreate(ip, mac) ==
  /\ \/ /\ ChainSearch(ip) > 0
        /\ LET e == arp_table[ArpHash(ip)][ChainSearch(ip)]
           IN  /\ IF route_static[e]
                  THEN UNCHANGED <<dynamic_list, static_list, arp_table,
                                   dynamic_active_count, static_entries>>
                  ELSE PromoteToStatic(e)
               /\ BindStatic(e, ip, mac)
     \/ /\ ChainSearch(ip) = 0
        /\ dynamic_list # <<>>
        /\ AllocateStatic(ip)
        /\ BindStatic(Victim, ip, mac)
  /\ UNCHANGED retries

-----------------------------------------------------------------------------
(* The rest of the cache, modelled from the spec (section 4.1).            *)

\* Sending packet p to ip: an entry still resolving queues p (the oldest
\* waiting packet is released when NX_ARP_MAX_QUEUE_DEPTH is reached); on
\* a miss a dynamic entry is allocated at the head of the dynamic list,
\* the victim evicted, and p queued while the ARP request goes out.  A
\* resolved entry sends p at once and no state changes.
Resolve(ip, p) ==
  /\ p \in arena
  /\ \/ /\ ChainSearch(ip) > 0
        /\ LET e == arp_table[ArpHash(ip)][ChainSearch(ip)]
               q == packets_waiting[e]
           IN  /\ physical[e] = NoMac
               /\ IF Len(q) >= MaxQueue
                  THEN /\ packets_waiting' = [packets_waiting EXCEPT ![e] = Append(Tail(q), p)]
                       /\ arena' = (arena \ {p}) \cup {Head(q)}
                  ELSE /\ packets_waiting' = [packets_waiting EXCEPT ![e] = Append(q, p)]
                       /\ arena' = arena \ {p}
               /\ UNCHANGED <<dynamic_list, static_list, arp_table, ip_address,
                              physical, route_static, retries,
                              dynamic_active_count, static_entries>>
     \/ /\ ChainSearch(ip) = 0
        /\ dynamic_list # <<>>
        /\ LET v == Victim
           IN  /\ arp_table' = [TableWithout(v) EXCEPT ![ArpHash(ip)] = Append(@, v)]
               /\ dynamic_list' = <<v>> \o Front(dynamic_list)
               /\ dynamic_active_count' = ActiveCountWithout(v) + 1
               /\ ip_address' = [ip_address EXCEPT ![v] = ip]
               /\ physical' = [physical EXCEPT ![v] = NoMac]
               /\ packets_waiting' = [packets_waiting EXCEPT ![v] = <<p>>]
               /\ retries' = [retries EXCEPT ![v] = 0]
               /\ arena' = ArenaWith(v) \ {p}
               /\ UNCHANGED <<static_list, route_static, static_entries>>

\* An ARP reply for ip resolves its dynamic entry, which moves to the head
\* of the dynamic list, and the waiting packets are sent in order.  A
\* static entry is left as it is.
ArpReply(ip, mac) ==
  /\ ChainSearch(ip) > 0
  /\ LET e == arp_table[ArpHash(ip)][ChainSearch(ip)]
     IN  /\ ~route_static[e]
         /\ physical' = [physical EXCEPT ![e] = mac]
         /\ retries' = [retries EXCEPT ![e] = 0]
         /\ dynamic_list' = <<e>> \o Remove(dynamic_list, e)
         /\ packets_waiting' = [packets_waiting EXCEPT ![e] = <<>>]
         /\ arena' = ArenaWith(e)
  /\ UNCHANGED <<static_list, arp_table, ip_address, route_static,
                 dynamic_active_count, static_entries>>

\* Unlink an in-use dynamic entry from its chain and free it; its waiting
\* packets are released.  It stays on the dynamic list.
Purge(e) ==
  /\ arp_table' = TableWithout(e)
  /\ dynamic_active_count' = dynamic_active_count - 1
  /\ ip_address' = [ip_address EXCEPT ![e] = NoAddr]
  /\ physical' = [physical EXCEPT ![e] = NoMac]
  /\ packets_waiting' = [packets_waiting EXCEPT ![e] = <<>>]
  /\ retries' = [retries EXCEPT ![e] = 0]
  /\ arena' = ArenaWith(e)
  /\ UNCHANGED <<dynamic_list, static_list, route_static, static_entries>>

\* Periodic ARP update: an unresolved dynamic entry below the retry limit
\* sends another request.
ArpRetry(e) ==
  /\ InUse(e) /\ ~route_static[e] /\ physical[e] = NoMac
  /\ retries[e] < MaxRetries
  /\ retries' = [retries EXCEPT ![e] = @ + 1]
  /\ UNCHANGED <<dynamic_list, static_list, arp_table, ip_address, physical,
                 route_static, packets_waiting, dynamic_active_count,
                 static_entries, arena>>

\* Periodic ARP update: an unresolved entry at the retry limit is purged.
ArpGiveUp(e) ==
  /\ InUse(e) /\ ~route_static[e] /\ physical[e] = NoMac
  /\ retries[e] = MaxRetries
  /\ Purge(e)

\* ARP aging: a resolved dynamic entry expires.
ArpExpire(e) ==
  /\ InUse(e) /\ ~route_static[e] /\ physical[e] # NoMac
  /\ Purge(e)

Next ==
  \/ \E ip \in Addrs, mac \in Macs : StaticEntryCreate(ip, mac) \/ ArpReply(ip, mac)
  \/ \E ip \in Addrs, p \in Packets : Resolve(ip, p)
  \/ \E e \in Entries : ArpRetry(e) \/ ArpGiveUp(e) \/ ArpExpire(e)

\* The periodic ARP update is driven by the IP periodic timer: it keeps
\* running as long as it has work.
Fairness == \A e \in Entries : WF_vars(ArpRetry(e)) /\ WF_vars(ArpGiveUp(e))

Spec == Init /\ [][Next]_vars
FairSpec == Spec /\ Fairness

-----------------------------------------------------------------------------
(* Properties                                                              *)

InUseSet == {e \in Entries : InUse(e)}

\* The list structure that _nx_arp_static_entry_create and the allocator
\* splice by hand stays whole: every entry is on exactly one of the dynamic
\* and static lists, once; the static list holds exactly the static
\* entries, all in use; every bucket chain holds exactly the in-use entries
\* that hash to it, once; and the active and static counters agree with
\* the lists.
CacheConsistent ==
  /\ IsInjective(dynamic_list) /\ IsInjective(static_list)
  /\ ToSet(dynamic_list) \cap ToSet(static_list) = {}
  /\ ToSet(dynamic_list) \cup ToSet(static_list) = Entries
  /\ ToSet(static_list) = {e \in Entries : route_static[e]}
  /\ \A e \in ToSet(static_list) : InUse(e)
  /\ \A b \in Buckets :
       /\ IsInjective(arp_table[b])
       /\ ToSet(arp_table[b]) = {e \in InUseSet : ArpHash(ip_address[e]) = b}
  /\ dynamic_active_count = Cardinality(InUseSet \cap ToSet(dynamic_list))
  /\ static_entries = Len(static_list)

\* No two entries in use resolve the same IP address (spec section 3): the
\* chain search of static entry create must find an existing entry
\* wherever it sits on a chain shared with other addresses.
AddressUnique ==
  \A e1, e2 \in InUseSet : e1 # e2 => ip_address[e1] # ip_address[e2]

\* Every packet buffer is owned by exactly one place: the arena, or the
\* waiting queue of one entry, once.  Promotion, eviction, queue overflow
\* and purges hand packets back; none is lost or held twice.
PacketsConserved ==
  /\ \A e \in Entries : IsInjective(packets_waiting[e])
  /\ \A p \in Packets :
       Cardinality({e \in Entries : Contains(packets_waiting[e], p)})
         + (IF p \in arena THEN 1 ELSE 0) = 1

\* A static entry is pinned: no step (allocation for another address,
\* aging, retry give-up) ever evicts it or changes its address.
StaticPinned ==
  [][\A e \in Entries :
       route_static[e] => route_static'[e] /\ ip_address'[e] = ip_address[e]]_vars

\* A packet waiting for address resolution eventually leaves the cache:
\* sent after a reply or a static binding, or released when the entry is
\* given up or evicted.
WaitingPacketsLeave ==
  \A p \in Packets :
    (\E e \in Entries : Contains(packets_waiting[e], p)) ~> (p \in arena)

====
