------------------------------ MODULE IpHelper ------------------------------
(***************************************************************************)
(* The IP helper thread and the interrupt-level producers that wake it.   *)
(*                                                                         *)
(* Interrupt handlers never take the IP mutex; they hand work to the       *)
(* helper by setting bits of nx_ip_events:                                 *)
(*   - _nx_ip_periodic_timer_entry (the periodic timer) sets               *)
(*     NX_IP_PERIODIC_EVENT;                                               *)
(*   - _nx_ip_driver_deferred_processing (a driver ISR) sets               *)
(*     NX_IP_DRIVER_DEFERRED_EVENT;                                        *)
(*   - the RARP deferred receive (a driver ISR) links a packet at the tail *)
(*     of nx_ip_rarp_deferred_received_packet_head/_tail under TX_DISABLE  *)
(*     and sets NX_IP_RARP_REC_EVENT.                                      *)
(* The helper waits for any bit, takes and clears them all, serves the    *)
(* driver and the periodic work, and for a RARP event runs                 *)
(* _nx_rarp_queue_process, which pops packets one at a time under          *)
(* TX_DISABLE and processes each with interrupts enabled, while further   *)
(* packets may be appended by the ISR.                                     *)
(*                                                                         *)
(* The two event producers and _nx_rarp_queue_process are translated from *)
(* the source; the helper's wait-and-dispatch loop (_nx_ip_thread_entry)   *)
(* and the RARP enqueue are modelled from the spec (section 4.4).          *)
(***************************************************************************)
EXTENDS Naturals, Sequences, FiniteSets

CONSTANTS Packets,   \* packet buffers a driver may hand to RARP
          NULL       \* NX_NULL

Events == {"PERIODIC", "DRIVER_DEFERRED", "RARP_REC"}

VARIABLES
  events,          \* nx_ip_events: bits set and not yet taken
  rarp_head,       \* nx_ip_rarp_deferred_received_packet_head
  rarp_tail,       \* nx_ip_rarp_deferred_received_packet_tail
  queue_next,      \* packet -> nx_packet_queue_next
  arena,           \* buffers free in the packet pool
  driver_request,  \* the driver has deferred work not yet handed to it
  hpc,             \* helper: "wait", "dispatch", "check", "pop", "receive"
  taken,           \* helper local: the event bits it took
  h_packet         \* helper local packet_ptr of _nx_rarp_queue_process

vars == <<events, rarp_head, rarp_tail, queue_next, arena, driver_request,
          hpc, taken, h_packet>>

TypeOK ==
  /\ events \subseteq Events
  /\ rarp_head \in Packets \cup {NULL}
  /\ rarp_tail \in Packets \cup {NULL}
  /\ queue_next \in [Packets -> Packets \cup {NULL}]
  /\ arena \subseteq Packets
  /\ driver_request \in BOOLEAN
  /\ hpc \in {"wait", "dispatch", "check", "pop", "receive"}
  /\ taken \subseteq Events
  /\ h_packet \in Packets \cup {NULL}

Init ==
  /\ events = {}
  /\ rarp_head = NULL
  /\ rarp_tail = NULL
  /\ queue_next = [p \in Packets |-> NULL]
  /\ arena = Packets
  /\ driver_request = FALSE
  /\ hpc = "wait"
  /\ taken = {}
  /\ h_packet = NULL

-----------------------------------------------------------------------------
(* Interrupt level                                                         *)

\* _nx_ip_periodic_timer_entry: tx_event_flags_set(PERIODIC, TX_OR).  A
\* bit already set stays set (no state change), so only the setting tick
\* is a step.
PeriodicTimerEntry ==
  /\ "PERIODIC" \notin events
  /\ events' = events \cup {"PERIODIC"}
  /\ UNCHANGED <<rarp_head, rarp_tail, queue_next, arena, driver_request,
                 hpc, taken, h_packet>>

\* Mutant: the driver's request wakes the helper with the periodic bit.
DriverDeferredProcessingWrongBit ==
  /\ driver_request' = TRUE
  /\ events' = events \cup {"PERIODIC"}
  /\ UNCHANGED <<rarp_head, rarp_tail, queue_next, arena, hpc, taken,
                 h_packet>>

\* A driver ISR asks for deferred processing and calls
\* _nx_ip_driver_deferred_processing: tx_event_flags_set(DRIVER_DEFERRED).
DriverDeferredProcessing ==
  /\ driver_request' = TRUE
  /\ events' = events \cup {"DRIVER_DEFERRED"}
  /\ UNCHANGED <<rarp_head, rarp_tail, queue_next, arena, hpc, taken,
                 h_packet>>

\* _nx_rarp_packet_deferred_receive: under TX_DISABLE link p at the tail
\* (or make it the only packet) and set NX_IP_RARP_REC_EVENT.
RarpDeferredReceive(p) ==
  /\ p \in arena
  /\ IF rarp_head # NULL
     THEN /\ queue_next' = [queue_next EXCEPT ![rarp_tail] = p, ![p] = NULL]
          /\ UNCHANGED rarp_head
     ELSE /\ queue_next' = [queue_next EXCEPT ![p] = NULL]
          /\ rarp_head' = p
  /\ rarp_tail' = p
  /\ arena' = arena \ {p}
  /\ events' = events \cup {"RARP_REC"}
  /\ UNCHANGED <<driver_request, hpc, taken, h_packet>>

-----------------------------------------------------------------------------
(* The helper thread (_nx_ip_thread_entry, modelled from the spec)         *)

\* tx_event_flags_get(..., TX_OR_CLEAR, TX_WAIT_FOREVER): take every bit.
HelperWake ==
  /\ hpc = "wait" /\ events # {}
  /\ taken' = events
  /\ events' = {}
  /\ hpc' = "dispatch"
  /\ UNCHANGED <<rarp_head, rarp_tail, queue_next, arena, driver_request,
                 h_packet>>

\* Serve the driver (NX_LINK_DEFERRED_PROCESSING) and the periodic work,
\* then run the RARP queue if its bit was taken.
HelperDispatch ==
  /\ hpc = "dispatch"
  /\ driver_request' = IF "DRIVER_DEFERRED" \in taken THEN FALSE ELSE driver_request
  /\ hpc' = IF "RARP_REC" \in taken THEN "check" ELSE "wait"
  /\ taken' = {}
  /\ UNCHANGED <<events, rarp_head, rarp_tail, queue_next, arena, h_packet>>

-----------------------------------------------------------------------------
(* _nx_rarp_queue_process                                                  *)

\* The loop test while (head): read without interrupt lockout.
RarpCheck ==
  /\ hpc = "check"
  /\ hpc' = IF rarp_head # NULL THEN "pop" ELSE "wait"
  /\ UNCHANGED <<events, rarp_head, rarp_tail, queue_next, arena,
                 driver_request, taken, h_packet>>

\* Mutant: the tail pointer is not cleared when the queue empties.
RarpPopNoTailReset ==
  /\ hpc = "pop"
  /\ h_packet' = rarp_head
  /\ rarp_head' = queue_next[rarp_head]
  /\ hpc' = "receive"
  /\ UNCHANGED <<events, rarp_tail, queue_next, arena, driver_request, taken>>

\* Mutant: the packet taken is the one after the head.
RarpPopTakesNext ==
  /\ hpc = "pop"
  /\ h_packet' = queue_next[rarp_head]
  /\ rarp_head' = queue_next[rarp_head]
  /\ rarp_tail' = IF queue_next[rarp_head] = NULL THEN NULL ELSE rarp_tail
  /\ hpc' = "receive"
  /\ UNCHANGED <<events, queue_next, arena, driver_request, taken>>

\* Mutant: the head only moves on while a next packet exists.
RarpPopKeepsLast ==
  /\ hpc = "pop"
  /\ h_packet' = rarp_head
  /\ IF queue_next[rarp_head] = NULL
     THEN rarp_tail' = NULL /\ UNCHANGED rarp_head
     ELSE rarp_head' = queue_next[rarp_head] /\ UNCHANGED rarp_tail
  /\ hpc' = "receive"
  /\ UNCHANGED <<events, queue_next, arena, driver_request, taken>>

\* Under TX_DISABLE: take the head packet, move the head on, and clear the
\* tail if the queue is now empty.
RarpPop ==
  /\ hpc = "pop"
  /\ h_packet' = rarp_head
  /\ rarp_head' = queue_next[rarp_head]
  /\ rarp_tail' = IF queue_next[rarp_head] = NULL THEN NULL ELSE rarp_tail
  /\ hpc' = "receive"
  /\ UNCHANGED <<events, queue_next, arena, driver_request, taken>>

\* Mutant: the loop is an if, not a while: one packet per event.
RarpReceiveOnce ==
  /\ hpc = "receive"
  /\ arena' = arena \cup {h_packet}
  /\ h_packet' = NULL
  /\ hpc' = "wait"
  /\ UNCHANGED <<events, rarp_head, rarp_tail, queue_next, driver_request,
                 taken>>

\* _nx_rarp_packet_receive(ip_ptr, packet_ptr) with interrupts enabled;
\* it consumes the packet and the buffer returns to the pool.  Then the
\* loop test again.
RarpReceive ==
  /\ hpc = "receive"
  /\ arena' = arena \cup {h_packet}
  /\ h_packet' = NULL
  /\ hpc' = "check"
  /\ UNCHANGED <<events, rarp_head, rarp_tail, queue_next, driver_request,
                 taken>>

HelperStep == HelperWake \/ HelperDispatch \/ RarpCheck \/ RarpPop \/ RarpReceive

Next ==
  \/ PeriodicTimerEntry
  \/ DriverDeferredProcessing
  \/ \E p \in Packets : RarpDeferredReceive(p)
  \/ HelperStep

\* The helper is the thread the stack's work waits for; once it has work
\* (a bit set, or a packet in hand) it is scheduled.  Interrupts are not
\* assumed to happen.
Spec == Init /\ [][Next]_vars /\ WF_vars(HelperStep)

-----------------------------------------------------------------------------
(* Properties                                                              *)

\* The packets reachable from the head, in order (at most |Packets| hops).
RECURSIVE Chain(_, _)
Chain(p, n) == IF p = NULL \/ n = 0 THEN <<>> ELSE <<p>> \o Chain(queue_next[p], n - 1)

Queued == Chain(rarp_head, Cardinality(Packets))

\* The RARP queue the ISR appends to and the helper pops from stays a
\* well-formed singly linked FIFO: empty exactly when head and tail are
\* both NULL, otherwise the chain from the head is acyclic and ends at the
\* tail.
RarpQueueWellFormed ==
  /\ (rarp_head = NULL) <=> (rarp_tail = NULL)
  /\ rarp_head # NULL =>
       /\ Len(Queued) = Cardinality({Queued[i] : i \in 1..Len(Queued)})
       /\ Queued[Len(Queued)] = rarp_tail
       /\ queue_next[rarp_tail] = NULL

\* The queue implements the deferred FIFO: every packet an ISR hands over
\* is processed once, in hand-over order, and its buffer freed.
Fifo == INSTANCE DeferredFifo WITH
  fifo <- Queued,
  in_hand <- IF hpc = "receive" THEN h_packet ELSE NULL,
  free <- arena,
  None <- NULL

RarpFifoRefined == Fifo!FSpec

\* A packet handed to the RARP queue is eventually processed, however the
\* ISR's appends interleave with the helper's wake-up and drain.
RarpPacketsProcessed ==
  \A p \in Packets : (p \notin arena) ~> (p \in arena)

\* Deferred processing requested by a driver ISR is eventually handed to
\* the driver by the helper, provided the helper keeps getting back to its
\* event wait.  (It need not: while an ISR keeps feeding the RARP queue,
\* the while loop of _nx_rarp_queue_process never ends and the driver's
\* request waits as long.)
DriverRequestServed ==
  []<>(hpc = "wait") => (driver_request ~> ~driver_request)

====
