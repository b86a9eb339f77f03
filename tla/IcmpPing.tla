------------------------------ MODULE IcmpPing ------------------------------
(***************************************************************************)
(* The ICMP ping suspension list of one IP instance.                       *)
(*                                                                         *)
(* Threads that ping are parked on a circular doubly-linked list           *)
(* (nx_ip_icmp_ping_suspension_list, nx_ip_icmp_ping_suspended_count),     *)
(* each tagged with its sequence number (tx_thread_suspend_info).  Two     *)
(* code paths take a thread off that list:                                 *)
(*   - _nx_icmpv6_process_echo_reply, run by the IP helper thread, which   *)
(*     snapshots head and count, scans the list with interrupts enabled    *)
(*     and preemption disabled, and on a match unlinks the thread,         *)
(*     hands it the reply packet and resumes it;                           *)
(*   - _nx_icmp_cleanup, the kernel suspension-cleanup hook run on a       *)
(*     timeout (or terminate), which unlinks the thread under              *)
(*     interrupt-disable and resumes it with NX_NO_RESPONSE.               *)
(* Which of them can interleave depends on where the kernel processes     *)
(* thread timeouts: in the system timer thread (which cannot run while    *)
(* the helper has preemption disabled) or directly in the timer ISR       *)
(* (TimerInISR), which may run between any two steps of the helper.        *)
(***************************************************************************)
EXTENDS Naturals, Sequences, SequencesExt, FiniteSets

CONSTANTS Threads,     \* application threads that call ping
          Seqs,        \* sequence numbers (the USHORT sequence_num)
          NULL,        \* TX_NULL / NX_NULL
          NoPacket,    \* nothing written to the thread's packet slot
          TimerInISR,  \* TRUE: thread timeouts run in the timer ISR
          UlongMod     \* 2^w: the ULONG counters wrap modulo this value

ASSUME TimerInISR \in BOOLEAN /\ UlongMod \in Nat \ {0}

VARIABLES
  suspension_list,     \* ip_ptr -> nx_ip_icmp_ping_suspension_list
  suspended_count,     \* ip_ptr -> nx_ip_icmp_ping_suspended_count
  suspended_next,      \* thread -> tx_thread_suspended_next
  suspended_previous,  \* thread -> tx_thread_suspended_previous
  suspend_cleanup,     \* thread -> tx_thread_suspend_cleanup # TX_NULL
  thread_state,        \* "ready", "suspended" (TX_TCP_IP) or "terminated"
  suspend_info,        \* thread -> tx_thread_suspend_info (sequence number)
  suspend_status,      \* thread -> tx_thread_suspend_status
  packet_slot,         \* *(thread -> tx_thread_additional_suspend_info)
  pc,                  \* "idle" or "ping": the thread is inside ping
  network,             \* sequence numbers of echo replies in flight
  hpc,                 \* helper thread: "idle", "scan", "unlink", "resume", "fault"
  h_thread,            \* helper local thread_ptr
  h_suspended,         \* helper local suspended (snapshot of the count)
  h_seq                \* helper local sequence_num of the reply

vars == <<suspension_list, suspended_count, suspended_next, suspended_previous,
          suspend_cleanup, thread_state, suspend_info, suspend_status,
          packet_slot, pc, network, hpc, h_thread, h_suspended, h_seq>>

Statuses == {"none", "success", "no_response"}

TypeOK ==
  /\ suspension_list \in Threads \cup {NULL}
  /\ suspended_count \in 0..Cardinality(Threads)
  /\ suspended_next \in [Threads -> Threads]
  /\ suspended_previous \in [Threads -> Threads]
  /\ suspend_cleanup \in [Threads -> BOOLEAN]
  /\ thread_state \in [Threads -> {"ready", "suspended", "terminated"}]
  /\ suspend_info \in [Threads -> Seqs]
  /\ suspend_status \in [Threads -> Statuses]
  /\ packet_slot \in [Threads -> Seqs \cup {NoPacket}]
  /\ pc \in [Threads -> {"idle", "ping"}]
  /\ network \subseteq Seqs
  /\ hpc \in {"idle", "scan", "unlink", "resume", "fault"}
  /\ h_thread \in Threads \cup {NULL}
  /\ h_suspended \in 0..(UlongMod - 1)
  /\ h_seq \in Seqs

\* ULONG decrement, wrapping at zero.
Dec(n) == (n + UlongMod - 1) % UlongMod

\* Application threads (and the timer thread) can run only while the helper
\* has not disabled preemption; the timer ISR can run between any two steps.
ThreadsMayRun == hpc = "idle"
TimeoutMayRun == TimerInISR \/ ThreadsMayRun

Init ==
  /\ suspension_list = NULL
  /\ suspended_count = 0
  /\ suspended_next = [t \in Threads |-> t]
  /\ suspended_previous = [t \in Threads |-> t]
  /\ suspend_cleanup = [t \in Threads |-> FALSE]
  /\ thread_state = [t \in Threads |-> "ready"]
  /\ suspend_info = [t \in Threads |-> CHOOSE s \in Seqs : TRUE]
  /\ suspend_status = [t \in Threads |-> "none"]
  /\ packet_slot = [t \in Threads |-> NoPacket]
  /\ pc = [t \in Threads |-> "idle"]
  /\ network = {}
  /\ hpc = "idle"
  /\ h_thread = NULL
  /\ h_suspended = 0
  /\ h_seq = CHOOSE s \in Seqs : TRUE

-----------------------------------------------------------------------------
\* Mutant: removing the head entry leaves the head pointer on it.
UnlinkKeepingHead(t) ==
  IF suspended_next[t] = t
  THEN /\ suspension_list' = NULL
       /\ UNCHANGED <<suspended_next, suspended_previous>>
  ELSE /\ UNCHANGED suspension_list
       /\ suspended_previous' = [suspended_previous EXCEPT
                                   ![suspended_next[t]] = suspended_previous[t]]
       /\ suspended_next' = [suspended_next EXCEPT
                               ![suspended_previous[t]] = suspended_next[t]]

(* The list splice shared by both removal paths: the sole entry empties   *)
(* the list; otherwise the head moves on if it was t and the neighbours   *)
(* are linked to each other.  t's own links are left as they were.        *)
UnlinkFromSuspensionList(t) ==
  IF suspended_next[t] = t
  THEN /\ suspension_list' = NULL
       /\ UNCHANGED <<suspended_next, suspended_previous>>
  ELSE /\ suspension_list' = IF suspension_list = t THEN suspended_next[t]
                                                    ELSE suspension_list
       /\ suspended_previous' = [suspended_previous EXCEPT
                                   ![suspended_next[t]] = suspended_previous[t]]
       /\ suspended_next' = [suspended_next EXCEPT
                               ![suspended_previous[t]] = suspended_next[t]]

\* ThreadX resume: only a suspended thread becomes ready.
Resumed(t) ==
  [thread_state EXCEPT ![t] = IF @ = "suspended" THEN "ready" ELSE @]

(* Thread t pings with sequence number s: the echo request goes out (or  *)
(* is lost), and the thread is appended to the tail of the suspension    *)
(* list, tagged with s, and suspends with the cleanup hook installed.    *)
PingSend(t, s) ==
  /\ ThreadsMayRun
  /\ pc[t] = "idle"
  /\ thread_state[t] = "ready"
  /\ IF suspension_list = NULL
     THEN /\ suspension_list' = t
          /\ suspended_next' = [suspended_next EXCEPT ![t] = t]
          /\ suspended_previous' = [suspended_previous EXCEPT ![t] = t]
     ELSE LET first == suspension_list
              last  == suspended_previous[first]
          IN  /\ suspended_next' = [suspended_next EXCEPT ![t] = first, ![last] = t]
              /\ suspended_previous' = [suspended_previous EXCEPT ![t] = last, ![first] = t]
              /\ UNCHANGED suspension_list
  /\ suspended_count' = (suspended_count + 1) % UlongMod
  /\ suspend_cleanup' = [suspend_cleanup EXCEPT ![t] = TRUE]
  /\ suspend_info' = [suspend_info EXCEPT ![t] = s]
  /\ suspend_status' = [suspend_status EXCEPT ![t] = "none"]
  /\ packet_slot' = [packet_slot EXCEPT ![t] = NoPacket]
  /\ thread_state' = [thread_state EXCEPT ![t] = "suspended"]
  /\ pc' = [pc EXCEPT ![t] = "ping"]
  /\ network' \in {network, network \cup {s}}
  /\ UNCHANGED <<hpc, h_thread, h_suspended, h_seq>>

\* The resumed pinging thread returns from ping with its status.
PingReturn(t) ==
  /\ ThreadsMayRun
  /\ pc[t] = "ping"
  /\ thread_state[t] = "ready"
  /\ pc' = [pc EXCEPT ![t] = "idle"]
  /\ UNCHANGED <<suspension_list, suspended_count, suspended_next,
                 suspended_previous, suspend_cleanup, thread_state, suspend_info,
                 suspend_status, packet_slot, network, hpc, h_thread,
                 h_suspended, h_seq>>

\* Mutant: the cleanup does not decrement the suspended count.
TimeoutNoDecrement(t) ==
  /\ TimeoutMayRun
  /\ thread_state[t] = "suspended"
  /\ suspend_cleanup[t]
  /\ suspend_cleanup' = [suspend_cleanup EXCEPT ![t] = FALSE]
  /\ UnlinkFromSuspensionList(t)
  /\ UNCHANGED suspended_count
  /\ suspend_status' = [suspend_status EXCEPT ![t] = "no_response"]
  /\ thread_state' = Resumed(t)
  /\ UNCHANGED <<suspend_info, packet_slot, pc, network, hpc, h_thread,
                 h_suspended, h_seq>>

\* Mutant: the cleanup resumes the thread but leaves it linked on the list.
TimeoutNoUnlink(t) ==
  /\ TimeoutMayRun
  /\ thread_state[t] = "suspended"
  /\ suspend_cleanup[t]
  /\ suspend_cleanup' = [suspend_cleanup EXCEPT ![t] = FALSE]
  /\ suspended_count' = Dec(suspended_count)
  /\ suspend_status' = [suspend_status EXCEPT ![t] = "no_response"]
  /\ thread_state' = Resumed(t)
  /\ UNCHANGED <<suspension_list, suspended_next, suspended_previous,
                 suspend_info, packet_slot, pc, network, hpc, h_thread,
                 h_suspended, h_seq>>

\* Mutant: the cleanup sets NX_NO_RESPONSE but never resumes the thread.
TimeoutNoResume(t) ==
  /\ TimeoutMayRun
  /\ thread_state[t] = "suspended"
  /\ suspend_cleanup[t]
  /\ suspend_cleanup' = [suspend_cleanup EXCEPT ![t] = FALSE]
  /\ UnlinkFromSuspensionList(t)
  /\ suspended_count' = Dec(suspended_count)
  /\ suspend_status' = [suspend_status EXCEPT ![t] = "no_response"]
  /\ UNCHANGED <<thread_state, suspend_info, packet_slot, pc, network, hpc,
                 h_thread, h_suspended, h_seq>>

(* _nx_icmp_cleanup after a timeout of thread t: if the cleanup is still *)
(* installed, clear it, unlink t, decrement the count and, since t is    *)
(* still suspended on ping, resume it with NX_NO_RESPONSE.               *)
Timeout(t) ==
  /\ TimeoutMayRun
  /\ thread_state[t] = "suspended"
  /\ suspend_cleanup[t]
  /\ suspend_cleanup' = [suspend_cleanup EXCEPT ![t] = FALSE]
  /\ UnlinkFromSuspensionList(t)
  /\ suspended_count' = Dec(suspended_count)
  /\ suspend_status' = [suspend_status EXCEPT ![t] = "no_response"]
  /\ thread_state' = Resumed(t)
  /\ UNCHANGED <<suspend_info, packet_slot, pc, network, hpc, h_thread,
                 h_suspended, h_seq>>

(* Another thread terminates the suspended thread t: the kernel marks it *)
(* terminated and runs the cleanup hook, which unlinks it but does not   *)
(* resume it (its state is no longer TX_TCP_IP).                         *)
Terminate(t) ==
  /\ ThreadsMayRun
  /\ thread_state[t] = "suspended"
  /\ thread_state' = [thread_state EXCEPT ![t] = "terminated"]
  /\ IF suspend_cleanup[t]
     THEN /\ suspend_cleanup' = [suspend_cleanup EXCEPT ![t] = FALSE]
          /\ UnlinkFromSuspensionList(t)
          /\ suspended_count' = Dec(suspended_count)
     ELSE UNCHANGED <<suspend_cleanup, suspension_list, suspended_next,
                      suspended_previous, suspended_count>>
  /\ UNCHANGED <<suspend_info, suspend_status, packet_slot, pc, network, hpc,
                 h_thread, h_suspended, h_seq>>

\* A terminated thread is reset and started again (tx_thread_reset and
\* tx_thread_resume): it runs from its entry, outside ping.
Restart(t) ==
  /\ ThreadsMayRun
  /\ thread_state[t] = "terminated"
  /\ thread_state' = [thread_state EXCEPT ![t] = "ready"]
  /\ pc' = [pc EXCEPT ![t] = "idle"]
  /\ UNCHANGED <<suspension_list, suspended_count, suspended_next,
                 suspended_previous, suspend_cleanup, suspend_info,
                 suspend_status, packet_slot, network, hpc, h_thread,
                 h_suspended, h_seq>>

-----------------------------------------------------------------------------
(* _nx_icmpv6_process_echo_reply, split at the points where interrupts   *)
(* are enabled.                                                          *)

\* The reply with number s is invalid (too short, unspecified source, or
\* the interface address not yet valid) and is released.  A reply may be
\* delivered more than once (duplicated) or consumed.
ReplyDiscard(s) ==
  /\ hpc = "idle"
  /\ s \in network
  /\ network' \in {network, network \ {s}}
  /\ UNCHANGED <<suspension_list, suspended_count, suspended_next,
                 suspended_previous, suspend_cleanup, thread_state, suspend_info,
                 suspend_status, packet_slot, pc, hpc, h_thread, h_suspended,
                 h_seq>>

\* A valid reply: under interrupt-disable take the list head and the count,
\* disable preemption, then scan with interrupts enabled.
ReplyArrive(s) ==
  /\ hpc = "idle"
  /\ s \in network
  /\ network' \in {network, network \ {s}}
  /\ h_seq' = s
  /\ h_thread' = suspension_list
  /\ h_suspended' = suspended_count
  /\ hpc' = "scan"
  /\ UNCHANGED <<suspension_list, suspended_count, suspended_next,
                 suspended_previous, suspend_cleanup, thread_state, suspend_info,
                 suspend_status, packet_slot, pc>>

\* One iteration of while (suspended--): compare the sequence number of
\* thread_ptr, or move to its successor; when the snapshot count is used up
\* the packet is released and preemption re-enabled.
EchoScan ==
  /\ hpc = "scan"
  /\ IF h_suspended = 0
     THEN /\ hpc' = "idle"
          /\ UNCHANGED <<h_thread, h_suspended>>
     ELSE IF h_thread = NULL
     THEN /\ hpc' = "fault"
          /\ UNCHANGED <<h_thread, h_suspended>>
     ELSE /\ h_suspended' = Dec(h_suspended)
          /\ IF suspend_info[h_thread] = h_seq
             THEN /\ hpc' = "unlink"
                  /\ UNCHANGED h_thread
             ELSE /\ h_thread' = suspended_next[h_thread]
                  /\ UNCHANGED hpc
  /\ UNCHANGED <<suspension_list, suspended_count, suspended_next,
                 suspended_previous, suspend_cleanup, thread_state, suspend_info,
                 suspend_status, packet_slot, pc, network, h_seq>>

\* Mutant: the match unlinks the thread but does not decrement the count.
EchoMatchUnlinkNoDecrement ==
  /\ hpc = "unlink"
  /\ UnlinkFromSuspensionList(h_thread)
  /\ suspend_cleanup' = [suspend_cleanup EXCEPT ![h_thread] = FALSE]
  /\ hpc' = "resume"
  /\ UNCHANGED <<suspended_count, thread_state, suspend_info, suspend_status,
                 packet_slot, pc, network, h_thread, h_suspended, h_seq>>

\* The match: under interrupt-disable unlink thread_ptr, decrement the
\* count and clear its cleanup hook.  Nothing re-checks that the hook was
\* still installed.
EchoMatchUnlink ==
  /\ hpc = "unlink"
  /\ UnlinkFromSuspensionList(h_thread)
  /\ suspended_count' = Dec(suspended_count)
  /\ suspend_cleanup' = [suspend_cleanup EXCEPT ![h_thread] = FALSE]
  /\ hpc' = "resume"
  /\ UNCHANGED <<thread_state, suspend_info, suspend_status, packet_slot, pc,
                 network, h_thread, h_suspended, h_seq>>

\* Mutant: the resumed thread is given NX_NO_RESPONSE instead of NX_SUCCESS.
EchoResumeWrongStatus ==
  /\ hpc = "resume"
  /\ packet_slot' = [packet_slot EXCEPT ![h_thread] = h_seq]
  /\ suspend_status' = [suspend_status EXCEPT ![h_thread] = "no_response"]
  /\ thread_state' = Resumed(h_thread)
  /\ hpc' = "idle"
  /\ UNCHANGED <<suspension_list, suspended_count, suspended_next,
                 suspended_previous, suspend_cleanup, suspend_info, pc, network,
                 h_thread, h_suspended, h_seq>>

\* Hand the packet to the thread, set NX_SUCCESS, resume it, leave the
\* loop and re-enable preemption.
EchoResume ==
  /\ hpc = "resume"
  /\ packet_slot' = [packet_slot EXCEPT ![h_thread] = h_seq]
  /\ suspend_status' = [suspend_status EXCEPT ![h_thread] = "success"]
  /\ thread_state' = Resumed(h_thread)
  /\ hpc' = "idle"
  /\ UNCHANGED <<suspension_list, suspended_count, suspended_next,
                 suspended_previous, suspend_cleanup, suspend_info, pc, network,
                 h_thread, h_suspended, h_seq>>

Next ==
  \/ \E t \in Threads, s \in Seqs : PingSend(t, s)
  \/ \E t \in Threads : PingReturn(t) \/ Timeout(t) \/ Terminate(t) \/ Restart(t)
  \/ \E s \in Seqs : ReplyDiscard(s) \/ ReplyArrive(s)
  \/ EchoScan \/ EchoMatchUnlink \/ EchoResume

(* The helper thread finishes the reply it is processing (weak          *)
(* fairness).  A resumed thread and the kernel timer (for a ping with a  *)
(* finite wait) can run only while the helper is between replies; each  *)
(* preemption-disabled window ends, so they run eventually (strong       *)
(* fairness).  Replies, pings and terminations are not forced.           *)
Fairness ==
  /\ WF_vars(EchoScan \/ EchoMatchUnlink \/ EchoResume)
  /\ \A t \in Threads : SF_vars(PingReturn(t)) /\ SF_vars(Timeout(t))

Spec == Init /\ [][Next]_vars
FairSpec == Spec /\ Fairness

-----------------------------------------------------------------------------
(* The threads on the list, walking suspended_next count times from the  *)
(* head.                                                                  *)
RECURSIVE Walk(_, _)
Walk(h, n) ==
  IF n = 0 \/ h = NULL THEN <<>>
  ELSE <<h>> \o Walk(suspended_next[h], n - 1)

ListedThreads == Walk(suspension_list, suspended_count)

(* The suspension list and its count describe the same threads, the list *)
(* is circular with consistent back links, and it holds exactly the      *)
(* threads whose cleanup hook is still installed.  Violated by a         *)
(* double unlink of one thread (timeout cleanup racing the echo-reply    *)
(* match) or a lost decrement.                                           *)
SuspensionListConsistent ==
  LET L == ListedThreads
  IN  /\ (suspension_list = NULL) <=> (suspended_count = 0)
      /\ Len(L) = suspended_count
      /\ \A i, j \in 1..Len(L) : i # j => L[i] # L[j]
      /\ L # <<>> => suspended_next[L[Len(L)]] = suspension_list
      /\ \A i \in 1..Len(L) : suspended_previous[suspended_next[L[i]]] = L[i]
      /\ ToSet(L) = {t \in Threads : suspend_cleanup[t]}

(* Each ping ends with exactly one status: the status of a thread only   *)
(* leaves "none" once, and goes back to "none" only when that thread     *)
(* starts a new ping.  Violated if the echo-reply path overwrites the    *)
(* NX_NO_RESPONSE of a thread the timeout already resumed, or a reply is *)
(* handed to a thread that is no longer waiting.                         *)
OneOutcomePerPing ==
  [][\A t \in Threads :
       suspend_status'[t] # suspend_status[t] =>
          \/ suspend_status[t] = "none"
          \/ suspend_status'[t] = "none" /\ pc[t] = "idle" /\ pc'[t] = "ping"]_vars

(* Every ping call returns, unless its thread is terminated: a waiting   *)
(* thread is eventually resumed by a matching reply or by its timeout.   *)
PingCompletes ==
  \A t \in Threads : pc[t] = "ping" ~> (pc[t] = "idle" \/ thread_state[t] = "terminated")

(* Refinement: the linked list read from the head is the FIFO queue of   *)
(* the abstract ping service; a thread being resumed by the echo path    *)
(* has already been answered.                                            *)
Abstract == INSTANCE PingService WITH
  queue   <- ListedThreads,
  wseq    <- suspend_info,
  outcome <- [t \in Threads |-> IF hpc = "resume" /\ h_thread = t
                                THEN "success" ELSE suspend_status[t]],
  dead    <- [t \in Threads |-> thread_state[t] = "terminated"]

PingServiceRefined == Abstract!ASpec

=============================================================================
