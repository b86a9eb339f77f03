---------------------------- MODULE PingService ----------------------------
(***************************************************************************)
(* What the ICMP echo (ping) service promises to the threads that ping.    *)
(*                                                                         *)
(* A pinging thread waits with a sequence number.  Each waiting thread     *)
(* leaves the wait exactly once: answered by a reply carrying its         *)
(* sequence number, timed out, or abandoned because the thread was        *)
(* terminated.  A reply with sequence number s is given to the waiter     *)
(* with number s that started waiting first (first match in FIFO order);  *)
(* the others stay waiting.                                                *)
(***************************************************************************)
EXTENDS Naturals, Sequences, SequencesExt

CONSTANTS Threads,   \* application threads that may call ping
          Seqs       \* sequence numbers carried by echo requests/replies

VARIABLES queue,     \* waiting threads, in the order they started waiting
          wseq,      \* sequence number each thread waits (or last waited) for
          outcome,   \* "none" while waiting, then "success" or "no_response"
          dead       \* threads that were terminated

avars == <<queue, wseq, outcome, dead>>

Outcomes == {"none", "success", "no_response"}

ATypeOK ==
  /\ queue \in Seq(Threads)
  /\ wseq \in [Threads -> Seqs]
  /\ outcome \in [Threads -> Outcomes]
  /\ dead \in [Threads -> BOOLEAN]

AInit ==
  /\ queue = <<>>
  /\ wseq \in [Threads -> Seqs]
  /\ outcome = [t \in Threads |-> "none"]
  /\ dead = [t \in Threads |-> FALSE]

\* Thread t starts waiting for the reply with number s.
Request(t, s) ==
  /\ ~dead[t]
  /\ ~Contains(queue, t)
  /\ queue' = Append(queue, t)
  /\ wseq' = [wseq EXCEPT ![t] = s]
  /\ outcome' = [outcome EXCEPT ![t] = "none"]
  /\ UNCHANGED dead

\* Position of the oldest waiter for number s (0 if none).
FirstWaiter(s) == SelectInSeq(queue, LAMBDA t : wseq[t] = s)

\* A reply with number s answers the oldest waiter for s.
Answer(s) ==
  /\ FirstWaiter(s) > 0
  /\ LET t == queue[FirstWaiter(s)]
     IN  /\ queue' = RemoveAt(queue, FirstWaiter(s))
         /\ outcome' = [outcome EXCEPT ![t] = "success"]
  /\ UNCHANGED <<wseq, dead>>

\* The wait of thread t times out.
Expire(t) ==
  /\ Contains(queue, t)
  /\ queue' = Remove(queue, t)
  /\ outcome' = [outcome EXCEPT ![t] = "no_response"]
  /\ UNCHANGED <<wseq, dead>>

\* Thread t is terminated while it waits.
Abandon(t) ==
  /\ Contains(queue, t)
  /\ queue' = Remove(queue, t)
  /\ dead' = [dead EXCEPT ![t] = TRUE]
  /\ UNCHANGED <<wseq, outcome>>

\* A terminated thread is started again.
Revive(t) ==
  /\ dead[t]
  /\ dead' = [dead EXCEPT ![t] = FALSE]
  /\ UNCHANGED <<queue, wseq, outcome>>

ANext ==
  \/ \E t \in Threads, s \in Seqs : Request(t, s)
  \/ \E s \in Seqs : Answer(s)
  \/ \E t \in Threads : Expire(t) \/ Abandon(t) \/ Revive(t)

ASpec == AInit /\ [][ANext]_avars

=============================================================================
