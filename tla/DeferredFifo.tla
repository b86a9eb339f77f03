---------------------------- MODULE DeferredFifo ----------------------------
(***************************************************************************)
(* What a deferred receive queue of the IP instance promises: packets      *)
(* handed over by interrupt handlers are processed by the IP helper        *)
(* thread one at a time, in the order they were handed over, each exactly  *)
(* once, after which the buffer is free again.                             *)
(***************************************************************************)
EXTENDS Sequences

CONSTANTS Packets, None

VARIABLES fifo,     \* packets handed over and not yet taken, oldest first
          in_hand,  \* the packet being processed, or None
          free      \* buffers not in the queue

fvars == <<fifo, in_hand, free>>

FInit == fifo = <<>> /\ in_hand = None /\ free = Packets

\* An interrupt handler hands over a free buffer.
Put(p) ==
  /\ p \in free
  /\ fifo' = Append(fifo, p)
  /\ free' = free \ {p}
  /\ UNCHANGED in_hand

\* The helper takes the oldest packet.
Take ==
  /\ in_hand = None /\ fifo # <<>>
  /\ in_hand' = Head(fifo)
  /\ fifo' = Tail(fifo)
  /\ UNCHANGED free

\* The helper is done with the packet and its buffer is free.
Done ==
  /\ in_hand # None
  /\ free' = free \cup {in_hand}
  /\ in_hand' = None
  /\ UNCHANGED fifo

FNext == (\E p \in Packets : Put(p)) \/ Take \/ Done

FSpec == FInit /\ [][FNext]_fvars

====
