------------------------------ MODULE ActionFifo ------------------------------
(***************************************************************************)
(* What the action buffer queue promises to the environment pool: a        *)
(* first-in first-out queue that takes a whole vector of slices in one     *)
(* step and hands every slice to exactly one consumer, in order.           *)
(***************************************************************************)
EXTENDS Naturals, Sequences

CONSTANTS
  Consumers,  \* the worker threads
  Slices,     \* the slices
  NoSlice,    \* stands for an empty hand
  BulkLengths,\* bound: the lengths of the vectors put in one step
  Capacity    \* the slices that may be queued at once

VARIABLES
  fifo,  \* the slices queued, oldest first
  hand   \* the slice each consumer has been given and is taking away

vars == <<fifo, hand>>

Bulks == UNION {[1 .. n -> Slices] : n \in BulkLengths}

Init ==
  /\ fifo = <<>>
  /\ hand = [c \in Consumers |-> NoSlice]

Put(b) ==
  /\ Len(fifo) + Len(b) <= Capacity
  /\ fifo' = fifo \o b
  /\ UNCHANGED hand

Take(c) ==
  /\ fifo # <<>>
  /\ hand[c] = NoSlice
  /\ hand' = [hand EXCEPT ![c] = Head(fifo)]
  /\ fifo' = Tail(fifo)

Leave(c) ==
  /\ hand[c] # NoSlice
  /\ hand' = [hand EXCEPT ![c] = NoSlice]
  /\ UNCHANGED fifo

Next ==
  \/ \E b \in Bulks : Put(b)
  \/ \E c \in Consumers : Take(c) \/ Leave(c)

Spec == Init /\ [][Next]_vars
=============================================================================
