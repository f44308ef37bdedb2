-------------------------- MODULE CircularBufferState --------------------------
(***************************************************************************)
(* The state of a circular buffer (envs/envpool/core/circular_buffer.h)    *)
(* and of the threads that use it, with the order in which Get returns     *)
(* what was put.  Its steps are those of CircularBuffer.                   *)
(***************************************************************************)
EXTENDS Naturals, Sequences

CONSTANTS
  Putters,  \* threads that call Put
  Getters,  \* threads that call Get
  Size,     \* size_
  Values,   \* what is put, told apart only by identity
  Empty,    \* the content of a slot never filled, or moved from
  MaxPuts   \* bound: the number of calls of Put in one behaviour

VARIABLES
  sem_get,  \* values signalled and not yet claimed
  sem_put,  \* free slots signalled and not yet claimed
  buffer,   \* the slots
  head,     \* positions handed to getters
  tail,     \* positions handed to putters
  at,       \* the step each thread is about to execute
  arg,      \* each putter's v
  place,    \* each thread's local tail or head
  got,      \* each getter's v
  placed    \* the values put, by position: a record of the past

(* Get returns the values in the order of their positions, never a slot    *)
(* that is still empty (circular_buffer_test.cc, EXPECT_EQ(r, n)).         *)
GetsInOrder ==
  \A t \in Getters : at[t] = "signal" => got[t] = placed[place[t] + 1]

===============================================================================
