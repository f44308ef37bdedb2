---------------------------- MODULE CircularBuffer ----------------------------
(***************************************************************************)
(* The circular buffer behind the stock of fresh state buffers             *)
(* (envs/envpool/core/circular_buffer.h): Put waits for room, takes the    *)
(* next position, fills its slot and signals; Get waits for a value, takes *)
(* the next position, moves the value out of its slot and signals.         *)
(*                                                                         *)
(* One action per atomic step.  The putters are the background threads of  *)
(* StateBufferQueue, max(1, processors / 64) of them; the getter is the    *)
(* thread that receives batches.  CircularBufferState declares what they   *)
(* share, and the order Get keeps.                                         *)
(***************************************************************************)
EXTENDS CircularBufferState, Integers, FiniteSets

ASSUME SizeAssumption == Size \in Nat \ {0} /\ MaxPuts \in Nat

ASSUME ThreadsAssumption ==
  /\ IsFiniteSet(Putters)
  /\ IsFiniteSet(Getters)
  /\ Putters \cap Getters = {}

ASSUME ValuesAssumption == Empty \notin Values

vars == <<sem_get, sem_put, buffer, head, tail, at, arg, place, got, placed>>

Threads   == Putters \cup Getters
Offset(p) == p % Size

Inside(S) == {t \in S : at[t] # "wait"}

Goto(t, from, to) ==
  /\ at[t] = from
  /\ at' = [at EXCEPT ![t] = to]

Init ==
  /\ sem_get = 0
  /\ sem_put = Size
  /\ buffer = [i \in 0 .. Size - 1 |-> Empty]
  /\ head = 0
  /\ tail = 0
  /\ at = [t \in Threads |-> "wait"]
  /\ arg = [t \in Putters |-> Empty]
  /\ place = [t \in Threads |-> 0]
  /\ got = [t \in Getters |-> Empty]
  /\ placed = <<>>

-----------------------------------------------------------------------------
(* Put *)

WaitPut(t, v) ==
  /\ Goto(t, "wait", "claim")
  /\ tail + Cardinality({p \in Putters : at[p] = "claim"}) < MaxPuts
  /\ sem_put > 0
  /\ sem_put' = sem_put - 1
  /\ arg' = [arg EXCEPT ![t] = v]
  /\ UNCHANGED <<sem_get, buffer, head, tail, place, got, placed>>

ClaimTail(t) ==
  /\ Goto(t, "claim", "move")
  /\ place' = [place EXCEPT ![t] = tail]
  /\ tail' = tail + 1
  /\ placed' = Append(placed, arg[t])
  /\ UNCHANGED <<sem_get, sem_put, buffer, head, arg, got>>

\* Mutant: a value is put in the slot after its own.
MoveInNext(t) ==
  /\ Goto(t, "move", "signal")
  /\ buffer' = [buffer EXCEPT ![Offset(place[t] + 1)] = arg[t]]
  /\ UNCHANGED <<sem_get, sem_put, head, tail, arg, place, got, placed>>

MoveIn(t) ==
  /\ Goto(t, "move", "signal")
  /\ buffer' = [buffer EXCEPT ![Offset(place[t])] = arg[t]]
  /\ UNCHANGED <<sem_get, sem_put, head, tail, arg, place, got, placed>>

SignalGet(t) ==
  /\ Goto(t, "signal", "wait")
  /\ sem_get' = sem_get + 1
  /\ arg' = [arg EXCEPT ![t] = Empty]
  /\ UNCHANGED <<sem_put, buffer, head, tail, place, got, placed>>

-----------------------------------------------------------------------------
(* Get *)

WaitGet(t) ==
  /\ Goto(t, "wait", "claim")
  /\ sem_get > 0
  /\ sem_get' = sem_get - 1
  /\ UNCHANGED <<sem_put, buffer, head, tail, arg, place, got, placed>>

ClaimHead(t) ==
  /\ Goto(t, "claim", "move")
  /\ place' = [place EXCEPT ![t] = head]
  /\ head' = head + 1
  /\ UNCHANGED <<sem_get, sem_put, buffer, tail, arg, got, placed>>

MoveOut(t) ==
  /\ Goto(t, "move", "signal")
  /\ got' = [got EXCEPT ![t] = buffer[Offset(place[t])]]
  /\ buffer' = [buffer EXCEPT ![Offset(place[t])] = Empty]
  /\ UNCHANGED <<sem_get, sem_put, head, tail, arg, place, placed>>

SignalPut(t) ==
  /\ Goto(t, "signal", "wait")
  /\ sem_put' = sem_put + 1
  /\ got' = [got EXCEPT ![t] = Empty]
  /\ UNCHANGED <<sem_get, buffer, head, tail, arg, place, placed>>

-----------------------------------------------------------------------------

Put(t) ==
  \/ \E v \in Values : WaitPut(t, v)
  \/ ClaimTail(t)
  \/ MoveIn(t)
  \/ SignalGet(t)

Get(t) ==
  \/ WaitGet(t)
  \/ ClaimHead(t)
  \/ MoveOut(t)
  \/ SignalPut(t)

Next ==
  \/ \E t \in Putters : Put(t)
  \/ \E t \in Getters : Get(t)

Spec == Init /\ [][Next]_vars

-----------------------------------------------------------------------------

Steps == {"wait", "claim", "move", "signal"}

(* Each variable keeps its type.                                           *)
TypeOK ==
  /\ sem_get \in Nat
  /\ sem_put \in Nat
  /\ buffer \in [0 .. Size - 1 -> Values \cup {Empty}]
  /\ head \in Nat
  /\ tail \in Nat
  /\ at \in [Threads -> Steps]
  /\ arg \in [Putters -> Values \cup {Empty}]
  /\ place \in [Threads -> Nat]
  /\ got \in [Getters -> Values \cup {Empty}]
  /\ placed \in Seq(Values)

(* Between them the two semaphores and the threads inside a call account   *)
(* for every slot: none is lost, so nobody waits for ever for one.         *)
SlotAccounting ==
  sem_get + sem_put + Cardinality(Inside(Threads)) = Size

(* A putter finds its slot empty: nothing is overwritten that has not been *)
(* taken, although the two positions are never compared.                   *)
SlotFree == \A t \in Putters : at[t] = "move" => buffer[Offset(place[t])] = Empty

=============================================================================
