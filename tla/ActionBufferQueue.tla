-------------------------- MODULE ActionBufferQueue --------------------------
(***************************************************************************)
(* The action buffer queue of the asynchronous environment pool            *)
(* (envs/envpool/core/action_buffer_queue.h): a ring of 2 * num_envs slots *)
(* shared by the threads that send actions (Producers) and the worker      *)
(* threads that execute them (Consumers), guarded by three semaphores.     *)
(*                                                                         *)
(* One action per atomic step of EnqueueBulk and Dequeue.  The code never  *)
(* tests whether the ring is full: that no slot is overwritten before it   *)
(* is read rests on how AsyncEnvPool calls the queue (at most num_envs     *)
(* actions are in flight), which CallEnqueueBulk states as its guard.      *)
(***************************************************************************)
EXTENDS Integers, Sequences, FiniteSets

CONSTANTS
  Producers,  \* threads that call EnqueueBulk
  Consumers,  \* threads that call Dequeue
  Slices,     \* the ActionSlice values, told apart only by identity
  NoSlice,    \* the content of a slot that was never written
  NumEnvs,    \* num_envs, the argument of the constructor
  BulkLengths,\* bound: the lengths of the vectors EnqueueBulk is given
  MaxAlloc    \* bound: the number of slices enqueued in one behaviour

ASSUME ThreadsAssumption ==
  /\ IsFiniteSet(Consumers)
  /\ Producers \cap Consumers = {}

ASSUME SizeAssumption ==
  /\ NumEnvs \in Nat \ {0}
  /\ BulkLengths \subseteq Nat
  /\ MaxAlloc \in Nat

ASSUME SliceAssumption == NoSlice \notin Slices

VARIABLES
  alloc_ptr,    \* slots handed to producers
  done_ptr,     \* slots handed to consumers
  queue,        \* the ring
  sem,          \* slices published and not yet claimed by a consumer
  sem_enqueue,  \* 1 when no producer is inside EnqueueBulk
  sem_dequeue,  \* 1 when no consumer is inside the critical section of Dequeue
  pc,           \* the step each thread is about to execute
  bulk,         \* the argument of each producer's EnqueueBulk
  pos,          \* its local pos
  written,      \* its loop counter i
  ptr,          \* each consumer's local ptr
  ret,          \* each consumer's local ret
  in_flight     \* slices of calls that have begun and not been dequeued

queueVars    == <<alloc_ptr, done_ptr, queue, sem, sem_enqueue, sem_dequeue>>
producerVars == <<bulk, pos, written>>
consumerVars == <<ptr, ret>>
vars == <<queueVars, pc, producerVars, consumerVars, in_flight>>

QueueSize == 2 * NumEnvs
Indices   == 0 .. QueueSize - 1
Slot(p)   == p % QueueSize

Bulks == UNION {[1 .. n -> Slices] : n \in BulkLengths}

ProducerSteps == {"idle", "lock", "alloc", "write", "publish", "unlock"}
ConsumerSteps == {"token", "lock", "claim", "read", "unlock"}

Goto(t, from, to) ==
  /\ pc[t] = from
  /\ pc' = [pc EXCEPT ![t] = to]

Init ==
  /\ alloc_ptr = 0
  /\ done_ptr = 0
  /\ queue = [i \in Indices |-> NoSlice]
  /\ sem = 0
  /\ sem_enqueue = 1
  /\ sem_dequeue = 1
  /\ pc = [t \in Producers \cup Consumers |->
             IF t \in Producers THEN "idle" ELSE "token"]
  /\ bulk = [p \in Producers |-> <<>>]
  /\ pos = [p \in Producers |-> 0]
  /\ written = [p \in Producers |-> 0]
  /\ ptr = [c \in Consumers |-> 0]
  /\ ret = [c \in Consumers |-> NoSlice]
  /\ in_flight = 0

-----------------------------------------------------------------------------
(* EnqueueBulk *)

\* Mutant: room judged by the two counters (SizeApprox) alone.
CallEnqueueBulkBySize(p, b) ==
  /\ alloc_ptr - done_ptr + Len(b) <= QueueSize
  /\ done_ptr + in_flight + Len(b) <= MaxAlloc
  /\ Goto(p, "idle", "lock")
  /\ bulk' = [bulk EXCEPT ![p] = b]
  /\ in_flight' = in_flight + Len(b)
  /\ UNCHANGED <<queueVars, pos, written, consumerVars>>

(* The pool sends actions only for environments whose last state it has    *)
(* received, so the calls that have begun never hold more slices than      *)
(* slots.                                                                  *)
CallEnqueueBulk(p, b) ==
  /\ in_flight + Len(b) <= QueueSize
  /\ done_ptr + in_flight + Len(b) <= MaxAlloc
  /\ Goto(p, "idle", "lock")
  /\ bulk' = [bulk EXCEPT ![p] = b]
  /\ in_flight' = in_flight + Len(b)
  /\ UNCHANGED <<queueVars, pos, written, consumerVars>>

\* Mutant: the bulk is written without waiting for sem_enqueue_.
LockEnqueueAlways(p) ==
  /\ Goto(p, "lock", "alloc")
  /\ UNCHANGED <<queueVars, producerVars, consumerVars, in_flight>>

LockEnqueue(p) ==
  /\ Goto(p, "lock", "alloc")
  /\ sem_enqueue > 0
  /\ sem_enqueue' = sem_enqueue - 1
  /\ UNCHANGED <<alloc_ptr, done_ptr, queue, sem, sem_dequeue,
                 producerVars, consumerVars, in_flight>>

\* Mutant: fetch_add(1) for a bulk of several slices.
AllocOneSlot(p) ==
  /\ Goto(p, "alloc", "write")
  /\ pos' = [pos EXCEPT ![p] = alloc_ptr]
  /\ written' = [written EXCEPT ![p] = 0]
  /\ alloc_ptr' = alloc_ptr + 1
  /\ UNCHANGED <<done_ptr, queue, sem, sem_enqueue, sem_dequeue, bulk,
                 consumerVars, in_flight>>

AllocSlots(p) ==
  /\ Goto(p, "alloc", "write")
  /\ pos' = [pos EXCEPT ![p] = alloc_ptr]
  /\ written' = [written EXCEPT ![p] = 0]
  /\ alloc_ptr' = alloc_ptr + Len(bulk[p])
  /\ UNCHANGED <<done_ptr, queue, sem, sem_enqueue, sem_dequeue, bulk,
                 consumerVars, in_flight>>

WriteSlot(p) ==
  /\ pc[p] = "write"
  /\ written[p] < Len(bulk[p])
  /\ queue' = [queue EXCEPT ![Slot(pos[p] + written[p])] = bulk[p][written[p] + 1]]
  /\ written' = [written EXCEPT ![p] = @ + 1]
  /\ UNCHANGED <<alloc_ptr, done_ptr, sem, sem_enqueue, sem_dequeue, pc,
                 bulk, pos, consumerVars, in_flight>>

\* Mutant: one signal for the whole bulk.
PublishOnce(p) ==
  /\ Goto(p, "write", "unlock")
  /\ written[p] = Len(bulk[p])
  /\ sem' = sem + 1
  /\ UNCHANGED <<alloc_ptr, done_ptr, queue, sem_enqueue, sem_dequeue,
                 producerVars, consumerVars, in_flight>>

Publish(p) ==
  /\ Goto(p, "write", "unlock")
  /\ written[p] = Len(bulk[p])
  /\ sem' = sem + Len(bulk[p])
  /\ UNCHANGED <<alloc_ptr, done_ptr, queue, sem_enqueue, sem_dequeue,
                 producerVars, consumerVars, in_flight>>

UnlockEnqueue(p) ==
  /\ Goto(p, "unlock", "idle")
  /\ sem_enqueue' = sem_enqueue + 1
  /\ UNCHANGED <<alloc_ptr, done_ptr, queue, sem, sem_dequeue,
                 producerVars, consumerVars, in_flight>>

-----------------------------------------------------------------------------
(* Dequeue *)

TakeToken(c) ==
  /\ Goto(c, "token", "lock")
  /\ sem > 0
  /\ sem' = sem - 1
  /\ UNCHANGED <<alloc_ptr, done_ptr, queue, sem_enqueue, sem_dequeue,
                 producerVars, consumerVars, in_flight>>

LockDequeue(c) ==
  /\ Goto(c, "lock", "claim")
  /\ sem_dequeue > 0
  /\ sem_dequeue' = sem_dequeue - 1
  /\ UNCHANGED <<alloc_ptr, done_ptr, queue, sem, sem_enqueue,
                 producerVars, consumerVars, in_flight>>

ClaimSlot(c) ==
  /\ Goto(c, "claim", "read")
  /\ ptr' = [ptr EXCEPT ![c] = done_ptr]
  /\ done_ptr' = done_ptr + 1
  /\ UNCHANGED <<alloc_ptr, queue, sem, sem_enqueue, sem_dequeue,
                 producerVars, ret, in_flight>>

ReadSlot(c) ==
  /\ Goto(c, "read", "unlock")
  /\ ret' = [ret EXCEPT ![c] = queue[Slot(ptr[c])]]
  /\ UNCHANGED <<queueVars, producerVars, ptr, in_flight>>

(* The call returns: only now may the caller's slice be replaced by another. *)
UnlockDequeue(c) ==
  /\ Goto(c, "unlock", "token")
  /\ sem_dequeue' = sem_dequeue + 1
  /\ in_flight' = in_flight - 1
  /\ UNCHANGED <<alloc_ptr, done_ptr, queue, sem, sem_enqueue,
                 producerVars, consumerVars>>

-----------------------------------------------------------------------------

EnqueueBulk(p) ==
  \/ LockEnqueue(p)
  \/ AllocSlots(p)
  \/ WriteSlot(p)
  \/ Publish(p)
  \/ UnlockEnqueue(p)

Dequeue(c) ==
  \/ TakeToken(c)
  \/ LockDequeue(c)
  \/ ClaimSlot(c)
  \/ ReadSlot(c)
  \/ UnlockDequeue(c)

Next ==
  \/ \E p \in Producers : \E b \in Bulks : CallEnqueueBulk(p, b)
  \/ \E p \in Producers : EnqueueBulk(p)
  \/ \E c \in Consumers : Dequeue(c)

Spec == Init /\ [][Next]_vars

(* A thread inside a call keeps running; nobody is obliged to send.        *)
Fairness ==
  /\ \A p \in Producers : WF_vars(EnqueueBulk(p))
  /\ \A c \in Consumers : WF_vars(Dequeue(c))

FairSpec == Spec /\ Fairness

-----------------------------------------------------------------------------

(* Each variable keeps its type; the two binary semaphores stay binary.    *)
TypeOK ==
  /\ alloc_ptr \in Nat
  /\ done_ptr \in Nat
  /\ queue \in [Indices -> Slices \cup {NoSlice}]
  /\ sem \in Nat
  /\ sem_enqueue \in 0 .. 1
  /\ sem_dequeue \in 0 .. 1
  /\ pc \in [Producers \cup Consumers -> ProducerSteps \cup ConsumerSteps]
  /\ bulk \in [Producers -> Bulks \cup {<<>>}]
  /\ pos \in [Producers -> Nat]
  /\ written \in [Producers -> Nat]
  /\ ptr \in [Consumers -> Nat]
  /\ ret \in [Consumers -> Slices \cup {NoSlice}]
  /\ in_flight \in Int

(* Producers whose bulk owns slots that no token stands for yet. *)
Writing(p)    == pc[p] = "write"
(* Slots published: the prefix of the allocated ones that has tokens. *)
Published == IF \E p \in Producers : Writing(p)
             THEN pos[CHOOSE p \in Producers : Writing(p)]
             ELSE alloc_ptr

InEnqueue(p) == pc[p] \in {"alloc", "write", "unlock"}
InDequeue(c) == pc[c] \in {"claim", "read", "unlock"}
HoldsToken(c) == pc[c] \in {"lock", "claim"}

(* Every published slot has exactly one token: in the semaphore, in the    *)
(* hands of a consumer, or already used to advance done_ptr.               *)
TokenAccounting ==
  done_ptr + Cardinality({c \in Consumers : HoldsToken(c)}) + sem = Published

(* The slots that hold a slice some consumer has still to read. *)
LivePositions == (done_ptr .. Published - 1)
                   \cup {ptr[c] : c \in {d \in Consumers : pc[d] = "read"}}

(* A producer never writes a slot whose slice a consumer has still to read *)
(* although the ring is never tested for room (action_buffer_queue.h:64).  *)
NoOverwrite ==
  \A p \in Producers : Writing(p) =>
    \A i \in written[p] .. Len(bulk[p]) - 1 :
      \A q \in LivePositions : Slot(pos[p] + i) # Slot(q)

(* A consumer about to read a slot finds a published slice in it, never    *)
(* one that is allocated and half written.                                 *)
ReadsPublished ==
  \A c \in Consumers : pc[c] = "read" => ptr[c] < Published

-----------------------------------------------------------------------------
(* What the queue promises: an atomic bulk FIFO. *)

(* The slices published and not claimed, oldest first. *)
Contents == [k \in 1 .. Published - done_ptr |-> queue[Slot(done_ptr + k - 1)]]

(* The slice each consumer has been handed and has not returned with. *)
Hand == [c \in Consumers |->
           IF pc[c] = "read" THEN queue[Slot(ptr[c])]
           ELSE IF pc[c] = "unlock" THEN ret[c]
           ELSE NoSlice]

Fifo == INSTANCE ActionFifo WITH fifo <- Contents, hand <- Hand,
                                 Capacity <- QueueSize

(* EnqueueBulk and Dequeue implement an atomic bulk first-in first-out     *)
(* queue: bulks are never interleaved, slices never lost, duplicated or    *)
(* reordered.                                                              *)
ImplementsFifo == Fifo!Spec

(* Every slice a producer has begun to send is eventually returned by      *)
(* Dequeue: no token is lost between the three semaphores and no thread    *)
(* waits for ever while slices are queued (MaxAlloc ends the sending).     *)
Drains == in_flight > 0 ~> in_flight = 0

=============================================================================
