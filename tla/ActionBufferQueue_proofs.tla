---------------------- MODULE ActionBufferQueue_proofs ----------------------
(***************************************************************************)
(* Theorems about ActionBufferQueue, for every number of threads, slots    *)
(* and slices and for bulks of every length.  The invariants that the runs *)
(* check are proved from IInv: the semaphores exclude (Locked), the writer *)
(* and the reader own the slots their counters have passed (Positions),    *)
(* tokens and slots stay in step (TokenAccounting), and in_flight counts   *)
(* the slices that have no slot yet, those in the ring and those in a      *)
(* reader's hands (Room), which leaves the writer no slot to overwrite.    *)
(* With what the live slots hold (Stored) it makes every step one of the   *)
(* atomic queue of ActionFifo, or none.                                    *)
(* The second part is about CircularBuffer, the pool's other ring.         *)
(***************************************************************************)
EXTENDS ActionBufferQueue, CircularBufferState, FiniteSetTheorems, SequenceTheorems, TLAPS

(* Two positions less than a round of the ring apart have different slots. *)
LEMMA PositionsApart ==
  ASSUME NEW N \in Nat \ {0}, NEW p \in Nat, NEW q \in Nat, p < q, q - p < N
  PROVE  p % N # q % N
  <1>1. SUFFICES ASSUME p % N = q % N PROVE FALSE
    OBVIOUS
  <1>2. PICK a \in Int, b \in Int : p = N * a + (p % N) /\ q = N * b + (p % N)
    <2>1. /\ p = N * (p \div N) + (p % N) /\ p \div N \in Int
          /\ q = N * (q \div N) + (q % N) /\ q \div N \in Int
      OBVIOUS
    <2>2. QED BY <1>1, <2>1
  <1>3. PICK k \in Int : k = b - a OBVIOUS
  <1>4. q - p = N * k BY <1>2, <1>3
  <1>5. k <= 0 => N * k <= 0 OBVIOUS
  <1>6. k >= 1 => N * k >= N OBVIOUS
  <1>7. QED BY <1>4, <1>5, <1>6

(* The slot of a position is an index of the ring. *)
LEMMA SlotIndex == ASSUME NEW p \in Nat PROVE Slot(p) \in Indices
  <1>1. QueueSize \in Nat \ {0}
    BY SizeAssumption DEF QueueSize
  <1>2. QED BY <1>1 DEF Slot, Indices

(* Two positions less than a round apart have different slots. *)
LEMMA SlotsApart ==
  ASSUME NEW p \in Nat, NEW q \in Nat, p < q, q - p < QueueSize
  PROVE  Slot(p) # Slot(q)
  <1>1. QueueSize \in Nat \ {0}
    BY SizeAssumption DEF QueueSize
  <1>2. QED BY <1>1, PositionsApart DEF Slot

-----------------------------------------------------------------------------
(* A bulk is a sequence of slices. *)
LEMMA BulkSeq ==
  ASSUME NEW b \in Bulks \cup {<<>>}
  PROVE  /\ Len(b) \in Nat
         /\ \A k \in 1 .. Len(b) : b[k] \in Slices
  <1>1. CASE b \in Bulks
    <2>1. PICK n \in BulkLengths : b \in [1 .. n -> Slices]
      BY <1>1 DEF Bulks
    <2>2. n \in Nat
      BY SizeAssumption
    <2>3. b \in Seq(Slices)
      BY <2>1, <2>2
    <2>4. QED BY <2>3, LenProperties, ElementOfSeq
  <1>2. CASE b = <<>>
    BY <1>2, EmptySeq
  <1>3. QED BY <1>1, <1>2

(* The two binary semaphores are locks: at most one producer is between    *)
(* taking and returning sem_enqueue, at most one consumer sem_dequeue.     *)
Mutex ==
  /\ \A p, q \in Producers : InEnqueue(p) /\ InEnqueue(q) => p = q
  /\ \A c, d \in Consumers : InDequeue(c) /\ InDequeue(d) => c = d
  /\ sem_enqueue = 1 => \A p \in Producers : ~InEnqueue(p)
  /\ sem_dequeue = 1 => \A c \in Consumers : ~InDequeue(c)

Locked == TypeOK /\ Mutex

(* The variables start typed and with both semaphores free.                *)
LEMMA LockedInit == Init => Locked
  <1> SUFFICES ASSUME Init PROVE Locked
    OBVIOUS
  <1>0. QueueSize \in Nat
    BY SizeAssumption DEF QueueSize
  <1>1. TypeOK
    <2>1. pc \in [Producers \cup Consumers -> ProducerSteps \cup ConsumerSteps]
      BY DEF Init, ProducerSteps, ConsumerSteps
    <2>2. bulk \in [Producers -> Bulks \cup {<<>>}]
      BY DEF Init
    <2>3. QED BY <2>1, <2>2 DEF Init, TypeOK
  <1>2. Mutex
    BY ThreadsAssumption DEF Init, Mutex, InEnqueue, InDequeue
  <1>3. QED BY <1>1, <1>2 DEF Locked

(* One lemma per thread: its steps keep the types and the locks.           *)
LEMMA LockedProducer ==
  ASSUME Locked, NEW p \in Producers, EnqueueBulk(p)
  PROVE  Locked'
  <1> USE DEF Locked
  <1>0. /\ p \notin Consumers /\ \A c \in Consumers : c # p
        /\ Len(bulk[p]) \in Nat
        /\ \A k \in 1 .. Len(bulk[p]) : bulk[p][k] \in Slices
    BY ThreadsAssumption, BulkSeq DEF TypeOK
  <1>1. CASE LockEnqueue(p)
    <2>1. TypeOK'
      BY <1>1 DEF TypeOK, LockEnqueue, Goto, producerVars, consumerVars, ProducerSteps
    <2>2. Mutex'
      BY <1>0, <1>1 DEF TypeOK, Mutex, InEnqueue, InDequeue, LockEnqueue, Goto
    <2>3. QED BY <2>1, <2>2
  <1>2. CASE AllocSlots(p)
    <2>1. TypeOK'
      BY <1>0, <1>2 DEF TypeOK, AllocSlots, Goto, consumerVars, ProducerSteps
    <2>2. Mutex'
      BY <1>0, <1>2 DEF TypeOK, Mutex, InEnqueue, InDequeue, AllocSlots, Goto
    <2>3. QED BY <2>1, <2>2
  <1>3. CASE WriteSlot(p)
    <2>1. TypeOK'
      <3>1. bulk[p][written[p] + 1] \in Slices
        BY <1>0, <1>3 DEF WriteSlot, TypeOK
      <3> DEFINE v == bulk[p][written[p] + 1]
                 i == Slot(pos[p] + written[p])
      <3>2. queue' \in [Indices -> Slices \cup {NoSlice}]
        <4>1. queue' = [queue EXCEPT ![i] = v]
          BY <1>3 DEF WriteSlot
        <4>2. queue \in [Indices -> Slices \cup {NoSlice}]
          BY DEF TypeOK
        <4>3. v \in Slices BY <3>1
        <4> HIDE DEF v, i
        <4>4. QED BY <4>1, <4>2, <4>3
      <3>3. written' \in [Producers -> Nat]
        BY <1>3 DEF TypeOK, WriteSlot
      <3>4. QED BY <1>3, <3>2, <3>3 DEF TypeOK, WriteSlot, consumerVars
    <2>2. Mutex'
      BY <1>3 DEF Mutex, InEnqueue, InDequeue, WriteSlot
    <2>3. QED BY <2>1, <2>2
  <1>4. CASE Publish(p)
    <2>1. TypeOK'
      BY <1>0, <1>4 DEF TypeOK, Publish, Goto, producerVars, consumerVars, ProducerSteps
    <2>2. Mutex'
      BY <1>0, <1>4 DEF TypeOK, Mutex, InEnqueue, InDequeue, Publish, Goto
    <2>3. QED BY <2>1, <2>2
  <1>5. CASE UnlockEnqueue(p)
    <2>1. sem_enqueue = 0
      BY <1>5 DEF Mutex, TypeOK, InEnqueue, UnlockEnqueue, Goto
    <2>2. TypeOK'
      BY <1>5, <2>1 DEF TypeOK, UnlockEnqueue, Goto, producerVars, consumerVars, ProducerSteps
    <2>3. Mutex'
      BY <1>0, <1>5 DEF TypeOK, Mutex, InEnqueue, InDequeue, UnlockEnqueue, Goto
    <2>4. QED BY <2>2, <2>3
  <1>6. QED
    BY <1>1, <1>2, <1>3, <1>4, <1>5 DEF EnqueueBulk

(* A step of Dequeue keeps the types and the exclusion of consumers.       *)
LEMMA LockedConsumer ==
  ASSUME Locked, NEW c \in Consumers, Dequeue(c)
  PROVE  Locked'
  <1> USE DEF Locked
  <1>0. c \notin Producers /\ \A p \in Producers : p # c
    BY ThreadsAssumption
  <1>1. CASE TakeToken(c)
    <2>1. TypeOK'
      BY <1>1 DEF TypeOK, TakeToken, Goto, producerVars, consumerVars, ConsumerSteps
    <2>2. Mutex'
      BY <1>0, <1>1 DEF TypeOK, Mutex, InEnqueue, InDequeue, TakeToken, Goto
    <2>3. QED BY <2>1, <2>2
  <1>2. CASE LockDequeue(c)
    <2>1. TypeOK'
      BY <1>2 DEF TypeOK, LockDequeue, Goto, producerVars, consumerVars, ConsumerSteps
    <2>2. Mutex'
      BY <1>0, <1>2 DEF TypeOK, Mutex, InEnqueue, InDequeue, LockDequeue, Goto
    <2>3. QED BY <2>1, <2>2
  <1>3. CASE ClaimSlot(c)
    <2>1. TypeOK'
      BY <1>3 DEF TypeOK, ClaimSlot, Goto, producerVars, ConsumerSteps
    <2>2. Mutex'
      BY <1>0, <1>3 DEF TypeOK, Mutex, InEnqueue, InDequeue, ClaimSlot, Goto
    <2>3. QED BY <2>1, <2>2
  <1>4. CASE ReadSlot(c)
    <2>1. TypeOK'
      <3>1. queue[Slot(ptr[c])] \in Slices \cup {NoSlice}
        BY SlotIndex DEF TypeOK
      <3>2. QED BY <1>4, <3>1 DEF TypeOK, ReadSlot, Goto, queueVars, producerVars, ConsumerSteps
    <2>2. Mutex'
      BY <1>0, <1>4 DEF TypeOK, Mutex, InEnqueue, InDequeue, ReadSlot, Goto, queueVars
    <2>3. QED BY <2>1, <2>2
  <1>5. CASE UnlockDequeue(c)
    <2>1. sem_dequeue = 0
      BY <1>5 DEF Mutex, TypeOK, InDequeue, UnlockDequeue, Goto
    <2>2. TypeOK'
      BY <1>5, <2>1 DEF TypeOK, UnlockDequeue, Goto, producerVars, consumerVars, ConsumerSteps
    <2>3. Mutex'
      BY <1>0, <1>5 DEF TypeOK, Mutex, InEnqueue, InDequeue, UnlockDequeue, Goto
    <2>4. QED BY <2>2, <2>3
  <1>6. QED
    BY <1>1, <1>2, <1>3, <1>4, <1>5 DEF Dequeue

(* A thread that enters EnqueueBulk holds no semaphore yet.                *)
LEMMA LockedCall ==
  ASSUME Locked, NEW p \in Producers, NEW b \in Bulks, CallEnqueueBulk(p, b)
  PROVE  Locked'
  <1>0. /\ p \notin Consumers /\ \A c \in Consumers : c # p
        /\ Len(b) \in Nat
    BY ThreadsAssumption, BulkSeq
  <1>1. TypeOK'
    BY <1>0 DEF Locked, TypeOK, CallEnqueueBulk, Goto, queueVars, consumerVars, ProducerSteps
  <1>2. Mutex'
    BY <1>0 DEF Locked, TypeOK, Mutex, InEnqueue, InDequeue, CallEnqueueBulk, Goto, queueVars
  <1>3. QED BY <1>1, <1>2 DEF Locked

(* A step that changes nothing keeps them.                                 *)
LEMMA LockedStutter == Locked /\ UNCHANGED vars => Locked'
  BY DEF Locked, TypeOK, Mutex, InEnqueue, InDequeue, vars, queueVars,
         producerVars, consumerVars

(* Every step keeps the types and the exclusion of both kinds of thread.   *)
LEMMA LockedStep == Locked /\ [Next]_vars => Locked'
  BY LockedCall, LockedProducer, LockedConsumer, LockedStutter DEF Next

(* The variables of the queue always have their types, and the two binary  *)
(* semaphores exclude: one producer in EnqueueBulk, one consumer between   *)
(* claiming a slot and having read it.                                     *)
THEOREM LocksHold == Spec => []Locked
  BY LockedInit, LockedStep, PTL DEF Spec

(* Type correctness, for every number of threads, slots and slices.        *)
THEOREM TypeCorrect == Spec => []TypeOK
  <1>1. Locked => TypeOK
    BY DEF Locked
  <1>2. QED BY LocksHold, <1>1, PTL
-----------------------------------------------------------------------------
(* Where the published prefix ends: at the first position of the producer  *)
(* that is writing, or at alloc_ptr when none is.                          *)
PublishedEnd ==
  /\ \A p \in Producers : Writing(p) => Published = pos[p]
  /\ (\A p \in Producers : ~Writing(p)) => Published = alloc_ptr

(* What is published ends where the producer inside EnqueueBulk began.     *)
LEMMA PublishedIs == Locked => PublishedEnd
  <1> SUFFICES ASSUME Locked PROVE PublishedEnd
    OBVIOUS
  <1>1. ASSUME NEW p \in Producers, Writing(p)
        PROVE  Published = pos[p]
    <2>1. \A q \in Producers : Writing(q) => q = p
      BY <1>1 DEF Locked, Mutex, InEnqueue, Writing
    <2>2. (CHOOSE q \in Producers : Writing(q)) = p
      BY <1>1, <2>1
    <2>3. QED BY <1>1, <2>2 DEF Published
  <1>2. (\A p \in Producers : ~Writing(p)) => Published = alloc_ptr
    BY DEF Published
  <1>3. QED BY <1>1, <1>2 DEF PublishedEnd

(* The producer that writes owns the last slots handed out, the consumer   *)
(* that reads owns the slot done_ptr has just passed.                      *)
Positions ==
  /\ \A p \in Producers : Writing(p) =>
       /\ pos[p] + Len(bulk[p]) = alloc_ptr
       /\ written[p] <= Len(bulk[p])
  /\ \A c \in Consumers : pc[c] = "read" => ptr[c] + 1 = done_ptr

(* No slot is allocated or claimed at first.                               *)
LEMMA PositionsInit == Init => Positions
  BY ThreadsAssumption DEF Init, Positions, Writing

(* Every step keeps the slots of the producer inside the last allocated.   *)
LEMMA PositionsStep ==
  ASSUME Locked, Locked', Positions, [Next]_vars
  PROVE  Positions'
  <1> USE DEF Positions, Writing
  <1>0. /\ \A p \in Producers : \A c \in Consumers : p # c
        /\ \A p \in Producers : Len(bulk[p]) \in Nat
    BY ThreadsAssumption, BulkSeq DEF Locked, TypeOK
  <1>1. ASSUME NEW p \in Producers, NEW b \in Bulks, CallEnqueueBulk(p, b)
        PROVE  Positions'
    BY <1>0, <1>1 DEF Locked, TypeOK, CallEnqueueBulk, Goto, queueVars, consumerVars
  <1>2. ASSUME NEW p \in Producers, LockEnqueue(p)
        PROVE  Positions'
    BY <1>0, <1>2 DEF Locked, TypeOK, LockEnqueue, Goto, producerVars, consumerVars
  <1>3. ASSUME NEW p \in Producers, AllocSlots(p)
        PROVE  Positions'
    <2>1. \A q \in Producers : pc'[q] = "write" => q = p
      BY <1>3 DEF Locked, TypeOK, Mutex, InEnqueue, AllocSlots, Goto
    <2>2. /\ pos'[p] = alloc_ptr /\ written'[p] = 0
          /\ alloc_ptr' = alloc_ptr + Len(bulk[p]) /\ bulk' = bulk
      BY <1>3 DEF Locked, TypeOK, AllocSlots
    <2>3. \A c \in Consumers : /\ pc'[c] = pc[c] /\ ptr'[c] = ptr[c]
      BY <1>0, <1>3 DEF Locked, TypeOK, AllocSlots, Goto, consumerVars
    <2>4. done_ptr' = done_ptr
      BY <1>3 DEF AllocSlots
    <2>5. alloc_ptr \in Nat
      BY DEF Locked, TypeOK
    <2>6. QED BY <1>0, <2>1, <2>2, <2>3, <2>4, <2>5
  <1>4. ASSUME NEW p \in Producers, WriteSlot(p)
        PROVE  Positions'
    BY <1>0, <1>4 DEF Locked, TypeOK, WriteSlot, consumerVars
  <1>5. ASSUME NEW p \in Producers, Publish(p)
        PROVE  Positions'
    BY <1>0, <1>5 DEF Locked, TypeOK, Publish, Goto, producerVars, consumerVars
  <1>6. ASSUME NEW p \in Producers, UnlockEnqueue(p)
        PROVE  Positions'
    BY <1>0, <1>6 DEF Locked, TypeOK, UnlockEnqueue, Goto, producerVars, consumerVars
  <1>7. ASSUME NEW c \in Consumers, TakeToken(c)
        PROVE  Positions'
    BY <1>0, <1>7 DEF Locked, TypeOK, TakeToken, Goto, producerVars, consumerVars
  <1>8. ASSUME NEW c \in Consumers, LockDequeue(c)
        PROVE  Positions'
    BY <1>0, <1>8 DEF Locked, TypeOK, LockDequeue, Goto, producerVars, consumerVars
  <1>9. ASSUME NEW c \in Consumers, ClaimSlot(c)
        PROVE  Positions'
    <2>1. \A d \in Consumers : pc'[d] = "read" => d = c
      BY <1>9 DEF Locked, TypeOK, Mutex, InDequeue, ClaimSlot, Goto
    <2>2. ptr'[c] = done_ptr /\ done_ptr' = done_ptr + 1
      BY <1>9 DEF Locked, TypeOK, ClaimSlot
    <2>3. \A p \in Producers : pc'[p] = pc[p]
      BY <1>0, <1>9 DEF Locked, TypeOK, ClaimSlot, Goto
    <2>4. QED BY <1>9, <2>1, <2>2, <2>3 DEF ClaimSlot, producerVars
  <1>10. ASSUME NEW c \in Consumers, ReadSlot(c)
         PROVE  Positions'
    BY <1>0, <1>10 DEF Locked, TypeOK, ReadSlot, Goto, queueVars, producerVars
  <1>11. ASSUME NEW c \in Consumers, UnlockDequeue(c)
         PROVE  Positions'
    BY <1>0, <1>11 DEF Locked, TypeOK, UnlockDequeue, Goto, producerVars, consumerVars
  <1>12. CASE UNCHANGED vars
    BY <1>12 DEF vars, queueVars, producerVars, consumerVars
  <1>13. QED
    BY <1>1, <1>2, <1>3, <1>4, <1>5, <1>6, <1>7, <1>8, <1>9, <1>10, <1>11, <1>12
       DEF Next, EnqueueBulk, Dequeue
-----------------------------------------------------------------------------
Tokens  == {c \in Consumers : HoldsToken(c)}
Readers == {c \in Consumers : pc[c] \in {"read", "unlock"}}

(* Sets of consumers are finite; adding or removing one counts one.        *)
LEMMA ConsumerSets ==
  ASSUME NEW S \in SUBSET Consumers, NEW c \in Consumers
  PROVE  /\ IsFiniteSet(S)
         /\ Cardinality(S) \in Nat
         /\ c \notin S => Cardinality(S \cup {c}) = Cardinality(S) + 1
         /\ c \in S => Cardinality(S \ {c}) = Cardinality(S) - 1
  <1>1. IsFiniteSet(S)
    BY ThreadsAssumption, FS_Subset
  <1>2. QED
    BY <1>1, FS_CardinalityType, FS_AddElement, FS_RemoveElement

(* How the token holders and the readers change with a step.               *)
LEMMA HoldersStep ==
  ASSUME Locked, Locked', [Next]_vars
  PROVE  /\ \A c \in Consumers : TakeToken(c) =>
              /\ Cardinality(Tokens') = Cardinality(Tokens) + 1
              /\ Cardinality(Readers') = Cardinality(Readers)
         /\ \A c \in Consumers : ClaimSlot(c) =>
              /\ Cardinality(Tokens') = Cardinality(Tokens) - 1
              /\ Cardinality(Readers') = Cardinality(Readers) + 1
         /\ \A c \in Consumers : UnlockDequeue(c) =>
              /\ Cardinality(Tokens') = Cardinality(Tokens)
              /\ Cardinality(Readers') = Cardinality(Readers) - 1
         /\ \A c \in Consumers : LockDequeue(c) \/ ReadSlot(c) =>
              Tokens' = Tokens /\ Readers' = Readers
         /\ \A p \in Producers :
              EnqueueBulk(p) \/ (\E b \in Bulks : CallEnqueueBulk(p, b)) =>
                Tokens' = Tokens /\ Readers' = Readers
         /\ UNCHANGED vars => Tokens' = Tokens /\ Readers' = Readers
  <1>0. /\ Tokens \in SUBSET Consumers /\ Readers \in SUBSET Consumers
        /\ \A p \in Producers : \A c \in Consumers : p # c
    BY ThreadsAssumption DEF Tokens, Readers
  <1>1. ASSUME NEW c \in Consumers, TakeToken(c)
        PROVE  /\ Cardinality(Tokens') = Cardinality(Tokens) + 1
               /\ Cardinality(Readers') = Cardinality(Readers)
    <2>1. c \notin Tokens /\ Tokens' = Tokens \cup {c} /\ Readers' = Readers
      BY <1>1 DEF Locked, TypeOK, TakeToken, Goto, Tokens, Readers, HoldsToken
    <2>2. QED BY <1>0, <2>1, ConsumerSets
  <1>2. ASSUME NEW c \in Consumers, ClaimSlot(c)
        PROVE  /\ Cardinality(Tokens') = Cardinality(Tokens) - 1
               /\ Cardinality(Readers') = Cardinality(Readers) + 1
    <2>1. /\ c \in Tokens /\ Tokens' = Tokens \ {c}
          /\ c \notin Readers /\ Readers' = Readers \cup {c}
      BY <1>2 DEF Locked, TypeOK, ClaimSlot, Goto, Tokens, Readers, HoldsToken
    <2>2. QED BY <1>0, <2>1, ConsumerSets
  <1>3. ASSUME NEW c \in Consumers, UnlockDequeue(c)
        PROVE  /\ Cardinality(Tokens') = Cardinality(Tokens)
               /\ Cardinality(Readers') = Cardinality(Readers) - 1
    <2>1. Tokens' = Tokens /\ c \in Readers /\ Readers' = Readers \ {c}
      BY <1>3 DEF Locked, TypeOK, UnlockDequeue, Goto, Tokens, Readers, HoldsToken
    <2>2. QED BY <1>0, <2>1, ConsumerSets
  <1>4. ASSUME NEW c \in Consumers, LockDequeue(c) \/ ReadSlot(c)
        PROVE  Tokens' = Tokens /\ Readers' = Readers
    BY <1>4 DEF Locked, TypeOK, LockDequeue, ReadSlot, Goto, Tokens, Readers, HoldsToken
  <1>5. ASSUME NEW p \in Producers,
               EnqueueBulk(p) \/ \E b \in Bulks : CallEnqueueBulk(p, b)
        PROVE  Tokens' = Tokens /\ Readers' = Readers
    <2>1. \A c \in Consumers : pc'[c] = pc[c]
      BY <1>0, <1>5 DEF Locked, TypeOK, EnqueueBulk, CallEnqueueBulk, LockEnqueue,
           AllocSlots, WriteSlot, Publish, UnlockEnqueue, Goto
    <2>2. QED BY <2>1 DEF Tokens, Readers, HoldsToken
  <1>6. ASSUME UNCHANGED vars
        PROVE  Tokens' = Tokens /\ Readers' = Readers
    BY <1>6 DEF Tokens, Readers, HoldsToken, vars
  <1>7. QED
    BY <1>1, <1>2, <1>3, <1>4, <1>5, <1>6
-----------------------------------------------------------------------------
(* A step publishes slots only when it gives the bulk its tokens.          *)
LEMMA PublishedStep ==
  ASSUME Locked, Locked', Positions, Positions', [Next]_vars
  PROVE  /\ \A p \in Producers :
              Publish(p) => Published' = Published + Len(bulk[p])
         /\ \A p \in Producers :
              \/ LockEnqueue(p) \/ AllocSlots(p) \/ WriteSlot(p) \/ UnlockEnqueue(p)
              \/ \E b \in Bulks : CallEnqueueBulk(p, b)
              => Published' = Published
         /\ \A c \in Consumers : Dequeue(c) => Published' = Published
         /\ UNCHANGED vars => Published' = Published
  <1>0. /\ \A p \in Producers : \A c \in Consumers : p # c
        /\ \A p \in Producers : Len(bulk[p]) \in Nat
        /\ PublishedEnd /\ PublishedEnd'
    <2>1. Locked' => PublishedEnd'
      BY PublishedIs, PTL
    <2>2. QED BY <2>1, PublishedIs, ThreadsAssumption, BulkSeq DEF Locked, TypeOK
  <1> USE <1>0 DEF PublishedEnd
  <1>1. ASSUME NEW p \in Producers, Publish(p)
        PROVE  Published' = Published + Len(bulk[p])
    <2>1. Writing(p) /\ Published = pos[p]
      BY <1>1 DEF Writing, Publish, Goto
    <2>2. \A q \in Producers : ~Writing(q)'
      BY <1>1, <2>1 DEF Locked, TypeOK, Mutex, InEnqueue, Writing, Publish, Goto
    <2>3. Published' = alloc_ptr'
      BY <2>2
    <2>4. alloc_ptr' = alloc_ptr
      BY <1>1 DEF Publish
    <2>5. QED BY <2>1, <2>3, <2>4 DEF Positions
  <1>2. ASSUME NEW p \in Producers, AllocSlots(p)
        PROVE  Published' = Published
    <2>1. \A q \in Producers : ~Writing(q)
      BY <1>2 DEF Locked, Mutex, InEnqueue, Writing, AllocSlots, Goto
    <2>2. Writing(p)' /\ pos'[p] = alloc_ptr
      BY <1>2 DEF Locked, TypeOK, Writing, AllocSlots, Goto
    <2>3. QED BY <2>1, <2>2
  <1>3. ASSUME \A p \in Producers : Writing(p)' <=> Writing(p),
               pos' = pos, alloc_ptr' = alloc_ptr
        PROVE  Published' = Published
    <2>1. CASE \E p \in Producers : Writing(p)
      <3>1. PICK p \in Producers : Writing(p)
        BY <2>1
      <3>2. Published = pos[p] /\ Published' = pos'[p]
        BY <1>3, <3>1
      <3>3. QED BY <1>3, <3>2
    <2>2. CASE \A p \in Producers : ~Writing(p)
      BY <1>3, <2>2
    <2>3. QED BY <2>1, <2>2
  <1>4. ASSUME NEW p \in Producers,
               \/ LockEnqueue(p) \/ WriteSlot(p) \/ UnlockEnqueue(p)
               \/ \E b \in Bulks : CallEnqueueBulk(p, b)
        PROVE  Published' = Published
    <2>1. /\ \A q \in Producers : Writing(q)' <=> Writing(q)
          /\ pos' = pos /\ alloc_ptr' = alloc_ptr
      BY <1>4 DEF Locked, TypeOK, Writing, LockEnqueue, WriteSlot, UnlockEnqueue,
           CallEnqueueBulk, Goto, queueVars, producerVars
    <2>2. QED BY <1>3, <2>1
  <1>5. ASSUME NEW c \in Consumers, Dequeue(c)
        PROVE  Published' = Published
    <2>1. \A q \in Producers : pc'[q] = pc[q]
      BY <1>5 DEF Locked, TypeOK, Dequeue, TakeToken, LockDequeue, ClaimSlot,
           ReadSlot, UnlockDequeue, Goto
    <2>2. pos' = pos /\ alloc_ptr' = alloc_ptr
      BY <1>5 DEF Dequeue, TakeToken, LockDequeue, ClaimSlot, ReadSlot,
           UnlockDequeue, queueVars, producerVars
    <2>3. QED BY <1>3, <2>1, <2>2 DEF Writing
  <1>6. ASSUME UNCHANGED vars
        PROVE  Published' = Published
    <2>1. pc' = pc /\ pos' = pos /\ alloc_ptr' = alloc_ptr
      BY <1>6 DEF vars, queueVars, producerVars
    <2>2. QED BY <1>3, <2>1 DEF Writing
  <1>7. QED BY <1>1, <1>2, <1>4, <1>5, <1>6

(* There is no permit and nothing published at first.                      *)
LEMMA TokensInit == Init => TokenAccounting
  <1> SUFFICES ASSUME Init PROVE TokenAccounting
    OBVIOUS
  <1>1. \A p \in Producers : ~Writing(p)
    BY DEF Init, Writing
  <1>2. Published = 0
    BY <1>1, LockedInit, PublishedIs DEF Init, PublishedEnd
  <1>3. Tokens = {}
    BY ThreadsAssumption DEF Init, HoldsToken, Tokens
  <1>4. done_ptr + Cardinality(Tokens) + sem = Published
    BY <1>2, <1>3, FS_EmptySet DEF Init
  <1>5. QED BY <1>4 DEF TokenAccounting, Tokens

(* A signal adds the permits of what it publishes; a wait takes one.       *)
LEMMA TokensStep ==
  ASSUME Locked, Locked', Positions, Positions', TokenAccounting, [Next]_vars
  PROVE  TokenAccounting'
  <1> DEFINE n == Cardinality(Tokens)
  <1>0. /\ done_ptr \in Nat /\ sem \in Nat /\ n \in Nat
        /\ \A p \in Producers : Len(bulk[p]) \in Nat
        /\ done_ptr + n + sem = Published
        /\ Published \in Int
    <2>1. Cardinality(Tokens) \in Nat
      BY ThreadsAssumption, FS_Subset, FS_CardinalityType DEF Tokens
    <2>2. QED
      BY <2>1, BulkSeq DEF Locked, TypeOK, TokenAccounting, Tokens
  <1>1. SUFFICES done_ptr' + n' + sem' = Published'
    BY DEF TokenAccounting, Tokens
  <1> USE <1>0, HoldersStep, PublishedStep
  <1>2. ASSUME NEW c \in Consumers, Dequeue(c)
        PROVE  done_ptr' + n' + sem' = Published'
    <2>1. Published' = Published
      BY <1>2
    <2>2. CASE TakeToken(c)
      BY <2>1, <2>2 DEF TakeToken
    <2>3. CASE LockDequeue(c) \/ ReadSlot(c)
      BY <2>1, <2>3 DEF LockDequeue, ReadSlot, queueVars
    <2>4. CASE ClaimSlot(c)
      <3>1. n' = n - 1 BY <2>4
      <3>2. done_ptr' = done_ptr + 1 /\ sem' = sem BY <2>4 DEF ClaimSlot
      <3> HIDE DEF n
      <3>3. QED BY <1>0, <2>1, <3>1, <3>2
    <2>5. CASE UnlockDequeue(c)
      BY <2>1, <2>5 DEF UnlockDequeue
    <2>6. QED BY <1>2, <2>2, <2>3, <2>4, <2>5 DEF Dequeue
  <1>3. ASSUME NEW p \in Producers,
               EnqueueBulk(p) \/ \E b \in Bulks : CallEnqueueBulk(p, b)
        PROVE  done_ptr' + n' + sem' = Published'
    <2>1. n' = n
      BY <1>3
    <2>2. CASE Publish(p)
      <3>1. Published' = Published + Len(bulk[p]) BY <2>2
      <3>2. sem' = sem + Len(bulk[p]) /\ done_ptr' = done_ptr BY <2>2 DEF Publish
      <3> DEFINE k == Len(bulk[p])
      <3>3. k \in Nat /\ sem' = sem + k /\ Published' = Published + k
        BY <3>1, <3>2
      <3>4. done_ptr + n + sem = Published /\ n' = n /\ done_ptr' = done_ptr
        BY <2>1, <3>2
      <3> HIDE <1>0, HoldersStep, PublishedStep DEF n, k
      <3>5. QED BY <1>0, <3>3, <3>4
    <2>3. CASE ~Publish(p)
      BY <1>3, <2>1, <2>3 DEF EnqueueBulk, LockEnqueue, AllocSlots, WriteSlot,
           UnlockEnqueue, CallEnqueueBulk, queueVars
    <2>4. QED BY <2>2, <2>3
  <1>4. CASE UNCHANGED vars
    BY <1>4 DEF vars, queueVars
  <1>5. QED BY <1>2, <1>3, <1>4 DEF Next
-----------------------------------------------------------------------------
(* A slice of a bulk that has begun to be sent and has no slot yet.        *)
PendingSlots ==
  {x \in Producers \X Nat : /\ pc[x[1]] \in {"lock", "alloc"}
                            /\ x[2] \in 1 .. Len(bulk[x[1]])}

(* What in_flight counts: the slices without a slot, the slots handed out  *)
(* and not claimed, the slots claimed by calls that have not returned.     *)
Room ==
  /\ IsFiniteSet(PendingSlots)
  /\ in_flight = Cardinality(PendingSlots) + (alloc_ptr - done_ptr)
                   + Cardinality(Readers)
  /\ in_flight <= QueueSize

(* The slices of one producer, numbered from 1 to n, are n.                *)
LEMMA BulkCount ==
  ASSUME NEW p, NEW n \in Nat
  PROVE  /\ IsFiniteSet({p} \X (1 .. n))
         /\ Cardinality({p} \X (1 .. n)) = n
  <1>1. IsFiniteSet({p}) /\ Cardinality({p}) = 1
    BY FS_Singleton
  <1>2. IsFiniteSet(1 .. n) /\ Cardinality(1 .. n) = n
    BY FS_Interval
  <1>3. Cardinality({p} \X (1 .. n)) = Cardinality({p}) * Cardinality(1 .. n)
    BY <1>1, <1>2, FS_Product
  <1>4. IsFiniteSet({p} \X (1 .. n))
    BY <1>1, <1>2, FS_Product
  <1>5. QED BY <1>1, <1>2, <1>3, <1>4

(* How the slices without a slot change with a step.                       *)
LEMMA PendingStep ==
  ASSUME Locked, Locked', [Next]_vars, IsFiniteSet(PendingSlots)
  PROVE  /\ \A p \in Producers, b \in Bulks : CallEnqueueBulk(p, b) =>
              /\ IsFiniteSet(PendingSlots')
              /\ Cardinality(PendingSlots') = Cardinality(PendingSlots) + Len(b)
         /\ \A p \in Producers : AllocSlots(p) =>
              /\ IsFiniteSet(PendingSlots')
              /\ Cardinality(PendingSlots') = Cardinality(PendingSlots) - Len(bulk[p])
         /\ \A p \in Producers :
              LockEnqueue(p) \/ WriteSlot(p) \/ Publish(p) \/ UnlockEnqueue(p)
                => PendingSlots' = PendingSlots
         /\ \A c \in Consumers : Dequeue(c) => PendingSlots' = PendingSlots
         /\ UNCHANGED vars => PendingSlots' = PendingSlots
  <1>0. /\ \A p \in Producers : \A c \in Consumers : p # c
        /\ \A p \in Producers : Len(bulk[p]) \in Nat
        /\ \A b \in Bulks : Len(b) \in Nat
    BY ThreadsAssumption, BulkSeq DEF Locked, TypeOK
  <1>1. ASSUME NEW p \in Producers, NEW b \in Bulks, CallEnqueueBulk(p, b)
        PROVE  /\ IsFiniteSet(PendingSlots')
               /\ Cardinality(PendingSlots') = Cardinality(PendingSlots) + Len(b)
    <2> DEFINE new == {p} \X (1 .. Len(b))
    <2>1. /\ \A q \in Producers : q # p => pc'[q] = pc[q] /\ bulk'[q] = bulk[q]
          /\ pc[p] = "idle" /\ pc'[p] = "lock" /\ bulk'[p] = b
      BY <1>1 DEF Locked, TypeOK, CallEnqueueBulk, Goto
    <2>2. PendingSlots' = PendingSlots \cup new
      BY <1>0, <2>1 DEF PendingSlots
    <2>3. PendingSlots \cap new = {}
      BY <2>1 DEF PendingSlots
    <2>4. IsFiniteSet(new) /\ Cardinality(new) = Len(b)
      BY <1>0, BulkCount
    <2> HIDE DEF new
    <2>5. /\ IsFiniteSet(PendingSlots')
          /\ Cardinality(PendingSlots') =
               Cardinality(PendingSlots) + Cardinality(new) - Cardinality({})
      BY <2>2, <2>3, <2>4, FS_Union
    <2>6. Cardinality(PendingSlots) \in Nat
      BY FS_CardinalityType
    <2>7. QED BY <1>0, <2>4, <2>5, <2>6, FS_EmptySet
  <1>2. ASSUME NEW p \in Producers, AllocSlots(p)
        PROVE  /\ IsFiniteSet(PendingSlots')
               /\ Cardinality(PendingSlots') = Cardinality(PendingSlots) - Len(bulk[p])
    <2> DEFINE old == {p} \X (1 .. Len(bulk[p]))
    <2>1. /\ \A q \in Producers : q # p => pc'[q] = pc[q]
          /\ pc[p] = "alloc" /\ pc'[p] = "write" /\ bulk' = bulk
      BY <1>2 DEF Locked, TypeOK, AllocSlots, Goto
    <2>2. PendingSlots' = PendingSlots \ old
      BY <1>0, <2>1 DEF PendingSlots
    <2>3. PendingSlots \cap old = old
      BY <1>0, <2>1 DEF PendingSlots
    <2>4. Cardinality(old) = Len(bulk[p])
      BY <1>0, BulkCount
    <2> HIDE DEF old
    <2>5. /\ IsFiniteSet(PendingSlots \ old)
          /\ Cardinality(PendingSlots \ old) =
               Cardinality(PendingSlots) - Cardinality(PendingSlots \cap old)
      BY FS_Difference
    <2>6. QED BY <2>2, <2>3, <2>4, <2>5, Zenon
  <1>3. ASSUME \A q \in Producers :
                 pc'[q] \in {"lock", "alloc"} <=> pc[q] \in {"lock", "alloc"},
               bulk' = bulk
        PROVE  PendingSlots' = PendingSlots
    <2>1. \A x \in Producers \X Nat : x[1] \in Producers
      OBVIOUS
    <2>2. \A x \in Producers \X Nat :
            pc'[x[1]] \in {"lock", "alloc"} <=> pc[x[1]] \in {"lock", "alloc"}
      BY <1>3, <2>1
    <2>3. PendingSlots' = {x \in Producers \X Nat : /\ pc'[x[1]] \in {"lock", "alloc"}
                                                   /\ x[2] \in 1 .. Len(bulk'[x[1]])}
      BY DEF PendingSlots
    <2>4. \A x : x \in PendingSlots' <=> x \in PendingSlots
      BY <1>3, <2>2, <2>3 DEF PendingSlots
    <2>5. QED BY <2>4
  <1>4. ASSUME NEW p \in Producers,
               LockEnqueue(p) \/ WriteSlot(p) \/ Publish(p) \/ UnlockEnqueue(p)
        PROVE  PendingSlots' = PendingSlots
    <2>1. /\ \A q \in Producers :
               pc'[q] \in {"lock", "alloc"} <=> pc[q] \in {"lock", "alloc"}
          /\ bulk' = bulk
      BY <1>4 DEF Locked, TypeOK, LockEnqueue, WriteSlot, Publish, UnlockEnqueue,
           Goto, producerVars
    <2>2. QED BY <1>3, <2>1
  <1>5. ASSUME NEW c \in Consumers, Dequeue(c)
        PROVE  PendingSlots' = PendingSlots
    <2>1. /\ \A q \in Producers : pc'[q] = pc[q]
          /\ bulk' = bulk
      BY <1>0, <1>5 DEF Locked, TypeOK, Dequeue, TakeToken, LockDequeue, ClaimSlot,
           ReadSlot, UnlockDequeue, Goto, producerVars
    <2>2. QED BY <1>3, <2>1
  <1>6. ASSUME UNCHANGED vars
        PROVE  PendingSlots' = PendingSlots
    BY <1>6 DEF PendingSlots, vars, producerVars
  <1>7. QED BY <1>1, <1>2, <1>4, <1>5, <1>6

(* The empty ring has room.                                                *)
LEMMA RoomInit == Init => Room
  <1> SUFFICES ASSUME Init PROVE Room
    OBVIOUS
  <1>1. PendingSlots = {}
    BY ThreadsAssumption DEF Init, PendingSlots
  <1>2. Readers = {}
    BY ThreadsAssumption DEF Init, Readers
  <1>3. QueueSize \in Nat
    BY SizeAssumption DEF QueueSize
  <1>4. QED BY <1>1, <1>2, <1>3, FS_EmptySet DEF Init, Room

(* Every step keeps the slices outstanding within the ring.                *)
LEMMA RoomStep ==
  ASSUME Locked, Locked', Room, [Next]_vars
  PROVE  Room'
  <1> DEFINE m == Cardinality(PendingSlots)
             r == Cardinality(Readers)
  <1>0. /\ IsFiniteSet(PendingSlots)
        /\ m \in Nat /\ r \in Nat /\ QueueSize \in Nat
        /\ alloc_ptr \in Nat /\ done_ptr \in Nat /\ in_flight \in Int
        /\ in_flight = m + (alloc_ptr - done_ptr) + r
        /\ in_flight <= QueueSize
    <2>1. r \in Nat
      BY ThreadsAssumption, FS_Subset, FS_CardinalityType DEF Readers
    <2>2. QED BY <2>1, SizeAssumption, FS_CardinalityType DEF Locked, TypeOK, Room, QueueSize
  <1>1. ASSUME NEW p \in Producers, NEW b \in Bulks, CallEnqueueBulk(p, b)
        PROVE  Room'
    <2>1. IsFiniteSet(PendingSlots') /\ m' = m + Len(b)
      BY <1>0, <1>1, PendingStep
    <2>2. r' = r
      BY <1>1, HoldersStep
    <2>3. /\ in_flight' = in_flight + Len(b) /\ in_flight + Len(b) <= QueueSize
          /\ alloc_ptr' = alloc_ptr /\ done_ptr' = done_ptr
      BY <1>1 DEF CallEnqueueBulk, queueVars
    <2>4. Len(b) \in Nat
      BY BulkSeq
    <2>5. in_flight' = m' + (alloc_ptr' - done_ptr') + r' /\ in_flight' <= QueueSize
      <3> HIDE DEF m, r
      <3>1. QED BY <1>0, <2>1, <2>2, <2>3, <2>4
    <2>6. QED BY <2>1, <2>5 DEF Room, QueueSize
  <1>2. ASSUME NEW p \in Producers, AllocSlots(p)
        PROVE  Room'
    <2>1. IsFiniteSet(PendingSlots') /\ m' = m - Len(bulk[p])
      BY <1>0, <1>2, PendingStep
    <2>2. r' = r
      BY <1>2, HoldersStep DEF EnqueueBulk
    <2>3. /\ in_flight' = in_flight /\ done_ptr' = done_ptr
          /\ alloc_ptr' = alloc_ptr + Len(bulk[p])
      BY <1>2 DEF AllocSlots
    <2>4. Len(bulk[p]) \in Nat
      BY BulkSeq DEF Locked, TypeOK
    <2>5. in_flight' = m' + (alloc_ptr' - done_ptr') + r' /\ in_flight' <= QueueSize
      <3> DEFINE k == Len(bulk[p])
      <3>1. k \in Nat /\ m' = m - k /\ alloc_ptr' = alloc_ptr + k
        BY <2>1, <2>3, <2>4
      <3> HIDE DEF m, r, k
      <3>2. QED BY <1>0, <2>2, <2>3, <3>1
    <2>6. QED BY <2>1, <2>5 DEF Room, QueueSize
  <1>3. ASSUME NEW c \in Consumers, ClaimSlot(c)
        PROVE  Room'
    <2>1. PendingSlots' = PendingSlots
      BY <1>0, <1>3, PendingStep DEF Dequeue
    <2>2. r' = r + 1
      BY <1>3, HoldersStep
    <2>3. /\ in_flight' = in_flight /\ alloc_ptr' = alloc_ptr
          /\ done_ptr' = done_ptr + 1
      BY <1>3 DEF ClaimSlot
    <2>4. in_flight' = m + (alloc_ptr' - done_ptr') + r' /\ in_flight' <= QueueSize
      <3> HIDE DEF m, r
      <3>1. QED BY <1>0, <2>2, <2>3
    <2>5. QED BY <1>0, <2>1, <2>4 DEF Room, QueueSize
  <1>4. ASSUME NEW c \in Consumers, UnlockDequeue(c)
        PROVE  Room'
    <2>1. PendingSlots' = PendingSlots
      BY <1>0, <1>4, PendingStep DEF Dequeue
    <2>2. r' = r - 1
      BY <1>4, HoldersStep
    <2>3. /\ in_flight' = in_flight - 1 /\ alloc_ptr' = alloc_ptr
          /\ done_ptr' = done_ptr
      BY <1>4 DEF UnlockDequeue
    <2>4. in_flight' = m + (alloc_ptr' - done_ptr') + r' /\ in_flight' <= QueueSize
      <3> HIDE DEF m, r
      <3>1. QED BY <1>0, <2>2, <2>3
    <2>5. QED BY <1>0, <2>1, <2>4 DEF Room, QueueSize
  <1>5. ASSUME PendingSlots' = PendingSlots, r' = r, in_flight' = in_flight,
               alloc_ptr' = alloc_ptr, done_ptr' = done_ptr
        PROVE  Room'
    BY <1>5 DEF Room, QueueSize
  <1>6. ASSUME NEW p \in Producers,
               LockEnqueue(p) \/ WriteSlot(p) \/ Publish(p) \/ UnlockEnqueue(p)
        PROVE  Room'
    <2>1. PendingSlots' = PendingSlots
      BY <1>0, <1>6, PendingStep
    <2>2. r' = r
      BY <1>6, HoldersStep DEF EnqueueBulk
    <2>3. /\ in_flight' = in_flight /\ alloc_ptr' = alloc_ptr
          /\ done_ptr' = done_ptr
      BY <1>6 DEF LockEnqueue, WriteSlot, Publish, UnlockEnqueue
    <2>4. QED BY <1>5, <2>1, <2>2, <2>3
  <1>7. ASSUME NEW c \in Consumers, TakeToken(c) \/ LockDequeue(c) \/ ReadSlot(c)
        PROVE  Room'
    <2>1. PendingSlots' = PendingSlots
      BY <1>0, <1>7, PendingStep DEF Dequeue
    <2>2. r' = r
      BY <1>7, HoldersStep
    <2>3. /\ in_flight' = in_flight /\ alloc_ptr' = alloc_ptr
          /\ done_ptr' = done_ptr
      BY <1>7 DEF TakeToken, LockDequeue, ReadSlot, queueVars
    <2>4. QED BY <1>5, <2>1, <2>2, <2>3
  <1>8. CASE UNCHANGED vars
    <2>1. PendingSlots' = PendingSlots /\ r' = r
      BY <1>0, <1>8, PendingStep, HoldersStep
    <2>2. QED BY <1>5, <1>8, <2>1 DEF vars, queueVars
  <1>9. QED
    BY <1>1, <1>2, <1>3, <1>4, <1>6, <1>7, <1>8 DEF Next, EnqueueBulk, Dequeue
-----------------------------------------------------------------------------
(* The inductive invariant of the queue.                                   *)
IInv == Locked /\ Positions /\ TokenAccounting /\ Room

(* IInv always holds: the locks, positions, permits and room of the queue  *)
(* support each other.                                                     *)
THEOREM QueueInvariant == Spec => []IInv
  <1>1. Init => IInv
    BY LockedInit, PositionsInit, TokensInit, RoomInit DEF IInv
  <1>2. IInv /\ [Next]_vars => IInv'
    <2> SUFFICES ASSUME IInv, [Next]_vars PROVE IInv'
      OBVIOUS
    <2>1. Locked'
      BY LockedStep DEF IInv
    <2>2. Positions'
      BY <2>1, PositionsStep DEF IInv
    <2>3. TokenAccounting'
      BY <2>1, <2>2, TokensStep DEF IInv
    <2>4. Room'
      BY <2>1, RoomStep DEF IInv
    <2>5. QED BY <2>1, <2>2, <2>3, <2>4 DEF IInv
  <1>3. QED BY <1>1, <1>2, PTL DEF Spec

(* The tokens of sem_ and the slots stay in step (sem_ is signalled once   *)
(* for each slice of a bulk, done_ptr_ follows it), for every number of    *)
(* threads and every bulk.                                                 *)
THEOREM TokensAccounted == Spec => []TokenAccounting
  <1>1. IInv => TokenAccounting
    BY DEF IInv
  <1>2. QED BY QueueInvariant, <1>1, PTL

(* The slot a consumer has claimed lies below what is published.           *)
LEMMA ReadsBelowPublished == IInv => ReadsPublished
  <1> SUFFICES ASSUME IInv, NEW c \in Consumers, pc[c] = "read"
               PROVE  ptr[c] < Published
    BY DEF ReadsPublished
  <1> DEFINE n == Cardinality(Tokens)
  <1>1. n \in Nat
    BY ThreadsAssumption, FS_Subset, FS_CardinalityType DEF Tokens
  <1>2. done_ptr + n + sem = Published
    BY DEF IInv, TokenAccounting, Tokens
  <1>3. ptr[c] + 1 = done_ptr /\ ptr[c] \in Nat /\ sem \in Nat
    BY DEF IInv, Positions, Locked, TypeOK
  <1> HIDE DEF n
  <1>4. QED BY <1>1, <1>2, <1>3

(* A consumer never reads a slot that is allocated and half written,       *)
(* although alloc_ptr_ is advanced before the slots are written.           *)
THEOREM ReadsArePublished == Spec => []ReadsPublished
  BY QueueInvariant, ReadsBelowPublished, PTL

(* With at most a ring of slices outstanding, two live positions never     *)
(* share a slot.                                                           *)
LEMMA NoOverwriteFromRoom == IInv => NoOverwrite
  <1> SUFFICES ASSUME IInv, NEW p \in Producers, Writing(p),
                      NEW i \in written[p] .. Len(bulk[p]) - 1,
                      NEW q \in LivePositions
               PROVE  Slot(pos[p] + i) # Slot(q)
    BY DEF NoOverwrite
  <1> DEFINE m == Cardinality(PendingSlots)
             r == Cardinality(Readers)
             w == pos[p] + i
  <1>1. Published = pos[p]
    BY PublishedIs DEF IInv, PublishedEnd
  <1>2. /\ done_ptr \in Nat /\ alloc_ptr \in Nat /\ pos[p] \in Nat
        /\ written[p] \in Nat /\ Len(bulk[p]) \in Nat
        /\ pos[p] + Len(bulk[p]) = alloc_ptr
    BY BulkSeq DEF IInv, Locked, TypeOK, Positions
  <1>3. w \in Nat /\ pos[p] <= w /\ w <= alloc_ptr - 1
    BY <1>2
  <1>4. /\ IsFiniteSet(Readers) /\ r \in Nat /\ m \in Nat /\ QueueSize \in Nat
        /\ in_flight = m + (alloc_ptr - done_ptr) + r
        /\ in_flight <= QueueSize
    <2>1. IsFiniteSet(Readers)
      BY ThreadsAssumption, FS_Subset DEF Readers
    <2>2. QED BY <2>1, FS_CardinalityType, SizeAssumption DEF IInv, Room, QueueSize
  <1>5. CASE q \in done_ptr .. Published - 1
    <2>1. q \in Nat /\ q < w /\ done_ptr <= q
      BY <1>1, <1>2, <1>3, <1>5
    <2>2. w - q < QueueSize
      <3> HIDE DEF m, r, w
      <3>1. QED BY <1>2, <1>3, <1>4, <2>1
    <2> HIDE DEF w
    <2>3. QED BY <1>3, <2>1, <2>2, SlotsApart DEF w
  <1>6. CASE \E c \in Consumers : pc[c] = "read" /\ q = ptr[c]
    <2>1. PICK c \in Consumers : pc[c] = "read" /\ q = ptr[c]
      BY <1>6
    <2>2. q \in Nat /\ q + 1 = done_ptr /\ q < Published
      BY <2>1, ReadsBelowPublished DEF IInv, Locked, TypeOK, Positions, ReadsPublished
    <2>3. r >= 1
      <3>1. Readers # {} BY <2>1 DEF Readers
      <3>2. r # 0 BY <1>4, <3>1, FS_EmptySet
      <3> HIDE DEF r
      <3>3. QED BY <1>4, <3>2
    <2>4. q < w
      <3> HIDE DEF w
      <3>1. QED BY <1>1, <1>2, <1>3, <2>2
    <2>5. w - q < QueueSize
      <3>1. alloc_ptr - done_ptr <= QueueSize - 1
        <4> HIDE DEF m, r
        <4>1. QED BY <1>2, <1>4, <2>3
      <3>2. w - q <= alloc_ptr - done_ptr
        <4> HIDE DEF w
        <4>1. QED BY <1>2, <1>3, <2>2
      <3> HIDE DEF w
      <3>3. QED BY <1>2, <1>3, <1>4, <2>2, <3>1, <3>2
    <2> HIDE DEF w
    <2>6. QED BY <1>3, <2>2, <2>4, <2>5, SlotsApart DEF w
  <1>7. QED BY <1>5, <1>6 DEF LivePositions

(* No slot is overwritten before its slice is read, whatever the threads   *)
(* and the bulks, when the callers keep at most 2 * num_envs in flight.    *)
THEOREM NothingOverwritten == Spec => []NoOverwrite
  BY QueueInvariant, NoOverwriteFromRoom, PTL
-----------------------------------------------------------------------------
(* The queue implements the atomic first-in first-out queue.  IInv says    *)
(* where the slices may be, Stored what is there: the slots written so far *)
(* hold the slices of the bulk, and the live positions hold slices.        *)
Stored ==
  /\ \A p \in Producers : Writing(p) =>
       \A i \in 0 .. written[p] - 1 : queue[Slot(pos[p] + i)] = bulk[p][i + 1]
  /\ \A q \in LivePositions : queue[Slot(q)] \in Slices
  /\ \A c \in Consumers : pc[c] = "unlock" => ret[c] \in Slices

(* How far apart the counters are: done_ptr follows what is published, and *)
(* all that is allocated and not claimed fits into the ring.               *)
LEMMA Counters ==
  ASSUME IInv
  PROVE  /\ Published \in Nat /\ done_ptr \in Nat /\ alloc_ptr \in Nat
         /\ QueueSize \in Nat \ {0}
         /\ done_ptr <= Published
         /\ alloc_ptr - done_ptr <= QueueSize
         /\ \A c \in Consumers : HoldsToken(c) => done_ptr < Published
  <1> DEFINE n == Cardinality(Tokens)
             m == Cardinality(PendingSlots)
             r == Cardinality(Readers)
  <1>1. IsFiniteSet(Tokens) /\ IsFiniteSet(Readers) /\ IsFiniteSet(PendingSlots)
    BY ThreadsAssumption, FS_Subset DEF Tokens, Readers, IInv, Room
  <1>2. n \in Nat /\ r \in Nat /\ m \in Nat /\ QueueSize \in Nat \ {0}
    BY <1>1, FS_CardinalityType, SizeAssumption DEF QueueSize
  <1>3. done_ptr \in Nat /\ alloc_ptr \in Nat /\ sem \in Nat
    BY DEF IInv, Locked, TypeOK
  <1>4. done_ptr + n + sem = Published
    BY DEF IInv, TokenAccounting, Tokens
  <1>5. in_flight = m + (alloc_ptr - done_ptr) + r /\ in_flight <= QueueSize
    BY DEF IInv, Room
  <1>6. ASSUME NEW c \in Consumers, HoldsToken(c) PROVE n # 0
    <2>1. Tokens # {}
      BY <1>6 DEF Tokens
    <2>2. QED BY <1>1, <2>1, FS_EmptySet
  <1> HIDE DEF n, m, r
  <1>7. \A c \in Consumers : HoldsToken(c) => done_ptr < Published
    BY <1>2, <1>3, <1>4, <1>6
  <1>8. QED BY <1>2, <1>3, <1>4, <1>5, <1>7

(* Nothing is stored at first.                                             *)
LEMMA StoredInit == Init => Stored
  <1> SUFFICES ASSUME Init PROVE Stored
    OBVIOUS
  <1>1. \A p \in Producers : ~Writing(p)
    BY DEF Init, Writing
  <1>2. Published = 0
    BY <1>1, LockedInit, PublishedIs DEF Init, PublishedEnd
  <1>3. \A c \in Consumers : pc[c] = "token"
    BY ThreadsAssumption DEF Init
  <1>4. LivePositions = {}
    <2>1. done_ptr = 0 /\ 0 .. 0 - 1 = {}
      BY DEF Init
    <2>2. {ptr[c] : c \in {d \in Consumers : pc[d] = "read"}} = {}
      BY <1>3
    <2>3. QED BY <1>2, <2>1, <2>2 DEF LivePositions
  <1>5. QED BY <1>1, <1>3, <1>4 DEF Stored

(* The slots written before one of the same bulk are others.               *)
LEMMA BulkSlotsApart ==
  ASSUME IInv, NEW p \in Producers, Writing(p), NEW i \in Nat, NEW j \in Nat,
         i < j, j < Len(bulk[p])
  PROVE  Slot(pos[p] + i) # Slot(pos[p] + j)
  <1>1. pos[p] \in Nat /\ pos[p] + Len(bulk[p]) = alloc_ptr /\ Len(bulk[p]) \in Nat
    BY BulkSeq DEF IInv, Locked, TypeOK, Positions
  <1>2. Published = pos[p]
    BY PublishedIs DEF IInv, PublishedEnd
  <1>3. Len(bulk[p]) <= QueueSize
    BY <1>1, <1>2, Counters
  <1>4. /\ pos[p] + i \in Nat /\ pos[p] + j \in Nat /\ pos[p] + i < pos[p] + j
        /\ (pos[p] + j) - (pos[p] + i) < QueueSize
    <2> DEFINE l == Len(bulk[p])
               b == pos[p]
    <2>1. l \in Nat /\ l <= QueueSize /\ QueueSize \in Nat /\ j < l /\ b \in Nat
      BY <1>1, <1>3, Counters
    <2> HIDE DEF l, b
    <2>2. /\ b + i \in Nat /\ b + j \in Nat /\ b + i < b + j
          /\ (b + j) - (b + i) < QueueSize
      BY <2>1
    <2>3. QED BY <2>2 DEF b
  <1>5. QED BY <1>4, SlotsApart

(* Writing a slot leaves the live ones and the earlier ones of its bulk    *)
(* alone.                                                                  *)
LEMMA StoredWrite ==
  ASSUME IInv, IInv', Stored, NEW p \in Producers, WriteSlot(p)
  PROVE  /\ Stored'
         /\ \A q \in LivePositions : queue'[Slot(q)] = queue[Slot(q)]
         /\ LivePositions' = LivePositions /\ Published' = Published
  <1> DEFINE w == written[p]
             k == Slot(pos[p] + w)
             v == bulk[p][w + 1]
  <1>1. /\ Writing(p) /\ w < Len(bulk[p]) /\ queue' = [queue EXCEPT ![k] = v]
        /\ written' = [written EXCEPT ![p] = w + 1]
        /\ UNCHANGED <<alloc_ptr, done_ptr, sem, pc, bulk, pos, ptr, ret>>
    BY DEF WriteSlot, Writing, consumerVars
  <1>2. /\ w \in Nat /\ pos[p] \in Nat /\ Len(bulk[p]) \in Nat
        /\ queue \in [Indices -> Slices \cup {NoSlice}]
        /\ written \in [Producers -> Nat]
    BY BulkSeq DEF IInv, Locked, TypeOK
  <1>3. k \in Indices
    BY <1>2, SlotIndex
  <1>4. Published' = Published
    <2>1. EnqueueBulk(p) /\ [Next]_vars
      BY DEF EnqueueBulk, Next
    <2>2. QED BY <2>1, PublishedStep DEF IInv
  <1>5. LivePositions' = LivePositions
    BY <1>1, <1>4 DEF LivePositions
  <1>6. \A q \in LivePositions : k # Slot(q)
    <2>1. w \in w .. Len(bulk[p]) - 1
      BY <1>1, <1>2
    <2>2. QED BY <1>1, <2>1, NoOverwriteFromRoom DEF NoOverwrite
  <1>7. \A q \in LivePositions : q \in Nat
    BY Counters DEF LivePositions, IInv, Locked, TypeOK
  <1>8. \A q \in LivePositions : queue'[Slot(q)] = queue[Slot(q)]
    BY <1>1, <1>2, <1>3, <1>6, <1>7, SlotIndex
  <1>9. ASSUME NEW r \in Producers, Writing(r)', NEW i \in 0 .. written'[r] - 1
        PROVE  queue'[Slot(pos'[r] + i)] = bulk'[r][i + 1]
    <2>1. Writing(r) /\ r = p
      BY <1>1, <1>9 DEF IInv, Locked, Mutex, InEnqueue, Writing
    <2>2. written'[p] = w + 1 /\ i \in 0 .. w /\ i \in Nat /\ pos[p] + i \in Nat
      BY <1>1, <1>2, <2>1
    <2>3. Slot(pos[p] + i) \in Indices
      BY <2>2, SlotIndex
    <2>4. CASE i = w
      BY <1>1, <1>2, <1>3, <2>1, <2>4
    <2>5. CASE i < w
      <3>1. Slot(pos[p] + i) # k
        BY <1>1, <1>2, <2>2, <2>5, BulkSlotsApart
      <3>2. i \in 0 .. w - 1
        BY <1>2, <2>2, <2>5
      <3>3. queue[Slot(pos[p] + i)] = bulk[p][i + 1]
        BY <1>1, <3>2 DEF Stored
      <3>4. queue'[Slot(pos[p] + i)] = queue[Slot(pos[p] + i)]
        BY <1>1, <1>2, <1>3, <2>3, <3>1
      <3>5. QED BY <1>1, <2>1, <3>3, <3>4
    <2>6. QED BY <1>2, <2>2, <2>4, <2>5
  <1>10. Stored'
    <2>1. \A q \in LivePositions' : queue'[Slot(q)] \in Slices
      BY <1>5, <1>8 DEF Stored
    <2>2. \A c \in Consumers : pc'[c] = "unlock" => ret'[c] \in Slices
      BY <1>1 DEF Stored
    <2>3. QED BY <1>9, <2>1, <2>2 DEF Stored, Slot, QueueSize
  <1>11. QED BY <1>4, <1>5, <1>8, <1>10

(* A bulk published is live from then on, with the slices that were        *)
(* written.                                                                *)
LEMMA StoredPublish ==
  ASSUME IInv, IInv', Stored, NEW p \in Producers, Publish(p)
  PROVE  /\ Stored'
         /\ Published' = Published + Len(bulk[p]) /\ Published = pos[p]
         /\ \A i \in 0 .. Len(bulk[p]) - 1 :
              queue[Slot(Published + i)] = bulk[p][i + 1]
  <1>1. /\ Writing(p) /\ written[p] = Len(bulk[p]) /\ ~Writing(p)'
        /\ UNCHANGED <<alloc_ptr, done_ptr, queue, bulk, pos, written, ptr, ret>>
    BY DEF Publish, Goto, Writing, producerVars, consumerVars, IInv, Locked, TypeOK
  <1>2. Published = pos[p]
    BY <1>1, PublishedIs DEF IInv, PublishedEnd
  <1>3. Published' = Published + Len(bulk[p])
    <2>1. EnqueueBulk(p) /\ [Next]_vars
      BY DEF EnqueueBulk, Next
    <2>2. QED BY <2>1, PublishedStep DEF IInv
  <1>4. \A i \in 0 .. Len(bulk[p]) - 1 : queue[Slot(Published + i)] = bulk[p][i + 1]
    BY <1>1, <1>2 DEF Stored
  <1>5. \A c \in Consumers : pc'[c] = pc[c]
    BY ThreadsAssumption DEF Publish, Goto, IInv, Locked, TypeOK
  <1>6. /\ Len(bulk[p]) \in Nat
        /\ \A k \in 1 .. Len(bulk[p]) : bulk[p][k] \in Slices
    BY BulkSeq DEF IInv, Locked, TypeOK
  <1>7. ASSUME NEW q \in LivePositions' PROVE queue'[Slot(q)] \in Slices
    <2>1. CASE q \in LivePositions
      BY <1>1, <2>1 DEF Stored
    <2>2. CASE q \notin LivePositions
      <3>1. q \in done_ptr .. (Published + Len(bulk[p])) - 1
            /\ q \notin done_ptr .. Published - 1
        BY <1>1, <1>3, <1>5, <2>2 DEF LivePositions
      <3> DEFINE i == q - Published
      <3>2. i \in 0 .. Len(bulk[p]) - 1 /\ i + 1 \in 1 .. Len(bulk[p])
            /\ Published + i = q
        <4> DEFINE l == Len(bulk[p])
        <4>1. /\ l \in Nat /\ Published \in Nat /\ done_ptr \in Nat
              /\ done_ptr <= Published
          BY <1>6, Counters
        <4>2. /\ q \in done_ptr .. (Published + l) - 1
              /\ q \notin done_ptr .. Published - 1
          BY <3>1
        <4> HIDE DEF l
        <4>3. q \in Int /\ Published <= q /\ q <= Published + l - 1
          BY <4>1, <4>2
        <4>4. i \in 0 .. l - 1 /\ i + 1 \in 1 .. l /\ Published + i = q
          BY <4>1, <4>3
        <4>5. QED BY <4>4 DEF l
      <3>3. queue[Slot(q)] = bulk[p][i + 1]
        BY <1>4, <3>2
      <3>4. QED BY <1>1, <1>6, <3>2, <3>3
    <2>3. QED BY <2>1, <2>2
  <1>8. \A r \in Producers : ~Writing(r)'
    BY <1>1 DEF IInv, Locked, TypeOK, Mutex, InEnqueue, Writing, Publish, Goto
  <1>9. \A c \in Consumers : pc'[c] = "unlock" => ret'[c] \in Slices
    BY <1>1, <1>5 DEF Stored
  <1>10. Stored'
    BY <1>7, <1>8, <1>9 DEF Stored, Slot, QueueSize
  <1>11. QED BY <1>2, <1>3, <1>4, <1>10

(* Claiming a slot moves its position from the published to the one read.  *)
LEMMA ClaimLive ==
  ASSUME IInv, IInv', NEW c \in Consumers, ClaimSlot(c)
  PROVE  /\ done_ptr < Published /\ Published' = Published
         /\ LivePositions' \subseteq LivePositions
  <1>1. Published' = Published
    <2>1. Dequeue(c) /\ [Next]_vars
      BY DEF Dequeue, Next
    <2>2. QED BY <2>1, PublishedStep DEF IInv
  <1>2. done_ptr < Published
    BY Counters DEF ClaimSlot, Goto, HoldsToken
  <1>3. /\ done_ptr' = done_ptr + 1 /\ ptr'[c] = done_ptr
        /\ \A d \in Consumers : pc'[d] = "read" => d = c
    BY DEF ClaimSlot, Goto, IInv, Locked, TypeOK, Mutex, InDequeue
  <1>4. done_ptr \in done_ptr .. Published - 1
    BY <1>2, Counters
  <1>5. done_ptr + 1 .. Published - 1 \subseteq done_ptr .. Published - 1
    BY Counters
  <1>6. LivePositions' \subseteq LivePositions
    BY <1>1, <1>3, <1>4, <1>5 DEF LivePositions
  <1>7. QED BY <1>1, <1>2, <1>6

(* The slices stay stored with every step.                                 *)
LEMMA StoredStep ==
  ASSUME IInv, IInv', Stored, [Next]_vars
  PROVE  Stored'
  <1>0. /\ \A p \in Producers : \A c \in Consumers : p # c
        /\ pc \in [Producers \cup Consumers -> ProducerSteps \cup ConsumerSteps]
        /\ ret \in [Consumers -> Slices \cup {NoSlice}]
    BY ThreadsAssumption DEF IInv, Locked, TypeOK
  <1>1. ASSUME \A p \in Producers : Writing(p)' => Writing(p),
               UNCHANGED <<queue, bulk, pos, written>>,
               LivePositions' \subseteq LivePositions,
               \A c \in Consumers : pc'[c] = "unlock" => ret'[c] \in Slices
        PROVE  Stored'
    <2>1. \A p \in Producers : Writing(p)' =>
            \A i \in 0 .. written'[p] - 1 :
              queue'[Slot(pos'[p] + i)] = bulk'[p][i + 1]
      BY <1>1 DEF Stored
    <2>2. \A q \in LivePositions' : queue'[Slot(q)] \in Slices
      BY <1>1 DEF Stored
    <2>3. QED BY <1>1, <2>1, <2>2 DEF Stored, Slot, QueueSize
  <1>2. ASSUME Published' = Published, UNCHANGED <<done_ptr, ptr>>,
               \A c \in Consumers : pc'[c] = "read" => pc[c] = "read"
        PROVE  LivePositions' \subseteq LivePositions
    BY <1>2 DEF LivePositions
  <1>3. ASSUME NEW p \in Producers,
               \/ LockEnqueue(p) \/ UnlockEnqueue(p)
               \/ \E b \in Bulks : CallEnqueueBulk(p, b)
        PROVE  Stored'
    <2>1. Published' = Published
      BY <1>3, PublishedStep DEF IInv
    <2>2. /\ \A c \in Consumers : pc'[c] = pc[c]
          /\ \A q \in Producers : Writing(q)' <=> Writing(q)
          /\ \A q \in Producers : Writing(q) => bulk'[q] = bulk[q]
          /\ UNCHANGED <<queue, pos, written, done_ptr, ptr, ret>>
      BY <1>0, <1>3 DEF LockEnqueue, UnlockEnqueue, CallEnqueueBulk, Goto, Writing,
           producerVars, consumerVars, queueVars, IInv, Locked, TypeOK
    <2>3. LivePositions' \subseteq LivePositions
      BY <1>2, <2>1, <2>2
    <2>4. \A q \in Producers : Writing(q)' =>
            \A i \in 0 .. written'[q] - 1 :
              queue'[Slot(pos'[q] + i)] = bulk'[q][i + 1]
      BY <2>2 DEF Stored
    <2>5. /\ \A q \in LivePositions' : queue'[Slot(q)] \in Slices
          /\ \A c \in Consumers : pc'[c] = "unlock" => ret'[c] \in Slices
      BY <2>2, <2>3 DEF Stored
    <2>6. QED BY <2>4, <2>5 DEF Stored, Slot, QueueSize
  <1>4. ASSUME NEW p \in Producers, AllocSlots(p)
        PROVE  Stored'
    <2>1. Published' = Published
      BY <1>4, PublishedStep DEF IInv
    <2>2. /\ \A c \in Consumers : pc'[c] = pc[c]
          /\ \A q \in Producers : Writing(q)' => q = p
          /\ written'[p] = 0
          /\ UNCHANGED <<queue, done_ptr, ptr, ret>>
      BY <1>0, <1>4 DEF AllocSlots, Goto, Writing, Mutex, InEnqueue, consumerVars,
           IInv, Locked, TypeOK
    <2>3. LivePositions' \subseteq LivePositions
      BY <1>2, <2>1, <2>2
    <2>4. \A q \in Producers : Writing(q)' =>
            \A i \in 0 .. written'[q] - 1 :
              queue'[Slot(pos'[q] + i)] = bulk'[q][i + 1]
      BY <2>2
    <2>5. /\ \A q \in LivePositions' : queue'[Slot(q)] \in Slices
          /\ \A c \in Consumers : pc'[c] = "unlock" => ret'[c] \in Slices
      BY <2>2, <2>3 DEF Stored
    <2>6. QED BY <2>4, <2>5 DEF Stored, Slot, QueueSize
  <1>5. ASSUME NEW p \in Producers, WriteSlot(p) \/ Publish(p)
        PROVE  Stored'
    BY <1>5, StoredWrite, StoredPublish
  <1>6. ASSUME NEW c \in Consumers, Dequeue(c)
        PROVE  Stored'
    <2>1. /\ \A p \in Producers : Writing(p)' <=> Writing(p)
          /\ UNCHANGED <<queue, bulk, pos, written>>
      BY <1>0, <1>6 DEF Dequeue, TakeToken, LockDequeue, ClaimSlot, ReadSlot,
           UnlockDequeue, Goto, Writing, queueVars, producerVars
    <2>2. Published' = Published
      BY <1>6, PublishedStep DEF IInv
    <2>3. CASE ClaimSlot(c)
      <3>1. \A d \in Consumers : pc'[d] = "unlock" => ret'[d] \in Slices
        BY <1>0, <2>3 DEF ClaimSlot, Goto, Stored
      <3>2. QED BY <1>1, <2>1, <2>3, <3>1, ClaimLive
    <2>4. CASE ReadSlot(c)
      <3>1. UNCHANGED <<done_ptr, ptr>> /\ pc[c] = "read"
            /\ pc' = [pc EXCEPT ![c] = "unlock"]
            /\ ret' = [ret EXCEPT ![c] = queue[Slot(ptr[c])]]
        BY <2>4 DEF ReadSlot, Goto, queueVars
      <3>2. queue[Slot(ptr[c])] \in Slices
        BY <3>1 DEF Stored, LivePositions
      <3>3. \A d \in Consumers : pc'[d] = "unlock" => ret'[d] \in Slices
        BY <1>0, <3>1, <3>2 DEF Stored
      <3>4. LivePositions' \subseteq LivePositions
        BY <1>0, <1>2, <2>2, <3>1
      <3>5. QED BY <1>1, <2>1, <3>3, <3>4
    <2>5. CASE TakeToken(c) \/ LockDequeue(c) \/ UnlockDequeue(c)
      <3>1. /\ UNCHANGED <<done_ptr, ptr, ret>>
            /\ \A d \in Consumers : /\ pc'[d] = "unlock" => pc[d] = "unlock"
                                    /\ pc'[d] = "read" => pc[d] = "read"
        BY <1>0, <2>5 DEF TakeToken, LockDequeue, UnlockDequeue, Goto, consumerVars
      <3>2. LivePositions' \subseteq LivePositions
        BY <1>2, <2>2, <3>1
      <3>3. \A d \in Consumers : pc'[d] = "unlock" => ret'[d] \in Slices
        BY <3>1 DEF Stored
      <3>4. QED BY <1>1, <2>1, <3>2, <3>3
    <2>6. QED BY <1>6, <2>3, <2>4, <2>5 DEF Dequeue
  <1>7. CASE UNCHANGED vars
    <2>1. Published' = Published
      BY <1>7, PublishedStep DEF IInv
    <2>2. UNCHANGED <<queue, bulk, pos, written, done_ptr, ptr, ret, pc>>
      BY <1>7 DEF vars, queueVars, producerVars, consumerVars
    <2>3. LivePositions' \subseteq LivePositions
      BY <1>2, <2>1, <2>2
    <2>4. QED BY <1>1, <2>2, <2>3 DEF Stored, Writing
  <1>8. QED
    BY <1>3, <1>4, <1>5, <1>6, <1>7 DEF Next, EnqueueBulk

-----------------------------------------------------------------------------
(* The slices published and not claimed are a sequence of slices.          *)
LEMMA ContentsSeq ==
  ASSUME IInv, Stored
  PROVE  /\ Contents \in Seq(Slices)
         /\ Len(Contents) = Published - done_ptr
         /\ \A k \in 1 .. Published - done_ptr :
              Contents[k] = queue[Slot(done_ptr + k - 1)]
  <1> DEFINE n == Published - done_ptr
  <1>1. n \in Nat
    BY Counters
  <1>2. ASSUME NEW k \in 1 .. n PROVE queue[Slot(done_ptr + k - 1)] \in Slices
    <2>1. done_ptr + k - 1 \in done_ptr .. Published - 1
      BY Counters
    <2>2. QED BY <2>1 DEF Stored, LivePositions
  <1>3. Contents = [k \in 1 .. n |-> queue[Slot(done_ptr + k - 1)]]
    BY DEF Contents
  <1> HIDE DEF n
  <1>4. Contents \in [1 .. n -> Slices]
    BY <1>2, <1>3
  <1>5. Contents \in Seq(Slices) /\ Len(Contents) = n
    BY <1>1, <1>4, LenProperties
  <1>6. QED BY <1>3, <1>5 DEF n

(* Steps that leave the published slots as they are leave the contents.    *)
LEMMA ContentsSame ==
  ASSUME IInv, Published' = Published, done_ptr' = done_ptr,
         \A q \in LivePositions : queue'[Slot(q)] = queue[Slot(q)]
  PROVE  Contents' = Contents
  <1>1. ASSUME NEW k \in 1 .. Published - done_ptr
        PROVE  queue'[Slot(done_ptr + k - 1)] = queue[Slot(done_ptr + k - 1)]
    <2>1. done_ptr + k - 1 \in LivePositions
      BY Counters DEF LivePositions
    <2>2. QED BY <2>1
  <1>2. QED BY <1>1 DEF Contents, Slot, QueueSize

(* Publishing a bulk is putting it: behind what is queued, as a whole, and *)
(* within the capacity.                                                    *)
LEMMA PublishIsPut ==
  ASSUME IInv, IInv', Stored, Stored', NEW p \in Producers, Publish(p)
  PROVE  /\ Contents' = Contents \o bulk[p]
         /\ Len(Contents) + Len(bulk[p]) <= QueueSize
  <1> DEFINE b == bulk[p]
             n == Published - done_ptr
             l == Len(b)
  <1>1. /\ Published' = Published + l /\ Published = pos[p]
        /\ \A i \in 0 .. l - 1 : queue[Slot(Published + i)] = b[i + 1]
    BY StoredPublish
  <1>2. /\ queue' = queue /\ done_ptr' = done_ptr /\ Writing(p)
        /\ alloc_ptr' = alloc_ptr
    BY DEF Publish, Goto, Writing
  <1>3. l \in Nat /\ b \in Seq(Slices)
    <2>1. b \in Bulks \cup {<<>>}
      BY DEF IInv, Locked, TypeOK
    <2>2. b = <<>> \/ \E j \in BulkLengths : b \in [1 .. j -> Slices]
      BY <2>1 DEF Bulks
    <2>3. b \in Seq(Slices)
      <3>1. CASE b = <<>>
        BY <3>1
      <3>2. ASSUME NEW j \in BulkLengths, b \in [1 .. j -> Slices]
            PROVE  b \in Seq(Slices)
        <4>1. j \in Nat
          BY SizeAssumption
        <4> HIDE DEF b
        <4>2. QED BY <3>2, <4>1
      <3>3. QED BY <2>2, <3>1, <3>2
    <2>4. QED BY <2>3, LenProperties
  <1>4. /\ Contents \in Seq(Slices) /\ Len(Contents) = n
        /\ \A k \in 1 .. n : Contents[k] = queue[Slot(done_ptr + k - 1)]
    BY ContentsSeq
  <1>5. n \in Nat /\ done_ptr \in Nat /\ Published \in Nat
    BY Counters
  <1>6. Contents' = [k \in 1 .. n + l |-> queue[Slot(done_ptr + k - 1)]]
    <2>1. Published' - done_ptr' = n + l
      BY <1>1, <1>2, <1>3, <1>5
    <2>2. QED BY <1>2, <2>1 DEF Contents, Slot, QueueSize
  <1> HIDE DEF n, l, b
  <1>7. /\ Contents \o b \in Seq(Slices) /\ Len(Contents \o b) = n + l
        /\ \A k \in 1 .. n + l :
             (Contents \o b)[k] = IF k <= n THEN Contents[k] ELSE b[k - n]
    <2>1. Len(b) = l
      BY DEF l
    <2>2. QED BY <1>3, <1>4, <2>1, ConcatProperties, Zenon
  <1>8. ASSUME NEW k \in 1 .. n + l
        PROVE  (Contents \o b)[k] = queue[Slot(done_ptr + k - 1)]
    <2>1. CASE k <= n
      <3>1. k \in 1 .. n
        BY <1>5, <2>1
      <3>2. QED BY <1>4, <1>7, <2>1, <3>1
    <2>2. CASE k > n
      <3> DEFINE i == k - n - 1
      <3>0. (Contents \o b)[k] = b[k - n]
        BY <1>5, <1>7, <2>2
      <3>1. /\ i \in 0 .. l - 1 /\ Published + i = done_ptr + k - 1
            /\ i + 1 = k - n
        BY <1>3, <1>5, <2>2 DEF n
      <3>2. QED BY <1>1, <3>0, <3>1
    <2>3. k <= n \/ k > n
      BY <1>3, <1>5
    <2>4. QED BY <2>1, <2>2, <2>3
  <1>9. Contents' = Contents \o b
    <2>1. Contents \o b \in [1 .. n + l -> Slices]
      BY <1>7, LenProperties
    <2>2. QED BY <1>6, <1>8, <2>1
  <1>10. n + l <= QueueSize
    <2>1. Published + l = alloc_ptr
      BY <1>1, <1>2 DEF IInv, Positions, b, l
    <2>2. alloc_ptr - done_ptr <= QueueSize /\ alloc_ptr \in Nat /\ QueueSize \in Nat
      BY Counters
    <2>3. QED BY <1>3, <1>5, <2>1, <2>2 DEF n
  <1>11. QED BY <1>4, <1>9, <1>10 DEF b, l

(* Claiming a slot is taking the oldest slice.                             *)
LEMMA ClaimIsTake ==
  ASSUME IInv, IInv', Stored, Stored', NEW c \in Consumers, ClaimSlot(c)
  PROVE  /\ Contents # <<>> /\ Head(Contents) = queue[Slot(done_ptr)]
         /\ Contents' = Tail(Contents)
  <1> DEFINE n == Published - done_ptr
  <1>1. done_ptr < Published /\ Published' = Published
    BY ClaimLive
  <1>2. queue' = queue /\ done_ptr' = done_ptr + 1
    BY DEF ClaimSlot
  <1>3. /\ Contents \in Seq(Slices) /\ Len(Contents) = n
        /\ \A k \in 1 .. n : Contents[k] = queue[Slot(done_ptr + k - 1)]
    BY ContentsSeq
  <1>4. n \in Nat /\ n > 0 /\ done_ptr \in Nat
    BY <1>1, Counters
  <1>5. Contents # <<>>
    BY <1>3, <1>4, EmptySeq
  <1>6. /\ Head(Contents) = Contents[1] /\ Len(Tail(Contents)) = n - 1
        /\ Tail(Contents) \in Seq(Slices)
        /\ \A k \in 1 .. n - 1 : Tail(Contents)[k] = Contents[k + 1]
    BY <1>3, <1>5, HeadTailProperties
  <1>7. Head(Contents) = queue[Slot(done_ptr)]
    <2>1. 1 \in 1 .. n /\ done_ptr + 1 - 1 = done_ptr
      BY <1>4
    <2>2. QED BY <1>3, <1>6, <2>1
  <1>8. Contents' = [k \in 1 .. n - 1 |-> queue[Slot((done_ptr + 1) + k - 1)]]
    <2>1. Published' - done_ptr' = n - 1
      BY <1>1, <1>2, <1>4, Counters
    <2>2. QED BY <1>2, <2>1 DEF Contents, Slot, QueueSize
  <1>9. ASSUME NEW k \in 1 .. n - 1
        PROVE  Tail(Contents)[k] = queue[Slot((done_ptr + 1) + k - 1)]
    <2>1. k + 1 \in 1 .. n /\ done_ptr + (k + 1) - 1 = (done_ptr + 1) + k - 1
      BY <1>4
    <2>2. QED BY <1>3, <1>6, <2>1
  <1>10. Tail(Contents) = [k \in 1 .. n - 1 |-> Tail(Contents)[k]]
    BY <1>4, <1>6, LenProperties
  <1>11. QED BY <1>5, <1>7, <1>8, <1>9, <1>10

(* The abstract hands follow a consumer's steps: a slice is in its hand    *)
(* from the claim of its slot until the call returns.                      *)
LEMMA HandStep ==
  ASSUME IInv, IInv', NEW c \in Consumers
  PROVE  /\ ClaimSlot(c) => /\ Hand[c] = NoSlice
                            /\ Hand' = [Hand EXCEPT ![c] = queue[Slot(done_ptr)]]
         /\ ReadSlot(c) => Hand' = Hand
         /\ UnlockDequeue(c) => /\ Hand[c] = ret[c]
                                /\ Hand' = [Hand EXCEPT ![c] = NoSlice]
         /\ TakeToken(c) \/ LockDequeue(c) => Hand' = Hand
  <1>0. /\ pc \in [Producers \cup Consumers -> ProducerSteps \cup ConsumerSteps]
        /\ ret \in [Consumers -> Slices \cup {NoSlice}]
        /\ ptr \in [Consumers -> Nat]
    BY DEF IInv, Locked, TypeOK
  <1>1. ASSUME ClaimSlot(c)
        PROVE  /\ Hand[c] = NoSlice
               /\ Hand' = [Hand EXCEPT ![c] = queue[Slot(done_ptr)]]
    <2>1. /\ pc[c] = "claim" /\ pc' = [pc EXCEPT ![c] = "read"]
          /\ ptr' = [ptr EXCEPT ![c] = done_ptr] /\ UNCHANGED <<queue, ret>>
      BY <1>1 DEF ClaimSlot, Goto
    <2>2. QED BY <1>0, <2>1 DEF Hand, Slot, QueueSize
  <1>2. ASSUME ReadSlot(c) PROVE Hand' = Hand
    <2>1. /\ pc[c] = "read" /\ pc' = [pc EXCEPT ![c] = "unlock"]
          /\ ret' = [ret EXCEPT ![c] = queue[Slot(ptr[c])]]
          /\ UNCHANGED <<queue, ptr>>
      BY <1>2 DEF ReadSlot, Goto, queueVars
    <2>2. QED BY <1>0, <2>1 DEF Hand, Slot, QueueSize
  <1>3. ASSUME UnlockDequeue(c)
        PROVE  Hand[c] = ret[c] /\ Hand' = [Hand EXCEPT ![c] = NoSlice]
    <2>1. /\ pc[c] = "unlock" /\ pc' = [pc EXCEPT ![c] = "token"]
          /\ UNCHANGED <<queue, ptr, ret>>
      BY <1>3 DEF UnlockDequeue, Goto, consumerVars
    <2>2. QED BY <1>0, <2>1 DEF Hand, Slot, QueueSize
  <1>4. ASSUME TakeToken(c) \/ LockDequeue(c) PROVE Hand' = Hand
    <2>1. /\ pc[c] \in {"token", "lock"}
          /\ pc' = [pc EXCEPT ![c] = "lock"] \/ pc' = [pc EXCEPT ![c] = "claim"]
          /\ UNCHANGED <<queue, ptr, ret>>
      BY <1>4 DEF TakeToken, LockDequeue, Goto, consumerVars
    <2>2. QED BY <1>0, <2>1 DEF Hand, Slot, QueueSize
  <1>5. QED BY <1>1, <1>2, <1>3, <1>4

(* A producer's steps leave every hand as it is: what a consumer is about  *)
(* to read is live, and nobody writes there.                               *)
LEMMA HandProducer ==
  ASSUME IInv, IInv', \A c \in Consumers : pc'[c] = pc[c],
         UNCHANGED <<ptr, ret>>,
         \A q \in LivePositions : queue'[Slot(q)] = queue[Slot(q)]
  PROVE  Hand' = Hand
  <1>1. ASSUME NEW c \in Consumers, pc[c] = "read"
        PROVE  queue'[Slot(ptr[c])] = queue[Slot(ptr[c])]
    BY <1>1 DEF LivePositions
  <1>2. QED BY <1>1 DEF Hand, Slot, QueueSize

(* The empty ring is the empty queue.                                      *)
LEMMA FifoInit == Init => Fifo!Init
  <1> SUFFICES ASSUME Init PROVE Fifo!Init
    OBVIOUS
  <1>1. \A p \in Producers : ~Writing(p)
    BY DEF Init, Writing
  <1>2. Published = 0 /\ done_ptr = 0
    BY <1>1, LockedInit, PublishedIs DEF Init, PublishedEnd
  <1>3. Contents = <<>>
    BY <1>2 DEF Contents
  <1>4. \A c \in Consumers : pc[c] = "token"
    BY ThreadsAssumption DEF Init
  <1>5. Hand = [c \in Consumers |-> NoSlice]
    BY <1>4 DEF Hand
  <1>6. QED BY <1>3, <1>5 DEF Fifo!Init

(* Every step of the threads is a step of the abstract queue or none.      *)
LEMMA FifoStep ==
  ASSUME IInv, IInv', Stored, Stored', [Next]_vars
  PROVE  [Fifo!Next]_(Fifo!vars)
  <1>0. /\ \A p \in Producers : \A c \in Consumers : p # c
        /\ pc \in [Producers \cup Consumers -> ProducerSteps \cup ConsumerSteps]
    BY ThreadsAssumption DEF IInv, Locked, TypeOK
  <1>1. ASSUME UNCHANGED <<Contents, Hand>> PROVE [Fifo!Next]_(Fifo!vars)
    BY <1>1 DEF Fifo!vars
  <1>2. ASSUME NEW p \in Producers, Publish(p)
        PROVE  [Fifo!Next]_(Fifo!vars)
    <2>1. /\ \A c \in Consumers : pc'[c] = pc[c]
          /\ UNCHANGED <<queue, ptr, ret>>
      BY <1>0, <1>2 DEF Publish, Goto, consumerVars
    <2>2. Hand' = Hand
      BY <2>1, HandProducer
    <2>3. CASE bulk[p] \in Bulks
      <3>1. Fifo!Put(bulk[p])
        BY <1>2, <2>2, PublishIsPut DEF Fifo!Put
      <3>2. QED BY <2>3, <3>1 DEF Fifo!Next, Fifo!Bulks, Bulks
    <2>4. CASE bulk[p] = <<>>
      <3>1. Contents \in Seq(Slices)
        BY ContentsSeq
      <3>2. Contents' = Contents
        BY <1>2, <2>4, <3>1, PublishIsPut, ConcatEmptySeq
      <3>3. QED BY <1>1, <2>2, <3>2
    <2>5. QED BY <2>3, <2>4 DEF IInv, Locked, TypeOK
  <1>3. ASSUME NEW p \in Producers,
               \/ LockEnqueue(p) \/ AllocSlots(p) \/ WriteSlot(p) \/ UnlockEnqueue(p)
               \/ \E b \in Bulks : CallEnqueueBulk(p, b)
        PROVE  [Fifo!Next]_(Fifo!vars)
    <2>1. /\ \A c \in Consumers : pc'[c] = pc[c]
          /\ UNCHANGED <<done_ptr, ptr, ret>>
          /\ ~WriteSlot(p) => queue' = queue
      BY <1>0, <1>3 DEF LockEnqueue, AllocSlots, WriteSlot, UnlockEnqueue,
           CallEnqueueBulk, Goto, queueVars, consumerVars
    <2>2. Published' = Published
      BY <1>3, PublishedStep DEF IInv
    <2>3. \A q \in LivePositions : queue'[Slot(q)] = queue[Slot(q)]
      BY <2>1, StoredWrite
    <2>4. Contents' = Contents
      BY <2>1, <2>2, <2>3, ContentsSame
    <2>5. Hand' = Hand
      BY <2>1, <2>3, HandProducer
    <2>6. QED BY <1>1, <2>4, <2>5
  <1>4. ASSUME NEW c \in Consumers, Dequeue(c), ~ClaimSlot(c)
        PROVE  Contents' = Contents
    <2>1. UNCHANGED <<queue, done_ptr>>
      BY <1>4 DEF Dequeue, TakeToken, LockDequeue, ReadSlot, UnlockDequeue, queueVars
    <2>2. Published' = Published
      BY <1>4, PublishedStep DEF IInv
    <2>3. QED BY <2>1, <2>2, ContentsSame
  <1>5. ASSUME NEW c \in Consumers, Dequeue(c)
        PROVE  [Fifo!Next]_(Fifo!vars)
    <2>1. CASE ClaimSlot(c)
      <3>1. Fifo!Take(c)
        BY <2>1, ClaimIsTake, HandStep DEF Fifo!Take
      <3>2. QED BY <3>1 DEF Fifo!Next
    <2>2. CASE UnlockDequeue(c)
      <3>1. ret[c] \in Slices
        BY <2>2 DEF UnlockDequeue, Goto, Stored
      <3>2. ~ClaimSlot(c)
        BY <2>2 DEF UnlockDequeue, ClaimSlot, Goto
      <3>3. Fifo!Leave(c)
        BY <1>4, <1>5, <2>2, <3>1, <3>2, HandStep, SliceAssumption DEF Fifo!Leave
      <3>4. QED BY <3>3 DEF Fifo!Next
    <2>3. CASE TakeToken(c) \/ LockDequeue(c) \/ ReadSlot(c)
      <3>1. ~ClaimSlot(c)
        BY <2>3 DEF TakeToken, LockDequeue, ReadSlot, ClaimSlot, Goto
      <3>2. QED BY <1>1, <1>4, <1>5, <2>3, <3>1, HandStep
    <2>4. QED BY <1>5, <2>1, <2>2, <2>3 DEF Dequeue
  <1>6. CASE UNCHANGED vars
    <2>1. UNCHANGED <<queue, done_ptr, ptr, ret, pc>>
      BY <1>6 DEF vars, queueVars, consumerVars
    <2>2. Published' = Published
      BY <1>6, PublishedStep DEF IInv
    <2>3. Contents' = Contents
      BY <2>1, <2>2, ContentsSame
    <2>4. Hand' = Hand
      BY <2>1, HandProducer
    <2>5. QED BY <1>1, <2>3, <2>4
  <1>7. QED
    BY <1>2, <1>3, <1>5, <1>6 DEF Next, EnqueueBulk

(* EnqueueBulk and Dequeue together are an atomic first-in first-out queue *)
(* of the ring's capacity: the slices of a bulk stay together and in       *)
(* order, each is handed to one consumer, and none is lost or overwritten, *)
(* for any number of threads.  A bulk is put when its tokens are released, *)
(* a slice taken when done_ptr_ passes its slot.                           *)
THEOREM FifoImplemented == Spec => ImplementsFifo
  <1>1. Init => Stored
    BY StoredInit
  <1>2. IInv /\ IInv' /\ Stored /\ [Next]_vars => Stored'
    BY StoredStep
  <1>3. Spec => []Stored
    BY <1>1, <1>2, QueueInvariant, PTL DEF Spec
  <1>4. IInv /\ IInv' /\ Stored /\ Stored' /\ [Next]_vars => [Fifo!Next]_(Fifo!vars)
    BY FifoStep
  <1>5. QED
    BY FifoInit, <1>3, <1>4, QueueInvariant, PTL DEF Spec, ImplementsFifo, Fifo!Spec

-----------------------------------------------------------------------------
(***************************************************************************)
(* The other ring of the pool, CircularBuffer, which holds the stock of    *)
(* fresh state buffers.  Slot accounting holds for every number of         *)
(* threads, values and slots.  With one putter and one getter the buffer   *)
(* is also proved to hand out every value, in order and untouched, from an *)
(* invariant that says what each slot holds (Serial).                      *)
(***************************************************************************)
CB == INSTANCE CircularBuffer

(* What the buffer assumes of its constants.                               *)
StockAssumption == CB!SizeAssumption /\ CB!ThreadsAssumption /\ CB!ValuesAssumption

LEMMA StockFacts ==
  ASSUME StockAssumption
  PROVE  /\ Size \in Nat \ {0} /\ MaxPuts \in Nat
         /\ IsFiniteSet(Putters) /\ IsFiniteSet(Getters) /\ Putters \cap Getters = {}
         /\ Empty \notin Values
  BY DEF StockAssumption, CB!SizeAssumption, CB!ThreadsAssumption, CB!ValuesAssumption,
     CB!IsFiniteSet, IsFiniteSet

(* Sets have the same size in the buffer.                                  *)
LEMMA StockCount ==
  CB!SlotAccounting <=> sem_get + sem_put + Cardinality(CB!Inside(CB!Threads)) = Size
  BY DEF CB!SlotAccounting, CB!Cardinality, Cardinality

(* A slot's number is an index of the buffer. *)
LEMMA StockSlot == ASSUME StockAssumption, NEW p \in Nat PROVE CB!Offset(p) \in 0 .. Size - 1
  BY StockFacts DEF CB!Offset

(* The values the threads carry: the strengthening of TypeOK. *)
StockTyped ==
  /\ CB!TypeOK
  /\ \A t \in Putters : at[t] # "wait" => arg[t] \in Values
  /\ Len(placed) = tail

(* The variables start typed.                                              *)
LEMMA StockTypedInit ==
  ASSUME StockAssumption
  PROVE  CB!Init => StockTyped
  BY StockFacts, EmptySeq DEF CB!Init, StockTyped, CB!TypeOK, CB!Threads, CB!Steps

(* A step of a putter keeps the types. *)
LEMMA StockTypedPut ==
  ASSUME StockAssumption, StockTyped, NEW t \in Putters, CB!Put(t)
  PROVE  StockTyped'
  <1> USE DEF StockTyped, CB!TypeOK
  <1>0. t \in CB!Threads /\ t \notin Getters
    BY StockFacts DEF CB!Threads
  <1>1. CASE \E v \in Values : CB!WaitPut(t, v)
    BY <1>0, <1>1 DEF CB!WaitPut, CB!Goto, CB!Steps
  <1>2. CASE CB!ClaimTail(t)
    <2>1. /\ arg[t] \in Values /\ at' = [at EXCEPT ![t] = "move"]
          /\ tail' = tail + 1 /\ placed' = Append(placed, arg[t])
          /\ place' = [place EXCEPT ![t] = tail]
          /\ UNCHANGED <<sem_get, sem_put, buffer, head, arg, got>>
      BY <1>2 DEF CB!ClaimTail, CB!Goto
    <2>2. placed' \in Seq(Values) /\ Len(placed') = Len(placed) + 1
      BY <2>1, AppendProperties
    <2>3. QED BY <1>0, <2>1, <2>2 DEF CB!Steps
  <1>3. CASE CB!MoveIn(t)
    <2>1. /\ arg[t] \in Values /\ CB!Offset(place[t]) \in 0 .. Size - 1
          /\ at' = [at EXCEPT ![t] = "signal"]
          /\ buffer' = [buffer EXCEPT ![CB!Offset(place[t])] = arg[t]]
          /\ UNCHANGED <<sem_get, sem_put, head, tail, arg, place, got, placed>>
      BY <1>0, <1>3, StockSlot DEF CB!MoveIn, CB!Goto
    <2>2. QED BY <1>0, <2>1 DEF CB!Steps
  <1>4. CASE CB!SignalGet(t)
    BY <1>0, <1>4 DEF CB!SignalGet, CB!Goto, CB!Steps
  <1>5. QED BY <1>1, <1>2, <1>3, <1>4 DEF CB!Put

(* A step of a getter keeps the types. *)
LEMMA StockTypedGet ==
  ASSUME StockAssumption, StockTyped, NEW t \in Getters, CB!Get(t)
  PROVE  StockTyped'
  <1> USE DEF StockTyped, CB!TypeOK
  <1>0. t \in CB!Threads /\ t \notin Putters
    BY StockFacts DEF CB!Threads
  <1>1. CASE CB!WaitGet(t)
    BY <1>0, <1>1 DEF CB!WaitGet, CB!Goto, CB!Steps
  <1>2. CASE CB!ClaimHead(t)
    BY <1>0, <1>2 DEF CB!ClaimHead, CB!Goto, CB!Steps
  <1>3. CASE CB!MoveOut(t)
    <2>1. /\ CB!Offset(place[t]) \in 0 .. Size - 1
          /\ at' = [at EXCEPT ![t] = "signal"]
          /\ got' = [got EXCEPT ![t] = buffer[CB!Offset(place[t])]]
          /\ buffer' = [buffer EXCEPT ![CB!Offset(place[t])] = Empty]
          /\ UNCHANGED <<sem_get, sem_put, head, tail, arg, place, placed>>
      BY <1>0, <1>3, StockSlot DEF CB!MoveOut, CB!Goto
    <2>2. QED BY <1>0, <2>1 DEF CB!Steps
  <1>4. CASE CB!SignalPut(t)
    BY <1>0, <1>4 DEF CB!SignalPut, CB!Goto, CB!Steps
  <1>5. QED BY <1>1, <1>2, <1>3, <1>4 DEF CB!Get

(* Every step keeps the types.                                             *)
LEMMA StockTypedStep ==
  ASSUME StockAssumption
  PROVE  StockTyped /\ [CB!Next]_(CB!vars) => StockTyped'
  <1>1. ASSUME StockTyped, UNCHANGED CB!vars PROVE StockTyped'
    BY <1>1 DEF StockTyped, CB!TypeOK, CB!vars
  <1>2. QED BY <1>1, StockTypedPut, StockTypedGet DEF CB!Next

(* Type correctness of the buffer, its semaphores included: neither count  *)
(* ever goes below zero.                                                   *)
THEOREM StockTypeCorrect ==
  ASSUME StockAssumption
  PROVE  CB!Spec => []CB!TypeOK
  <1>1. StockTyped => CB!TypeOK
    BY DEF StockTyped
  <1>2. QED BY StockTypedInit, StockTypedStep, <1>1, PTL DEF CB!Spec

-----------------------------------------------------------------------------
(* Entering a call counts one more thread inside, leaving it one less.     *)
LEMMA InsideCount ==
  ASSUME StockAssumption, StockTyped, NEW t \in CB!Threads, NEW s \in CB!Steps,
         at' = [at EXCEPT ![t] = s]
  PROVE  /\ at[t] = "wait" /\ s # "wait" =>
              Cardinality(CB!Inside(CB!Threads)') = Cardinality(CB!Inside(CB!Threads)) + 1
         /\ at[t] # "wait" /\ s = "wait" =>
              Cardinality(CB!Inside(CB!Threads)') = Cardinality(CB!Inside(CB!Threads)) - 1
         /\ at[t] # "wait" /\ s # "wait" =>
              Cardinality(CB!Inside(CB!Threads)') = Cardinality(CB!Inside(CB!Threads))
  <1>1. IsFiniteSet(CB!Inside(CB!Threads))
    <2>1. IsFiniteSet(CB!Threads)
      BY StockFacts, FS_Union DEF CB!Threads
    <2>2. QED BY <2>1, FS_Subset DEF CB!Inside
  <1>2. at \in [CB!Threads -> CB!Steps]
    BY DEF StockTyped, CB!TypeOK
  <1>3. CASE at[t] = "wait" /\ s # "wait"
    <2>1. CB!Inside(CB!Threads)' = CB!Inside(CB!Threads) \cup {t} /\ t \notin CB!Inside(CB!Threads)
      BY <1>2, <1>3 DEF CB!Inside
    <2>2. QED BY <1>1, <1>3, <2>1, FS_AddElement
  <1>4. CASE at[t] # "wait" /\ s = "wait"
    <2>1. CB!Inside(CB!Threads)' = CB!Inside(CB!Threads) \ {t} /\ t \in CB!Inside(CB!Threads)
      BY <1>2, <1>4 DEF CB!Inside
    <2>2. QED BY <1>1, <1>4, <2>1, FS_RemoveElement
  <1>5. CASE at[t] # "wait" /\ s # "wait"
    <2>1. CB!Inside(CB!Threads)' = CB!Inside(CB!Threads)
      BY <1>2, <1>5 DEF CB!Inside
    <2>2. QED BY <1>5, <2>1
  <1>6. QED BY <1>3, <1>4, <1>5

(* All slots are free at first and no thread is inside a call.             *)
LEMMA AccountingInit ==
  ASSUME StockAssumption
  PROVE  CB!Init => CB!SlotAccounting
  <1> SUFFICES ASSUME CB!Init PROVE CB!SlotAccounting
    OBVIOUS
  <1>1. CB!Inside(CB!Threads) = {}
    BY DEF CB!Init, CB!Inside
  <1>2. QED BY <1>1, FS_EmptySet, StockFacts, StockCount DEF CB!Init

(* Every step moves a slot between the semaphores and the threads inside,  *)
(* and loses none.                                                         *)
LEMMA AccountingStep ==
  ASSUME StockAssumption, StockTyped, CB!SlotAccounting, [CB!Next]_(CB!vars)
  PROVE  CB!SlotAccounting'
  <1> DEFINE n == Cardinality(CB!Inside(CB!Threads))
  <1>0. /\ sem_get \in Nat /\ sem_put \in Nat /\ n \in Nat
        /\ sem_get + sem_put + n = Size
        /\ Putters \subseteq CB!Threads /\ Getters \subseteq CB!Threads
        /\ {"wait", "claim", "move", "signal"} = CB!Steps
    <2>1. IsFiniteSet(CB!Threads)
      BY StockFacts, FS_Union DEF CB!Threads
    <2>2. n \in Nat
      BY <2>1, FS_Subset, FS_CardinalityType DEF CB!Inside
    <2>3. QED BY <2>2, StockCount DEF StockTyped, CB!TypeOK, CB!Threads, CB!Steps
  <1>1. SUFFICES sem_get' + sem_put' + n' = Size
    BY DEF CB!SlotAccounting, CB!Cardinality, Cardinality
  <1>2. ASSUME NEW t \in CB!Threads,
               \/ CB!ClaimTail(t) \/ CB!MoveIn(t) \/ CB!ClaimHead(t) \/ CB!MoveOut(t)
        PROVE  sem_get' + sem_put' + n' = Size
    <2>1. n' = n
      BY <1>0, <1>2, InsideCount DEF CB!ClaimTail, CB!MoveIn, CB!ClaimHead, CB!MoveOut, CB!Goto
    <2>2. sem_get' = sem_get /\ sem_put' = sem_put
      BY <1>2 DEF CB!ClaimTail, CB!MoveIn, CB!ClaimHead, CB!MoveOut
    <2>3. QED BY <1>0, <2>1, <2>2
  <1>3. ASSUME NEW t \in CB!Threads, CB!WaitGet(t) \/ \E v \in Values : CB!WaitPut(t, v)
        PROVE  sem_get' + sem_put' + n' = Size
    <2>1. n' = n + 1
      BY <1>0, <1>3, InsideCount DEF CB!WaitGet, CB!WaitPut, CB!Goto
    <2>2. \/ sem_get' = sem_get - 1 /\ sem_put' = sem_put
          \/ sem_get' = sem_get /\ sem_put' = sem_put - 1
      BY <1>3 DEF CB!WaitGet, CB!WaitPut
    <2> HIDE DEF n
    <2>3. QED BY <1>0, <2>1, <2>2
  <1>4. ASSUME NEW t \in CB!Threads, CB!SignalGet(t) \/ CB!SignalPut(t)
        PROVE  sem_get' + sem_put' + n' = Size
    <2>1. n' = n - 1
      BY <1>0, <1>4, InsideCount DEF CB!SignalGet, CB!SignalPut, CB!Goto
    <2>2. \/ sem_get' = sem_get + 1 /\ sem_put' = sem_put
          \/ sem_get' = sem_get /\ sem_put' = sem_put + 1
      BY <1>4 DEF CB!SignalGet, CB!SignalPut
    <2> HIDE DEF n
    <2>3. QED BY <1>0, <2>1, <2>2
  <1>5. CASE UNCHANGED CB!vars
    BY <1>0, <1>5 DEF CB!vars, CB!Inside
  <1>6. QED
    BY <1>0, <1>2, <1>3, <1>4, <1>5 DEF CB!Next, CB!Put, CB!Get

(* No slot is ever lost between the two semaphores and the threads inside, *)
(* however many threads put and get.                                       *)
THEOREM SlotsAccounted ==
  ASSUME StockAssumption
  PROVE  CB!Spec => []CB!SlotAccounting
  <1>1. CB!Init => StockTyped /\ CB!SlotAccounting
    BY StockTypedInit, AccountingInit
  <1>2. StockTyped /\ CB!SlotAccounting /\ [CB!Next]_(CB!vars) => StockTyped' /\ CB!SlotAccounting'
    BY StockTypedStep, AccountingStep
  <1>3. QED BY <1>1, <1>2, PTL DEF CB!Spec

-----------------------------------------------------------------------------
(* One putter and one getter. *)

OneIf(b) == IF b THEN 1 ELSE 0

(* The positions whose value has been stored and not moved out yet run     *)
(* from FirstStored to LastStored.                                                     *)
FirstStored(g) == head - OneIf(at[g] = "move")
LastStored(p)  == tail - 1 - OneIf(at[p] = "move")

Counted(p, g) ==
  /\ sem_get + sem_put + OneIf(at[p] # "wait") + OneIf(at[g] # "wait") = Size
  /\ tail - head = sem_get + OneIf(at[p] \in {"move", "signal"}) + OneIf(at[g] = "claim")
  /\ at[p] \in {"move", "signal"} => place[p] + 1 = tail
  /\ at[g] \in {"move", "signal"} => place[g] + 1 = head

InPlace(p, g) ==
  /\ \A q \in FirstStored(g) .. LastStored(p) : buffer[CB!Offset(q)] = placed[q + 1]
  /\ \A i \in 0 .. Size - 1 :
       buffer[i] = Empty \/ \E q \in FirstStored(g) .. LastStored(p) : CB!Offset(q) = i
  /\ at[g] = "signal" => got[g] = placed[place[g] + 1]
  /\ at[p] = "move" => arg[p] = placed[tail]

Serial(p, g) == StockTyped /\ Counted(p, g) /\ InPlace(p, g)

(* The buffer of one putter and one getter starts empty.                   *)
LEMMA SerialInit ==
  ASSUME StockAssumption, NEW p, NEW g, Putters = {p}, Getters = {g}, CB!Init
  PROVE  Serial(p, g)
  <1>0. p \in CB!Threads /\ g \in CB!Threads
    BY DEF CB!Threads
  <1>1. at[p] = "wait" /\ at[g] = "wait"
    BY <1>0 DEF CB!Init
  <1>2. Counted(p, g)
    BY <1>1, StockFacts DEF CB!Init, Counted, OneIf
  <1>3. InPlace(p, g)
    BY <1>1 DEF CB!Init, InPlace, FirstStored, LastStored, OneIf
  <1>4. QED BY StockTypedInit, <1>2, <1>3 DEF Serial

(* The stored positions are less than a round apart, also from the one     *)
(* that is about to be stored.                                             *)
LEMMA StockWindow ==
  ASSUME StockAssumption, NEW p, NEW g, Putters = {p}, Getters = {g}, Serial(p, g)
  PROVE  /\ FirstStored(g) \in Nat /\ LastStored(p) \in Int /\ tail \in Nat /\ head \in Nat
         /\ sem_get \in Nat /\ sem_put \in Nat
         /\ place[p] \in Nat /\ place[g] \in Nat
         /\ head <= tail
         /\ LastStored(p) + 1 - FirstStored(g) <= Size
         /\ at[p] = "move" => LastStored(p) + 2 - FirstStored(g) <= Size
         /\ at[g] = "move" => FirstStored(g) <= LastStored(p) /\ FirstStored(g) = place[g]
  <1>1. /\ sem_get \in Nat /\ sem_put \in Nat /\ head \in Nat /\ tail \in Nat
        /\ place[p] \in Nat /\ place[g] \in Nat
        /\ at[p] \in CB!Steps /\ at[g] \in CB!Steps
    BY DEF Serial, StockTyped, CB!TypeOK, CB!Threads
  <1>2. /\ Size \in Nat
        /\ at[p] \in {"wait", "claim", "move", "signal"}
        /\ at[g] \in {"wait", "claim", "move", "signal"}
    BY <1>1, StockFacts DEF CB!Steps
  <1>3. Counted(p, g)
    BY DEF Serial
  <1>4. CASE at[g] = "move"
    BY <1>1, <1>2, <1>3, <1>4 DEF Counted, OneIf, FirstStored, LastStored
  <1>5. CASE at[g] # "move"
    BY <1>1, <1>2, <1>3, <1>5 DEF Counted, OneIf, FirstStored, LastStored
  <1>6. QED BY <1>4, <1>5

(* Positions less than a ring apart have different slots.                  *)
LEMMA StockSlotsApart ==
  ASSUME StockAssumption, NEW p, NEW g, Putters = {p}, Getters = {g}, Serial(p, g)
  PROVE  /\ \A q, r \in FirstStored(g) .. LastStored(p) : q # r => CB!Offset(q) # CB!Offset(r)
         /\ at[p] = "move" =>
              \A q \in FirstStored(g) .. LastStored(p) : CB!Offset(q) # CB!Offset(place[p])
  <1> DEFINE a == FirstStored(g)
             b == LastStored(p)
  <1>1. /\ a \in Nat /\ b \in Int /\ b + 1 - a <= Size
        /\ at[p] = "move" => b + 2 - a <= Size
        /\ at[p] = "move" => place[p] = b + 1
        /\ place[p] \in Nat
    BY StockWindow DEF Serial, Counted, LastStored, OneIf
  <1>2. Size \in Nat \ {0}
    BY StockFacts
  <1> HIDE DEF a, b
  <1>3. ASSUME NEW q \in Nat, NEW r \in Nat, q < r, r - q < Size
        PROVE  CB!Offset(q) # CB!Offset(r)
    BY <1>2, <1>3, PositionsApart DEF CB!Offset
  <1>4. ASSUME NEW q \in a .. b, NEW r \in a .. b, q # r
        PROVE  CB!Offset(q) # CB!Offset(r)
    <2>1. q \in Nat /\ r \in Nat /\ r - q < Size /\ q - r < Size
      BY <1>1, <1>2
    <2>2. CASE q < r
      BY <1>3, <2>1, <2>2
    <2>3. CASE r < q
      BY <1>3, <2>1, <2>3
    <2>4. QED BY <1>4, <2>1, <2>2, <2>3
  <1>5. ASSUME at[p] = "move", NEW q \in a .. b
        PROVE  CB!Offset(q) # CB!Offset(place[p])
    <2>1. q \in Nat /\ q < place[p] /\ place[p] - q < Size
      BY <1>1, <1>2, <1>5
    <2>2. QED BY <1>1, <1>3, <2>1
  <1>6. QED BY <1>4, <1>5 DEF a, b

(* The counters, step by step.                                             *)
LEMMA SerialCountedStep ==
  ASSUME StockAssumption, NEW p, NEW g, Putters = {p}, Getters = {g},
         Serial(p, g), [CB!Next]_(CB!vars)
  PROVE  Counted(p, g)'
  <1>0. /\ sem_get \in Nat /\ sem_put \in Nat /\ head \in Nat /\ tail \in Nat
        /\ place[p] \in Nat /\ place[g] \in Nat /\ Size \in Nat
        /\ p \in CB!Threads /\ g \in CB!Threads /\ p # g
        /\ at \in [CB!Threads -> CB!Steps] /\ place \in [CB!Threads -> Nat]
    BY StockFacts DEF Serial, StockTyped, CB!TypeOK, CB!Threads
  <1>1. Counted(p, g)
    BY DEF Serial
  <1> USE DEF Counted, OneIf
  <1>2. CASE \E v \in Values : CB!WaitPut(p, v)
    BY <1>0, <1>1, <1>2 DEF CB!WaitPut, CB!Goto
  <1>3. CASE CB!ClaimTail(p)
    BY <1>0, <1>1, <1>3 DEF CB!ClaimTail, CB!Goto
  <1>4. CASE CB!MoveIn(p)
    BY <1>0, <1>1, <1>4 DEF CB!MoveIn, CB!Goto
  <1>5. CASE CB!SignalGet(p)
    BY <1>0, <1>1, <1>5 DEF CB!SignalGet, CB!Goto
  <1>6. CASE CB!WaitGet(g)
    BY <1>0, <1>1, <1>6 DEF CB!WaitGet, CB!Goto
  <1>7. CASE CB!ClaimHead(g)
    BY <1>0, <1>1, <1>7 DEF CB!ClaimHead, CB!Goto
  <1>8. CASE CB!MoveOut(g)
    BY <1>0, <1>1, <1>8 DEF CB!MoveOut, CB!Goto
  <1>9. CASE CB!SignalPut(g)
    BY <1>0, <1>1, <1>9 DEF CB!SignalPut, CB!Goto
  <1>10. CASE UNCHANGED CB!vars
    BY <1>1, <1>10 DEF CB!vars
  <1>11. QED
    BY <1>2, <1>3, <1>4, <1>5, <1>6, <1>7, <1>8, <1>9, <1>10 DEF CB!Next, CB!Put, CB!Get

(* Storing a value at the end of the window, moving one out at its start.  *)
LEMMA SerialStoredStep ==
  ASSUME StockAssumption, NEW p, NEW g, Putters = {p}, Getters = {g},
         Serial(p, g), StockTyped', [CB!Next]_(CB!vars)
  PROVE  InPlace(p, g)'
  <1> DEFINE a == FirstStored(g)
             b == LastStored(p)
  <1>0. /\ head \in Nat /\ tail \in Nat /\ Size \in Nat
        /\ place[p] \in Nat /\ place[g] \in Nat
        /\ p \in CB!Threads /\ g \in CB!Threads /\ p # g
        /\ at \in [CB!Threads -> CB!Steps] /\ place \in [CB!Threads -> Nat]
        /\ buffer \in [0 .. Size - 1 -> Values \cup {Empty}]
        /\ got \in [{g} -> Values \cup {Empty}]
        /\ placed \in Seq(Values) /\ Len(placed) = tail
    BY StockFacts DEF Serial, StockTyped, CB!TypeOK, CB!Threads
  <1>1. /\ a \in Nat /\ b \in Int /\ head <= tail /\ b <= tail - 1
        /\ at[g] \in {"move", "signal"} => place[g] + 1 = head
        /\ at[p] \in {"move", "signal"} => place[p] + 1 = tail
        /\ at[g] = "move" => a = place[g] /\ a <= b
    <2>1. Counted(p, g)
      BY DEF Serial
    <2>2. /\ a \in Nat /\ b \in Int /\ head <= tail
          /\ at[g] = "move" => a <= b /\ a = place[g]
      BY StockWindow
    <2>3. b <= tail - 1
      BY <1>0 DEF LastStored, OneIf
    <2>4. /\ at[g] \in {"move", "signal"} => place[g] + 1 = head
          /\ at[p] \in {"move", "signal"} => place[p] + 1 = tail
      BY <2>1 DEF Counted
    <2> HIDE DEF a, b
    <2>5. QED BY <2>2, <2>3, <2>4
  <1>2. InPlace(p, g)
    BY DEF Serial
  <1>3. ASSUME a' = a, b' = b, UNCHANGED <<buffer, placed, got, arg, tail>>,
               at'[g] = "signal" => at[g] = "signal" /\ place'[g] = place[g],
               at'[p] = "move" => at[p] = "move"
        PROVE  InPlace(p, g)'
    BY <1>2, <1>3 DEF InPlace
  <1>4. CASE \E v \in Values : CB!WaitPut(p, v)
    <2>1. /\ a' = a /\ b' = b /\ at'[g] = at[g] /\ at'[p] = "claim" /\ place' = place
          /\ UNCHANGED <<buffer, placed, got, tail>>
      BY <1>0, <1>4 DEF CB!WaitPut, CB!Goto, FirstStored, LastStored, OneIf
    <2> HIDE DEF a, b
    <2>2. QED BY <1>2, <2>1 DEF InPlace, a, b
  <1>5. CASE CB!ClaimTail(p)
    <2>1. /\ a' = a /\ b' = b /\ at'[g] = at[g] /\ place'[g] = place[g]
          /\ tail' = tail + 1 /\ placed' = Append(placed, arg[p])
          /\ UNCHANGED <<buffer, got, arg>>
      BY <1>0, <1>5 DEF CB!ClaimTail, CB!Goto, FirstStored, LastStored, OneIf
    <2>2. /\ \A k \in 1 .. tail : placed'[k] = placed[k]
          /\ placed'[tail'] = arg[p]
      <3>1. arg[p] \in Values
        BY <1>5 DEF CB!ClaimTail, CB!Goto, Serial, StockTyped
      <3>2. QED BY <1>0, <2>1, <3>1, AppendProperties
    <2>3. \A q \in a .. b : buffer[CB!Offset(q)] = placed'[q + 1]
      <3>1. \A q \in a .. b : buffer[CB!Offset(q)] = placed[q + 1] /\ q + 1 \in 1 .. tail
        BY <1>0, <1>1, <1>2 DEF InPlace
      <3>2. QED BY <2>2, <3>1
    <2>4. at[g] = "signal" => got[g] = placed'[place[g] + 1]
      <3>1. at[g] = "signal" => place[g] + 1 \in 1 .. tail
        BY <1>0, <1>1
      <3>2. QED BY <1>2, <2>2, <3>1 DEF InPlace
    <2> HIDE DEF a, b
    <2>5. QED BY <1>2, <2>1, <2>2, <2>3, <2>4 DEF InPlace, a, b
  <1>6. CASE CB!MoveIn(p)
    <2>1. /\ a' = a /\ b = tail - 2 /\ b' = tail - 1 /\ place[p] = tail - 1
          /\ at[p] = "move" /\ at'[p] = "signal" /\ at'[g] = at[g]
          /\ buffer' = [buffer EXCEPT ![CB!Offset(place[p])] = arg[p]]
          /\ UNCHANGED <<placed, got, arg, tail, place>>
      BY <1>0, <1>1, <1>6 DEF CB!MoveIn, CB!Goto, FirstStored, LastStored, OneIf
    <2>2. CB!Offset(place[p]) \in 0 .. Size - 1
      BY <1>0, StockSlot
    <2>3. buffer'[CB!Offset(place[p])] = placed[place[p] + 1]
      BY <1>0, <1>2, <2>1, <2>2 DEF InPlace
    <2>4. \A i \in 0 .. Size - 1 : i # CB!Offset(place[p]) => buffer'[i] = buffer[i]
      BY <1>0, <2>1
    <2>5. \A q \in a .. b : /\ CB!Offset(q) # CB!Offset(place[p])
                            /\ CB!Offset(q) \in 0 .. Size - 1
      BY <1>1, <2>1, StockSlotsApart, StockSlot
    <2>6. \A q \in a' .. b' : buffer'[CB!Offset(q)] = placed'[q + 1]
      <3>1. \A q \in a' .. b' : q = place[p] \/ q \in a .. b
        BY <1>0, <1>1, <2>1
      <3>2. QED BY <1>2, <2>1, <2>3, <2>4, <2>5, <3>1 DEF InPlace
    <2>7. \A i \in 0 .. Size - 1 :
            buffer'[i] = Empty \/ \E q \in a' .. b' : CB!Offset(q) = i
      <3> SUFFICES ASSUME NEW i \in 0 .. Size - 1
                   PROVE  buffer'[i] = Empty \/ \E q \in a' .. b' : CB!Offset(q) = i
        OBVIOUS
      <3>1. tail - head >= 1
        <4>1. sem_get \in Nat BY StockWindow
        <4>2. tail - head = sem_get + 1 + OneIf(at[g] = "claim")
          BY <2>1 DEF Serial, Counted, OneIf
        <4>3. OneIf(at[g] = "claim") \in Nat BY DEF OneIf
        <4>4. QED BY <1>0, <4>1, <4>2, <4>3
      <3>2. a <= tail - 1
        BY <1>0, <3>1 DEF FirstStored, OneIf
      <3>3. place[p] \in a' .. b'
        BY <1>0, <1>1, <2>1, <3>2
      <3>4. \A q \in a .. b : q \in a' .. b'
        BY <1>0, <1>1, <2>1
      <3>5. CASE i = CB!Offset(place[p])
        BY <3>3, <3>5
      <3>6. CASE i # CB!Offset(place[p])
        BY <1>2, <2>4, <3>4, <3>6 DEF InPlace
      <3>7. QED BY <3>5, <3>6
    <2>8. at'[g] = "signal" => got'[g] = placed'[place'[g] + 1]
      BY <1>2, <2>1 DEF InPlace
    <2> HIDE DEF a, b
    <2>9. QED BY <2>1, <2>6, <2>7, <2>8 DEF InPlace, a, b
  <1>7. CASE CB!SignalGet(p)
    <2>1. /\ a' = a /\ b' = b /\ at'[g] = at[g] /\ at'[p] = "wait" /\ place' = place
          /\ UNCHANGED <<buffer, placed, got, tail>>
      BY <1>0, <1>7 DEF CB!SignalGet, CB!Goto, FirstStored, LastStored, OneIf
    <2> HIDE DEF a, b
    <2>2. QED BY <1>2, <2>1 DEF InPlace, a, b
  <1>8. CASE CB!WaitGet(g)
    <2>1. /\ a' = a /\ b' = b /\ at'[p] = at[p] /\ at'[g] = "claim"
          /\ UNCHANGED <<buffer, placed, got, arg, tail>>
      BY <1>0, <1>8 DEF CB!WaitGet, CB!Goto, FirstStored, LastStored, OneIf
    <2> HIDE DEF a, b
    <2>2. QED BY <1>2, <2>1 DEF InPlace, a, b
  <1>9. CASE CB!ClaimHead(g)
    <2>1. /\ a' = a /\ b' = b /\ at'[p] = at[p] /\ at'[g] = "move"
          /\ UNCHANGED <<buffer, placed, got, arg, tail>>
      BY <1>0, <1>9 DEF CB!ClaimHead, CB!Goto, FirstStored, LastStored, OneIf
    <2> HIDE DEF a, b
    <2>2. QED BY <1>2, <2>1 DEF InPlace, a, b
  <1>10. CASE CB!MoveOut(g)
    <2>1. /\ a = place[g] /\ a <= b /\ a' = a + 1 /\ b' = b
          /\ at[g] = "move" /\ at'[g] = "signal" /\ at'[p] = at[p]
          /\ buffer' = [buffer EXCEPT ![CB!Offset(place[g])] = Empty]
          /\ got' = [got EXCEPT ![g] = buffer[CB!Offset(place[g])]]
          /\ UNCHANGED <<placed, arg, tail, place>>
      BY <1>0, <1>1, <1>10 DEF CB!MoveOut, CB!Goto, FirstStored, LastStored, OneIf
    <2>2. CB!Offset(a) \in 0 .. Size - 1
      BY <1>1, StockSlot
    <2>3. \A i \in 0 .. Size - 1 : i # CB!Offset(a) => buffer'[i] = buffer[i]
      BY <1>0, <2>1
    <2>4. buffer'[CB!Offset(a)] = Empty
      BY <1>0, <2>1, <2>2
    <2>5. \A q \in a' .. b' : /\ q \in a .. b
                              /\ CB!Offset(q) # CB!Offset(a)
                              /\ CB!Offset(q) \in 0 .. Size - 1
      <3>1. a \in a .. b
        BY <1>1, <2>1
      <3>2. \A q \in a' .. b' : q \in a .. b /\ q # a /\ q \in Nat
        BY <1>1, <2>1
      <3>3. QED BY <3>1, <3>2, StockSlotsApart, StockSlot
    <2>6. \A q \in a' .. b' : buffer'[CB!Offset(q)] = placed'[q + 1]
      BY <1>2, <2>1, <2>3, <2>5 DEF InPlace
    <2>7. \A i \in 0 .. Size - 1 :
            buffer'[i] = Empty \/ \E q \in a' .. b' : CB!Offset(q) = i
      <3> SUFFICES ASSUME NEW i \in 0 .. Size - 1
                   PROVE  buffer'[i] = Empty \/ \E q \in a' .. b' : CB!Offset(q) = i
        OBVIOUS
      <3>1. CASE i = CB!Offset(a)
        BY <2>4, <3>1
      <3>2. CASE i # CB!Offset(a)
        <4>1. \A q \in a .. b : q = a \/ q \in a' .. b'
          BY <1>1, <2>1
        <4>2. buffer'[i] = buffer[i]
          BY <2>3, <3>2
        <4>3. buffer[i] = Empty \/ \E q \in a .. b : CB!Offset(q) = i
          BY <1>2 DEF InPlace
        <4>4. QED BY <3>2, <4>1, <4>2, <4>3
      <3>3. QED BY <3>1, <3>2
    <2>8. got'[g] = placed'[place'[g] + 1]
      <3>1. a \in a .. b
        BY <1>1, <2>1
      <3>2. buffer[CB!Offset(a)] = placed[a + 1]
        BY <1>2, <3>1 DEF InPlace
      <3>3. QED BY <1>0, <2>1, <3>2
    <2> HIDE DEF a, b
    <2>9. QED BY <1>2, <2>1, <2>6, <2>7, <2>8 DEF InPlace, a, b
  <1>11. CASE CB!SignalPut(g)
    <2>1. /\ a' = a /\ b' = b /\ at'[p] = at[p] /\ at'[g] = "wait"
          /\ UNCHANGED <<buffer, placed, arg, tail>>
      BY <1>0, <1>11 DEF CB!SignalPut, CB!Goto, FirstStored, LastStored, OneIf
    <2> HIDE DEF a, b
    <2>2. QED BY <1>2, <2>1 DEF InPlace, a, b
  <1>12. CASE UNCHANGED CB!vars
    <2>1. /\ a' = a /\ b' = b /\ at' = at /\ place' = place
          /\ UNCHANGED <<buffer, placed, got, arg, tail>>
      BY <1>12 DEF CB!vars, FirstStored, LastStored, OneIf
    <2>2. QED BY <1>3, <2>1
  <1>13. QED
    BY <1>4, <1>5, <1>6, <1>7, <1>8, <1>9, <1>10, <1>11, <1>12 DEF CB!Next, CB!Put, CB!Get

(* With one putter and one getter a slot is overwritten only when empty,   *)
(* and Get returns the values put, in order.                               *)
THEOREM OneToOne ==
  ASSUME StockAssumption, NEW CONSTANT p, NEW CONSTANT g, Putters = {p}, Getters = {g}
  PROVE  CB!Spec => [](CB!SlotFree /\ GetsInOrder)
  <1>1. CB!Init => Serial(p, g)
    BY SerialInit
  <1>2. Serial(p, g) /\ [CB!Next]_(CB!vars) => Serial(p, g)'
    <2> SUFFICES ASSUME Serial(p, g), [CB!Next]_(CB!vars) PROVE Serial(p, g)'
      OBVIOUS
    <2>1. StockTyped'
      BY StockTypedStep DEF Serial
    <2>2. QED BY <2>1, SerialCountedStep, SerialStoredStep DEF Serial
  <1>3. Serial(p, g) => CB!SlotFree /\ GetsInOrder
    <2> SUFFICES ASSUME Serial(p, g) PROVE CB!SlotFree /\ GetsInOrder
      OBVIOUS
    <2>1. place[p] \in Nat
      BY StockWindow
    <2>2. CB!SlotFree
      BY <2>1, StockSlotsApart, StockSlot DEF CB!SlotFree, Serial, InPlace
    <2>3. GetsInOrder
      BY DEF GetsInOrder, CB!GetsInOrder, Serial, InPlace
    <2>4. QED BY <2>2, <2>3
  <1>4. QED BY <1>1, <1>2, <1>3, PTL DEF CB!Spec
=============================================================================
