----------------------- MODULE StateBufferQueue_proofs -----------------------
(***************************************************************************)
(* Theorems about StateBufferQueue, for every number of threads, every     *)
(* number of environments and every size of a batch.  The ring has no      *)
(* lock: that a worker finds its batch's buffer there, and a row of its    *)
(* own, follows from counting.  As many positions are claimed and not      *)
(* received as environments are in flight (Room), which keeps the          *)
(* positions in use within the buffers in place (Ring, Places); the        *)
(* counters of a buffer and the workers before each of them add up to the  *)
(* positions claimed in it and the states made up for (Counts), so the     *)
(* last done comes after every other worker of the batch has finished with *)
(* the buffer (Signals); and as many rows are given as are counted, below  *)
(* the ones made up for, so no row is missing from a batch (Marked).       *)
(***************************************************************************)
EXTENDS StateBufferQueue, FiniteSetTheorems, SequenceTheorems, TLAPS

Unfinished == {"count", "take", "fill", "done"}
Holding    == {"count", "take", "fill"}
Passed     == {"collect", "advance", "swap"}

(* The first batch whose buffer has not been replaced.                     *)
Oldest == IF rstep \in {"add", "wait"} \cup Passed THEN rpos ELSE done_ptr

(* The positions in batch k of the workers at one of the given steps.      *)
InSteps(S, k) ==
  {wpos[w] : w \in {v \in Workers : wstep[v] \in S /\ WorkerBlock(v) = k}}

(* The positions of batch k that have been handed out, those claimed by    *)
(* workers among them, and the states of the batch that have been made up  *)
(* for: the reader counts those as done before it moves the positions on.  *)
Claimed(k) ==
  IF alloc_count <= k * Batch THEN 0
  ELSE IF alloc_count >= k * Batch + Batch THEN Batch
  ELSE alloc_count - k * Batch

Own(k) == Claimed(k) - (IF rstep = "swap" /\ k = rpos THEN radd ELSE 0)

Missing(k) == IF rstep \in {"wait"} \cup Passed /\ k = rpos THEN radd ELSE 0

(* The states that the Wait under way makes up for.                        *)
MadeUp == IF rstep \in {"destroy", "destroyed"} THEN 0 ELSE radd

(* A batch is made up for only while it is waited for, and then no more    *)
(* environments than are left are in flight.                               *)
Reader ==
  /\ rstep \in {"add", "wait"} \cup Passed => done_ptr = rpos + 1
  /\ rstep = "idle" => radd = 0
  /\ MadeUp > 0 => IsSync /\ Cardinality(in_flight) + MadeUp <= Batch

(* The ring holds the buffers of the next QueueSize batches.               *)
Ring ==
  \A i \in Indices :
    /\ queue[i].block \in Oldest .. Oldest + QueueSize - 1
    /\ Offset(queue[i].block) = i

(* Positions claimed and not received are environments in flight, and the  *)
(* positions of batches received have been claimed.                        *)
Room ==
  /\ Oldest * Batch <= alloc_count
  /\ alloc_count - Oldest * Batch + (IF rstep = "return" THEN Batch - radd ELSE 0)
       <= Cardinality(in_flight) + (IF rstep = "swap" THEN radd ELSE 0)

(* A worker in the queue has a position of its own, of a batch in place.   *)
Places ==
  /\ \A w \in Workers : wstep[w] # "idle" =>
       /\ wstep[w] # "thrown"
       /\ wpos[w] < alloc_count
       /\ Oldest <= WorkerBlock(w)
  /\ \A w, v \in Workers :
       wstep[w] # "idle" /\ wstep[v] # "idle" /\ wpos[w] = wpos[v] => w = v

(* Each counter of a buffer lags behind the positions claimed by the       *)
(* workers that have not reached it.                                       *)
Counts ==
  \A i \in Indices, k \in Nat : queue[i].block = k =>
    /\ queue[i].allocs + Cardinality(InSteps({"count"}, k)) = Own(k)
    /\ queue[i].offsets + Cardinality(InSteps({"count", "take"}, k)) = Own(k)
    /\ queue[i].dones + Cardinality(InSteps(Unfinished, k)) = Own(k) + Missing(k)

(* A buffer is signalled once, by one worker, when all its rows are done,  *)
(* and the reader goes on with it after that.                              *)
Signals ==
  /\ \A i \in Indices : queue[i].ready > 0 => queue[i].dones = Batch /\ queue[i].ready = 1
  /\ \A w \in Workers : wstep[w] = "signal" =>
       /\ Buffer(WorkerBlock(w)).dones = Batch
       /\ Buffer(WorkerBlock(w)).ready = 0
       /\ rstep \in Passed => WorkerBlock(w) # rpos
       /\ \A v \in Workers : wstep[v] = "signal" /\ WorkerBlock(v) = WorkerBlock(w) => v = w
  /\ rstep \in Passed => Buffer(rpos).dones = Batch /\ Buffer(rpos).ready = 0

(* Rows given to workers: of the batch, different, blank until filled, and *)
(* then holding the worker's environment.                                  *)
Given ==
  /\ \A w \in Workers : wstep[w] \in {"fill", "done", "signal"} => wrow[w] \in Rows
  /\ \A w, v \in Workers :
       /\ wstep[w] \in {"fill", "done"} /\ wstep[v] \in {"fill", "done"}
       /\ WorkerBlock(w) = WorkerBlock(v) /\ wrow[w] = wrow[v]
       => w = v
  /\ \A w \in Workers : wstep[w] = "fill" => Buffer(WorkerBlock(w)).rows[wrow[w]] = NoRow

Written ==
  \A w \in Workers : wstep[w] \in {"done", "signal"} =>
    wenv[w] # NoRow /\ Buffer(WorkerBlock(w)).rows[wrow[w]] = wenv[w]

(* As many rows of a buffer have been given as it has counted: the first   *)
(* ones in asynchronous mode, and none of those made up for.               *)
Marked ==
  \A i \in Indices :
    /\ Cardinality(GivenRows(i)) = queue[i].offsets
    /\ GivenRows(i) \subseteq 0 .. Batch - MadeUp - 1
    /\ ~IsSync => GivenRows(i) = 0 .. queue[i].offsets - 1

(* An environment in flight is with one worker or in one row of the ring.  *)
Sent ==
  /\ \A w \in Workers : wstep[w] \in Holding => wenv[w] \in in_flight
  /\ \A w, v \in Workers :
       wstep[w] \in Holding /\ wstep[v] \in Holding /\ wenv[w] = wenv[v] => w = v
  /\ \A i \in Indices, r \in Rows : queue[i].rows[r] # NoRow =>
       /\ queue[i].rows[r] \in in_flight
       /\ \A w \in Workers : wstep[w] \in Holding => wenv[w] # queue[i].rows[r]
       /\ \A j \in Indices, s \in Rows :
            queue[j].rows[s] = queue[i].rows[r] => i = j /\ r = s

(* What the reader has collected is the batch, which is nowhere else once  *)
(* its buffer has been replaced.                                           *)
Taken ==
  /\ rstep \in {"advance", "swap"} =>
       ret = [n \in 1 .. Batch - radd |-> Buffer(rpos).rows[n - 1]]
  /\ rstep = "return" =>
       /\ ret \in [1 .. Batch - radd -> in_flight]
       /\ \A n \in 1 .. Batch - radd :
            /\ \A m \in 1 .. Batch - radd : ret[m] = ret[n] => m = n
            /\ \A w \in Workers : wstep[w] \in Holding => wenv[w] # ret[n]
            /\ \A i \in Indices, r \in Rows : queue[i].rows[r] # ret[n]

(* What lies in the ring and who is where in it.                           *)
Layout == TypeOK /\ Reader /\ Ring /\ Room /\ Places

IInv == Layout /\ Counts /\ Signals /\ Given /\ Written /\ Marked /\ Sent /\ Taken

(* No multiple of a positive N lies strictly between 0 and N. *)
LEMMA NoMultipleBetween ==
  ASSUME NEW N \in Nat \ {0}, NEW k \in Int
  PROVE  ~(0 < N * k /\ N * k < N)
  <1>1. CASE k <= 0
    <2>1. N * k <= 0 BY <1>1
    <2>2. QED BY <2>1
  <1>2. CASE k >= 1
    <2>1. N * k >= N BY <1>2
    <2>2. QED BY <2>1
  <1>3. QED BY <1>1, <1>2

(* Two positions less than a round of the ring apart have different slots. *)
LEMMA PositionsApart ==
  ASSUME NEW N \in Nat \ {0}, NEW p \in Nat, NEW q \in Nat, p < q, q - p < N
  PROVE  p % N # q % N
  <1>1. SUFFICES ASSUME p % N = q % N PROVE FALSE
    OBVIOUS
  <1>2. PICK a \in Int, b \in Int : p = N * a + (p % N) /\ q = N * b + (p % N)
    <2>1. /\ p = N * (p \div N) + (p % N) /\ p \div N \in Int
          /\ q = N * (q \div N) + (q % N) /\ q \div N \in Int
      OBVIOUS
    <2>2. QED BY <1>1, <2>1
  <1>3. PICK k \in Int : k = b - a OBVIOUS
  <1>4. q - p = N * k BY <1>2, <1>3
  <1>5. k <= 0 => N * k <= 0 OBVIOUS
  <1>6. k >= 1 => N * k >= N OBVIOUS
  <1>7. QED BY <1>4, <1>5, <1>6

-----------------------------------------------------------------------------
(* Division with remainder.                                                *)
LEMMA Division ==
  ASSUME NEW n \in Nat, NEW b \in Nat \ {0}
  PROVE  n \div b \in Nat /\ n = b * (n \div b) + (n % b) /\ n % b \in 0 .. b - 1
  <1>1. /\ n = b * (n \div b) + (n % b)
        /\ n \div b \in Int
        /\ n % b \in Int
    OBVIOUS
  <1>2. 0 <= n % b /\ n % b < b
    OBVIOUS
  <1>3. PICK q \in Int, r \in Int : q = n \div b /\ r = n % b
    BY <1>1
  <1>4. n = b * q + r /\ 0 <= r /\ r < b
    BY <1>1, <1>2, <1>3
  <1>5. q >= 0
    <2>1. SUFFICES ASSUME q <= -1 PROVE FALSE OBVIOUS
    <2>2. b * q <= -b BY <2>1
    <2>3. QED BY <2>2, <1>4
  <1>6. q \in Nat /\ r \in 0 .. b - 1
    BY <1>4, <1>5
  <1>7. QED BY <1>1, <1>3, <1>6

(* Sizes: the ring has more than twice the room of the environments.       *)
LEMMA Sizes ==
  /\ Batch \in Nat \ {0}
  /\ NumEnvs \in Nat
  /\ QueueSize \in Nat \ {0}
  /\ NumEnvs < QueueSize * Batch
  <1>1. NumEnvs \in Nat
    BY BatchAssumption, FS_CardinalityType DEF NumEnvs
  <1>2. Batch \in Nat \ {0}
    BY <1>1, BatchAssumption
  <1>3. /\ NumEnvs \div Batch \in Nat
        /\ NumEnvs = Batch * (NumEnvs \div Batch) + (NumEnvs % Batch)
        /\ NumEnvs % Batch \in 0 .. Batch - 1
    BY <1>1, <1>2, Division
  <1>4. PICK q \in Nat : q = NumEnvs \div Batch
    BY <1>3
  <1>5. NumEnvs < Batch * q + Batch
    BY <1>1, <1>2, <1>3, <1>4
  <1>6. QueueSize = (q + 2) * 2
    BY <1>4 DEF QueueSize
  <1>7. (q + 2) * 2 * Batch = Batch * q + Batch * q + 4 * Batch
    BY <1>2
  <1>8. Batch * q \in Nat
    BY <1>2
  <1>9. NumEnvs < (q + 2) * 2 * Batch
    BY <1>1, <1>2, <1>5, <1>7, <1>8
  <1>10. QED BY <1>1, <1>2, <1>6, <1>9

(* The batch of a position is the one between whose bounds it lies.        *)
LEMMA BlockBounds ==
  ASSUME NEW p \in Nat
  PROVE  /\ BlockOf(p) \in Nat
         /\ BlockOf(p) * Batch \in Nat
         /\ BlockOf(p) * Batch <= p
         /\ p < BlockOf(p) * Batch + Batch
  <1>1. /\ BlockOf(p) \in Nat
        /\ p = Batch * BlockOf(p) + (p % Batch)
        /\ p % Batch \in 0 .. Batch - 1
    BY Sizes, Division DEF BlockOf
  <1>2. PICK q \in Nat : q = BlockOf(p) /\ p = Batch * q + (p % Batch)
                         /\ p % Batch \in 0 .. Batch - 1
    BY <1>1
  <1>3. q * Batch \in Nat /\ q * Batch = Batch * q
    <2>1. PICK b \in Nat : b = Batch BY Sizes
    <2>2. q * b \in Nat /\ q * b = b * q OBVIOUS
    <2>3. QED BY <2>1, <2>2
  <1>4. q * Batch <= p /\ p < q * Batch + Batch
    <2>1. PICK m \in Nat, r \in Nat : m = q * Batch /\ r = p % Batch /\ r < Batch
      BY <1>2, <1>3, Sizes
    <2>2. p = m + r
      BY <1>2, <1>3, <2>1, Zenon
    <2>3. m <= p /\ p < m + Batch
      BY <2>1, <2>2, Sizes
    <2>4. QED BY <2>1, <2>3
  <1>5. QED BY <1>2, <1>3, <1>4

(* A later batch begins after an earlier one has ended.                    *)
LEMMA BlocksOrdered ==
  ASSUME NEW j \in Nat, NEW k \in Nat, j < k
  PROVE  j * Batch + Batch <= k * Batch
  <1>1. PICK b \in Nat \ {0} : b = Batch
    BY Sizes
  <1>2. PICK d \in Nat : k = j + 1 + d
    <2>1. k - j - 1 \in Nat OBVIOUS
    <2>2. k = j + 1 + (k - j - 1) OBVIOUS
    <2>3. QED BY <2>1, <2>2
  <1>3. (j + 1 + d) * b = j * b + b + d * b /\ d * b >= 0 /\ j * b \in Nat
    OBVIOUS
  <1>4. QED BY <1>1, <1>2, <1>3

(* The slot of a batch is an index of the ring.                            *)
LEMMA SlotIndex == ASSUME NEW k \in Nat PROVE Offset(k) \in Indices
  BY Sizes DEF Offset, Indices

(* The environments in flight are at most all of them.                     *)
LEMMA FlightBound ==
  ASSUME TypeOK
  PROVE  /\ IsFiniteSet(in_flight)
         /\ Cardinality(in_flight) \in Nat
         /\ Cardinality(in_flight) <= NumEnvs
  BY BatchAssumption, FS_Subset, FS_CardinalityType DEF TypeOK, NumEnvs

(* The oldest batch and its first position are numbers.                    *)
LEMMA OldestType == ASSUME TypeOK PROVE Oldest \in Nat /\ Oldest * Batch \in Nat
  <1>1. Oldest \in Nat
    BY DEF TypeOK, Oldest
  <1>2. QED BY <1>1, Sizes

(* The buffer of a batch of the window is in its place.                    *)
LEMMA InPlace ==
  ASSUME TypeOK, Ring, NEW k \in Nat, Oldest <= k, k < Oldest + QueueSize
  PROVE  Offset(k) \in Indices /\ queue[Offset(k)].block = k
  <1>1. Offset(k) \in Indices
    BY SlotIndex
  <1>2. PICK b \in Nat : /\ b = queue[Offset(k)].block
                         /\ Oldest <= b /\ b < Oldest + QueueSize
                         /\ Offset(b) = Offset(k)
    BY <1>1, OldestType, Sizes DEF Ring, TypeOK, BufferType
  <1>3. ~(b < k)
    <2>1. SUFFICES ASSUME b < k PROVE FALSE OBVIOUS
    <2>2. k - b < QueueSize BY <1>2, <2>1, OldestType, Sizes
    <2>3. b % QueueSize # k % QueueSize BY <2>1, <2>2, Sizes, PositionsApart
    <2>4. QED BY <1>2, <2>3 DEF Offset
  <1>4. ~(k < b)
    <2>1. SUFFICES ASSUME k < b PROVE FALSE OBVIOUS
    <2>2. b - k < QueueSize BY <1>2, <2>1, OldestType, Sizes
    <2>3. k % QueueSize # b % QueueSize BY <2>1, <2>2, Sizes, PositionsApart
    <2>4. QED BY <1>2, <2>3 DEF Offset
  <1>5. QED BY <1>1, <1>2, <1>3, <1>4

(* The states made up for, with the environments in flight, are at most a  *)
(* batch.                                                                  *)
LEMMA MadeUpBound ==
  ASSUME TypeOK, Reader
  PROVE  /\ MadeUp \in Nat /\ MadeUp <= Batch
         /\ rstep \notin {"destroy", "destroyed"} => MadeUp = radd
         /\ MadeUp > 0 => IsSync /\ Cardinality(in_flight) + MadeUp <= Batch
  BY FlightBound, Sizes DEF TypeOK, Reader, MadeUp

(* No more positions are claimed and not received than there are           *)
(* environments.                                                           *)
LEMMA RoomBound ==
  ASSUME TypeOK, Reader, Room
  PROVE  alloc_count <= Oldest * Batch + NumEnvs
  <1>1. PICK q \in Nat : q = Oldest * Batch
    BY OldestType
  <1>2. alloc_count \in Nat /\ radd \in Nat
    BY DEF TypeOK
  <1>3. CASE rstep = "swap"
    <2>1. Cardinality(in_flight) + radd <= NumEnvs
      BY <1>2, <1>3, MadeUpBound, FlightBound, Sizes DEF IsSync
    <2>2. QED BY <1>1, <1>2, <1>3, <2>1, FlightBound, Sizes DEF Room
  <1>4. CASE rstep # "swap"
    <2>1. rstep = "return" => Batch - radd >= 0
      BY <1>2, MadeUpBound, Sizes
    <2>2. QED BY <1>1, <1>2, <1>4, <2>1, FlightBound, Sizes DEF Room
  <1>5. QED BY <1>3, <1>4

(* Every claimed position lies below the end of the window.                *)
LEMMA BelowWindow ==
  ASSUME TypeOK, NEW p \in Nat, p < Oldest * Batch + NumEnvs
  PROVE  BlockOf(p) < Oldest + QueueSize
  <1>1. PICK o \in Nat : o = Oldest /\ o * Batch \in Nat
    BY OldestType
  <1>2. p < o * Batch + NumEnvs
    BY <1>1
  <1>3. (o + QueueSize) * Batch = o * Batch + QueueSize * Batch
    BY <1>1, Sizes
  <1>4. p < (o + QueueSize) * Batch
    BY <1>1, <1>2, <1>3, Sizes
  <1>5. PICK k \in Nat : k = BlockOf(p) /\ k * Batch \in Nat /\ k * Batch <= p
    BY BlockBounds
  <1>6. SUFFICES ASSUME k >= o + QueueSize PROVE FALSE
    BY <1>1, <1>5, Sizes
  <1>7. (o + QueueSize) * Batch <= k * Batch
    <2>1. CASE k = o + QueueSize BY <2>1, <1>5
    <2>2. CASE k > o + QueueSize
      <3>1. o + QueueSize \in Nat /\ (o + QueueSize) * Batch \in Nat BY Sizes
      <3>2. QED BY <2>2, <3>1, <1>5, BlocksOrdered, Sizes
    <2>3. QED BY <1>6, <2>1, <2>2, Sizes
  <1>8. (o + QueueSize) * Batch \in Nat
    BY Sizes
  <1>9. QED BY <1>4, <1>5, <1>7, <1>8

(* A worker in the queue finds its batch's buffer in the ring.             *)
LEMMA WorkerInPlace ==
  ASSUME Layout, NEW w \in Workers, wstep[w] # "idle"
  PROVE  /\ WorkerBlock(w) \in Nat
         /\ Oldest <= WorkerBlock(w) /\ WorkerBlock(w) < Oldest + QueueSize
         /\ Offset(WorkerBlock(w)) \in Indices
         /\ Buffer(WorkerBlock(w)).block = WorkerBlock(w)
  <1>1. wpos[w] \in Nat /\ wpos[w] < alloc_count
    BY DEF Layout, TypeOK, Places
  <1>2. WorkerBlock(w) \in Nat
    BY <1>1, BlockBounds DEF WorkerBlock
  <1>3. Oldest <= WorkerBlock(w)
    BY DEF Layout, Places
  <1>4. WorkerBlock(w) < Oldest + QueueSize
    <2>1. wpos[w] < Oldest * Batch + NumEnvs
      BY <1>1, RoomBound, OldestType, Sizes DEF Layout, TypeOK
    <2>2. QED BY <1>1, <2>1, BelowWindow DEF WorkerBlock, Layout
  <1>5. QED BY <1>2, <1>3, <1>4, InPlace DEF Layout, Buffer

(* The reader's buffer is in its place until it replaces it.               *)
LEMMA ReaderInPlace ==
  ASSUME Layout, rstep \in {"add", "wait"} \cup Passed
  PROVE  /\ Oldest = rpos /\ rpos \in Nat
         /\ Offset(rpos) \in Indices
         /\ Buffer(rpos).block = rpos
  <1>1. Oldest = rpos /\ rpos \in Nat
    BY DEF Oldest, Layout, TypeOK
  <1>2. QED BY <1>1, InPlace, Sizes DEF Layout, Buffer

-----------------------------------------------------------------------------
(* How the workers before a counter change.                                *)

(* Only worker w moves.                                                    *)
Others(w) ==
  \A v \in Workers \ {w} :
    /\ wstep'[v] = wstep[v] /\ wenv'[v] = wenv[v]
    /\ wpos'[v] = wpos[v] /\ wrow'[v] = wrow[v]

(* The positions of a batch are finitely many.                             *)
LEMMA StepsFinite ==
  ASSUME TypeOK, NEW S, NEW k \in Nat
  PROVE  IsFiniteSet(InSteps(S, k)) /\ Cardinality(InSteps(S, k)) \in Nat
  <1>1. k * Batch \in Nat
    BY Sizes
  <1>2. InSteps(S, k) \subseteq k * Batch .. k * Batch + Batch - 1
    <2>1. SUFFICES ASSUME NEW w \in Workers, WorkerBlock(w) = k
                   PROVE  wpos[w] \in k * Batch .. k * Batch + Batch - 1
      BY DEF InSteps
    <2>2. wpos[w] \in Nat BY DEF TypeOK
    <2>3. k * Batch <= wpos[w] /\ wpos[w] < k * Batch + Batch
      BY <2>1, <2>2, BlockBounds DEF WorkerBlock
    <2>4. PICK m \in Nat : m = k * Batch
      BY <1>1
    <2>5. wpos[w] \in m .. m + Batch - 1
      BY <2>2, <2>3, <2>4, Sizes
    <2>6. QED BY <2>4, <2>5
  <1>3. IsFiniteSet(k * Batch .. k * Batch + Batch - 1)
    BY <1>1, Sizes, FS_Interval
  <1>4. QED BY <1>2, <1>3, FS_Subset, FS_CardinalityType

(* Workers that stay on their side of a counter keep their positions.      *)
LEMMA StepsSame ==
  ASSUME NEW S, NEW k \in Nat,
         \A v \in Workers : /\ wstep'[v] \in S <=> wstep[v] \in S
                            /\ wstep[v] \in S => wpos'[v] = wpos[v]
  PROVE  InSteps(S, k)' = InSteps(S, k)
  <1>1. InSteps(S, k)' = {wpos'[w] : w \in {v \in Workers : /\ wstep'[v] \in S
                                                           /\ BlockOf(wpos'[v]) = k}}
    BY DEF InSteps, WorkerBlock, BlockOf
  <1>2. {v \in Workers : wstep'[v] \in S /\ BlockOf(wpos'[v]) = k}
          = {v \in Workers : wstep[v] \in S /\ BlockOf(wpos[v]) = k}
    OBVIOUS
  <1>3. QED BY <1>1, <1>2 DEF InSteps, WorkerBlock

(* A worker past a counter is no longer before it.                         *)
LEMMA StepsOut ==
  ASSUME TypeOK, Places, NEW S, "idle" \notin S, NEW k \in Nat, NEW w \in Workers,
         wstep[w] \in S, wstep'[w] \notin S, Others(w)
  PROVE  Cardinality(InSteps(S, k)') = Cardinality(InSteps(S, k))
                                       - (IF WorkerBlock(w) = k THEN 1 ELSE 0)
  <1>1. InSteps(S, k)' = {wpos'[u] : u \in {v \in Workers : /\ wstep'[v] \in S
                                                           /\ BlockOf(wpos'[v]) = k}}
    BY DEF InSteps, WorkerBlock, BlockOf
  <1>2. {v \in Workers : wstep'[v] \in S /\ BlockOf(wpos'[v]) = k}
          = {v \in Workers : wstep[v] \in S /\ BlockOf(wpos[v]) = k} \ {w}
    BY DEF Others
  <1>3. InSteps(S, k)' = {wpos[u] : u \in {v \in Workers : /\ wstep[v] \in S
                                                          /\ BlockOf(wpos[v]) = k} \ {w}}
    BY <1>1, <1>2 DEF Others
  <1>4. CASE WorkerBlock(w) = k
    <2>1. InSteps(S, k)' = InSteps(S, k) \ {wpos[w]}
      <3>1. \A u \in Workers : wstep[u] \in S /\ wpos[u] = wpos[w] => u = w
        BY DEF Places
      <3>2. QED BY <1>3, <1>4, <3>1 DEF InSteps, WorkerBlock
    <2>2. wpos[w] \in InSteps(S, k)
      BY <1>4 DEF InSteps
    <2>3. QED BY <1>4, <2>1, <2>2, StepsFinite, FS_RemoveElement
  <1>5. CASE WorkerBlock(w) # k
    <2>1. InSteps(S, k)' = InSteps(S, k)
      BY <1>3, <1>5 DEF InSteps, WorkerBlock
    <2>2. QED BY <1>5, <2>1, StepsFinite
  <1>6. QED BY <1>4, <1>5

(* A worker that has claimed a position is before every counter of its     *)
(* batch.                                                                  *)
LEMMA StepsIn ==
  ASSUME TypeOK, Places, NEW S, "idle" \notin S, NEW k \in Nat, NEW w \in Workers,
         wstep[w] = "idle", wstep'[w] \in S, wpos'[w] = alloc_count, Others(w)
  PROVE  Cardinality(InSteps(S, k)') = Cardinality(InSteps(S, k))
                                       + (IF BlockOf(alloc_count) = k THEN 1 ELSE 0)
  <1>1. InSteps(S, k)' = {wpos'[u] : u \in {v \in Workers : /\ wstep'[v] \in S
                                                           /\ BlockOf(wpos'[v]) = k}}
    BY DEF InSteps, WorkerBlock, BlockOf
  <1>2. InSteps(S, k) = {wpos'[u] : u \in {v \in Workers \ {w} : /\ wstep'[v] \in S
                                                                /\ BlockOf(wpos'[v]) = k}}
    BY DEF InSteps, WorkerBlock, Others
  <1>3. CASE BlockOf(alloc_count) = k
    <2>1. InSteps(S, k)' = InSteps(S, k) \cup {alloc_count}
      BY <1>1, <1>2, <1>3
    <2>2. alloc_count \notin InSteps(S, k)
      <3>1. \A u \in Workers : wstep[u] \in S => wpos[u] # alloc_count
        BY DEF Places, TypeOK
      <3>2. QED BY <3>1 DEF InSteps
    <2>3. QED BY <1>3, <2>1, <2>2, StepsFinite, FS_AddElement
  <1>4. CASE BlockOf(alloc_count) # k
    <2>1. InSteps(S, k)' = InSteps(S, k)
      BY <1>1, <1>2, <1>4
    <2>2. QED BY <1>4, <2>1, StepsFinite
  <1>5. QED BY <1>3, <1>4

(* A worker before a counter counts.                                       *)
LEMMA StepsPositive ==
  ASSUME TypeOK, NEW S, NEW w \in Workers, wstep[w] \in S, WorkerBlock(w) \in Nat
  PROVE  Cardinality(InSteps(S, WorkerBlock(w))) >= 1
  <1>1. wpos[w] \in InSteps(S, WorkerBlock(w))
    BY DEF InSteps
  <1>2. InSteps(S, WorkerBlock(w)) # {}
    BY <1>1
  <1>3. QED BY <1>2, StepsFinite, FS_EmptySet

(* No batch has more positions than rows.                                  *)
LEMMA ClaimedBound ==
  ASSUME TypeOK, NEW k \in Nat
  PROVE  Claimed(k) \in Nat /\ Claimed(k) <= Batch
  <1>1. PICK m \in Nat : m = k * Batch
    BY Sizes
  <1>2. QED BY <1>1, Sizes DEF Claimed, TypeOK

(* Nor have the workers and the states made up for together.               *)
LEMMA OwnBound ==
  ASSUME Layout, NEW k \in Nat
  PROVE  /\ Own(k) \in Int /\ Own(k) <= Batch
         /\ Missing(k) \in Nat
         /\ Own(k) + Missing(k) <= Batch
  <1>1. /\ TypeOK /\ Reader /\ Room /\ radd \in Nat /\ rpos \in Nat
        /\ Claimed(k) \in Nat /\ Claimed(k) <= Batch
    BY ClaimedBound DEF Layout, TypeOK
  <1>2. Own(k) \in Int /\ Own(k) <= Batch /\ Missing(k) \in Nat
    BY <1>1, Sizes DEF Own, Missing
  <1>3. CASE rstep = "swap"
    BY <1>1, <1>3, Sizes DEF Own, Missing
  <1>4. CASE rstep \in {"wait", "collect", "advance"} /\ k = rpos /\ radd > 0
    <2>1. PICK q \in Nat : q = k * Batch /\ Oldest = k
      BY <1>1, <1>4, Sizes DEF Oldest, Passed
    <2>2. Cardinality(in_flight) + radd <= Batch
      BY <1>1, <1>4, MadeUpBound
    <2>3. alloc_count - q <= Cardinality(in_flight) /\ alloc_count \in Nat
      BY <1>1, <1>4, <2>1, FlightBound DEF Room, TypeOK
    <2>4. Claimed(k) + radd <= Batch
      BY <1>1, <2>1, <2>2, <2>3, FlightBound, Sizes DEF Claimed
    <2>5. QED BY <1>1, <1>4, <2>4 DEF Own, Missing, Passed
  <1>5. CASE rstep # "swap" /\ ~(rstep \in {"wait", "collect", "advance"} /\ k = rpos /\ radd > 0)
    BY <1>1, <1>2, <1>5, Sizes DEF Own, Missing, Passed
  <1>6. QED BY <1>2, <1>3, <1>4, <1>5

(* Steps at which neither the positions nor the reader's batch change.     *)
LEMMA OwnSame ==
  ASSUME alloc_count' = alloc_count, rpos' = rpos, radd' = radd,
         rstep' = "swap" <=> rstep = "swap",
         rstep' \in {"wait"} \cup Passed <=> rstep \in {"wait"} \cup Passed
  PROVE  \A k \in Nat : Own(k)' = Own(k) /\ Missing(k)' = Missing(k)
  BY DEF Own, Missing, Claimed, Passed

-----------------------------------------------------------------------------
(* Parts of the invariant a step leaves alone.                             *)

(* The counts stay while nobody passes a counter.                          *)
LEMMA CountsSame ==
  ASSUME Counts,
         \A k \in Nat : Own(k)' = Own(k) /\ Missing(k)' = Missing(k),
         \A i \in Indices : /\ queue'[i].block = queue[i].block
                            /\ queue'[i].allocs = queue[i].allocs
                            /\ queue'[i].offsets = queue[i].offsets
                            /\ queue'[i].dones = queue[i].dones,
         \A v \in Workers : \/ wstep'[v] = wstep[v] /\ wpos'[v] = wpos[v]
                            \/ wstep[v] = "fill" /\ wstep'[v] = "done" /\ wpos'[v] = wpos[v]
                            \/ wstep[v] = "signal" /\ wstep'[v] = "idle"
  PROVE  Counts'
  <1>1. SUFFICES ASSUME NEW i \in Indices, NEW k \in Nat, queue'[i].block = k
                 PROVE  /\ queue'[i].allocs + Cardinality(InSteps({"count"}, k)') = Own(k)'
                        /\ queue'[i].offsets + Cardinality(InSteps({"count", "take"}, k)')
                             = Own(k)'
                        /\ queue'[i].dones + Cardinality(InSteps(Unfinished, k)')
                             = Own(k)' + Missing(k)'
    BY DEF Counts
  <1>2. InSteps({"count"}, k)' = InSteps({"count"}, k)
    BY StepsSame
  <1>3. InSteps({"count", "take"}, k)' = InSteps({"count", "take"}, k)
    BY StepsSame
  <1>4. InSteps(Unfinished, k)' = InSteps(Unfinished, k)
    BY StepsSame DEF Unfinished
  <1>5. QED BY <1>1, <1>2, <1>3, <1>4 DEF Counts

(* No signal is sent or taken.                                             *)
LEMMA SignalsSame ==
  ASSUME Layout, Signals,
         \A i \in Indices : queue'[i].ready = queue[i].ready /\ queue'[i].dones = queue[i].dones,
         rstep' \in Passed <=> rstep \in Passed, rstep \in Passed => rpos' = rpos,
         \A v \in Workers : /\ wstep'[v] = "signal" <=> wstep[v] = "signal"
                            /\ wstep[v] = "signal" => wpos'[v] = wpos[v]
  PROVE  Signals'
  <1>1. \A v \in Workers : wstep[v] = "signal" =>
          /\ WorkerBlock(v)' = WorkerBlock(v)
          /\ Offset(WorkerBlock(v)) \in Indices
    BY WorkerInPlace DEF WorkerBlock, BlockOf
  <1>2. rstep \in Passed => Offset(rpos) \in Indices
    BY ReaderInPlace
  <1>3. \A i \in Indices : queue'[i].ready > 0 => queue'[i].dones = Batch /\ queue'[i].ready = 1
    BY DEF Signals
  <1>4. ASSUME NEW w \in Workers, wstep'[w] = "signal"
        PROVE  /\ queue'[Offset(WorkerBlock(w)')].dones = Batch
               /\ queue'[Offset(WorkerBlock(w)')].ready = 0
               /\ rstep' \in Passed => WorkerBlock(w)' # rpos'
               /\ \A v \in Workers : wstep'[v] = "signal" /\ WorkerBlock(v)' = WorkerBlock(w)'
                                       => v = w
    BY <1>1, <1>4 DEF Signals, Buffer
  <1>5. rstep' \in Passed => queue'[Offset(rpos')].dones = Batch /\ queue'[Offset(rpos')].ready = 0
    BY <1>2 DEF Signals, Buffer
  <1>6. QED BY <1>3, <1>4, <1>5 DEF Signals, Buffer, Offset

(* No row is given or filled.                                              *)
LEMMA GivenSame ==
  ASSUME Layout, Given,
         \A i \in Indices : queue'[i].rows = queue[i].rows,
         \A v \in Workers : wstep'[v] \in {"fill", "done", "signal"} =>
           /\ \/ wstep'[v] = wstep[v]
              \/ wstep[v] = "done" /\ wstep'[v] = "signal"
           /\ wpos'[v] = wpos[v] /\ wrow'[v] = wrow[v]
  PROVE  Given'
  <1>1. \A v \in Workers : wstep'[v] \in {"fill", "done"} =>
          /\ WorkerBlock(v)' = WorkerBlock(v)
          /\ Offset(WorkerBlock(v)) \in Indices
    BY WorkerInPlace DEF WorkerBlock, BlockOf
  <1>2. QED BY <1>1 DEF Given, Buffer, Offset, Rows

LEMMA WrittenSame ==
  ASSUME Layout, Written,
         \A i \in Indices : queue'[i].rows = queue[i].rows,
         \A v \in Workers : wstep'[v] \in {"done", "signal"} =>
           /\ wstep[v] \in {"done", "signal"}
           /\ wpos'[v] = wpos[v] /\ wrow'[v] = wrow[v] /\ wenv'[v] = wenv[v]
  PROVE  Written'
  <1>1. \A v \in Workers : wstep'[v] \in {"done", "signal"} =>
          /\ WorkerBlock(v)' = WorkerBlock(v)
          /\ Offset(WorkerBlock(v)) \in Indices
    BY WorkerInPlace DEF WorkerBlock, BlockOf
  <1>2. QED BY <1>1 DEF Written, Buffer, Offset

LEMMA GivenRowsSame ==
  ASSUME NEW i \in Indices, queue'[i].rows = queue[i].rows,
         \A v \in Workers : wstep'[v] = "fill" <=> wstep[v] = "fill",
         \A v \in Workers : wstep[v] = "fill" => wpos'[v] = wpos[v] /\ wrow'[v] = wrow[v]
  PROVE  GivenRows(i)' = GivenRows(i)
  <1>1. \A v \in Workers : wstep[v] = "fill" => Offset(WorkerBlock(v))' = Offset(WorkerBlock(v))
    BY DEF WorkerBlock, BlockOf, Offset
  <1>2. QED BY <1>1 DEF GivenRows, Rows

LEMMA MarkedSame ==
  ASSUME Marked, MadeUp' = MadeUp,
         \A i \in Indices : /\ queue'[i].offsets = queue[i].offsets
                            /\ queue'[i].rows = queue[i].rows,
         \A v \in Workers : wstep'[v] = "fill" <=> wstep[v] = "fill",
         \A v \in Workers : wstep[v] = "fill" => wpos'[v] = wpos[v] /\ wrow'[v] = wrow[v]
  PROVE  Marked'
  BY GivenRowsSame DEF Marked

(* No environment moves into a row.                                        *)
LEMMA SentSame ==
  ASSUME Sent, in_flight' = in_flight,
         \A i \in Indices : queue'[i].rows = queue[i].rows,
         \A v \in Workers : wstep'[v] \in Holding => wstep[v] \in Holding /\ wenv'[v] = wenv[v]
  PROVE  Sent'
  BY DEF Sent, Rows

(* What the reader has, it keeps.                                          *)
LEMMA TakenSame ==
  ASSUME Layout, Taken, in_flight' = in_flight, UNCHANGED readerVars,
         \A i \in Indices : queue'[i].rows = queue[i].rows,
         \A v \in Workers : wstep'[v] \in Holding => wstep[v] \in Holding /\ wenv'[v] = wenv[v]
  PROVE  Taken'
  <1>1. UNCHANGED <<rstep, rpos, radd, ret>>
    BY DEF readerVars
  <1>2. rstep \in {"advance", "swap"} => Buffer(rpos)'.rows = Buffer(rpos).rows
    BY <1>1, ReaderInPlace DEF Buffer, Offset, Passed
  <1>3. QED BY <1>1, <1>2 DEF Taken, Rows

(* A worker moves on in its batch, or leaves it.                           *)
LEMMA WorkerLayout ==
  ASSUME Layout, NEW w \in Workers, Others(w), TypeOK',
         UNCHANGED <<alloc_count, done_ptr, readerVars, in_flight>>,
         wstep[w] # "idle", wstep'[w] # "thrown",
         wstep'[w] = "idle" \/ wpos'[w] = wpos[w],
         \A i \in Indices : queue'[i].block = queue[i].block
  PROVE  Layout'
  <1>1. UNCHANGED <<alloc_count, done_ptr, rstep, rpos, radd, in_flight>>
    BY DEF readerVars
  <1>2. Oldest' = Oldest
    BY <1>1 DEF Oldest
  <1>3. Reader' /\ Room'
    BY <1>1, <1>2 DEF Layout, Reader, MadeUp, Room
  <1>4. Ring'
    BY <1>2 DEF Layout, Ring, Offset
  <1>5. \A v \in Workers : wstep'[v] # "idle" =>
          /\ wstep[v] # "idle" /\ wstep'[v] # "thrown"
          /\ wpos'[v] = wpos[v] /\ WorkerBlock(v)' = WorkerBlock(v)
    BY DEF Others, WorkerBlock, BlockOf, Layout, Places
  <1>6. Places'
    BY <1>1, <1>2, <1>5 DEF Layout, Places
  <1>7. QED BY <1>3, <1>4, <1>6 DEF Layout

(* The batch of a worker in the queue and the place of its buffer.         *)
LEMMA WorkerBuffer ==
  ASSUME Layout, NEW w \in Workers, wstep[w] # "idle"
  PROVE  \E k \in Nat, j \in Indices :
           /\ k = WorkerBlock(w) /\ j = Offset(k) /\ queue[j].block = k
           /\ \A i \in Indices \ {j} : queue[i].block # k
           /\ queue[j] \in BufferType
  BY WorkerInPlace DEF Layout, Ring, Buffer, TypeOK

(* Counters of one buffer, replaced.                                       *)
LEMMA ReplaceBuffer ==
  ASSUME TypeOK, NEW j \in Indices, NEW b \in BufferType, queue' = [queue EXCEPT ![j] = b]
  PROVE  /\ queue' \in [Indices -> BufferType]
         /\ queue'[j] = b
         /\ \A i \in Indices \ {j} : queue'[i] = queue[i]
  BY DEF TypeOK

(* The first counter has room for every worker of the batch: out_of_range  *)
(* is not thrown, and the counter stays in step.                           *)
LEMMA CountAllocStep ==
  ASSUME IInv, NEW w \in Workers, CountAlloc(w), UNCHANGED in_flight
  PROVE  IInv'
  <1> USE DEF IInv
  <1>1. /\ wstep[w] = "count" /\ Layout /\ TypeOK
        /\ UNCHANGED <<alloc_count, done_ptr, stockVars, wenv, wpos, wrow, readerVars>>
    BY DEF CountAlloc, MoveWorker, Layout
  <1>2. PICK k \in Nat, j \in Indices :
          /\ k = WorkerBlock(w) /\ j = Offset(k) /\ queue[j].block = k
          /\ \A i \in Indices \ {j} : queue[i].block # k
          /\ queue[j] \in BufferType
    BY <1>1, WorkerBuffer
  <1>3. queue[j].allocs < Batch
    <2>1. queue[j].allocs + Cardinality(InSteps({"count"}, k)) = Own(k)
      BY <1>2 DEF Counts
    <2>2. Cardinality(InSteps({"count"}, k)) >= 1 /\ Cardinality(InSteps({"count"}, k)) \in Nat
      BY <1>1, <1>2, StepsPositive, StepsFinite
    <2>3. queue[j].allocs \in Nat
      BY <1>2 DEF BufferType
    <2>4. QED BY <1>1, <1>2, <2>1, <2>2, <2>3, OwnBound, Sizes
  <1>4. /\ wstep' = [wstep EXCEPT ![w] = "take"]
        /\ queue' = [queue EXCEPT ![j] = [queue[j] EXCEPT !.allocs = queue[j].allocs + 1]]
    BY <1>2, <1>3 DEF CountAlloc, MoveWorker, Buffer
  <1>5. [queue[j] EXCEPT !.allocs = queue[j].allocs + 1] \in BufferType
    BY <1>2 DEF BufferType
  <1>6. /\ queue' \in [Indices -> BufferType]
        /\ queue'[j] = [queue[j] EXCEPT !.allocs = queue[j].allocs + 1]
        /\ \A i \in Indices \ {j} : queue'[i] = queue[i]
    BY <1>1, <1>4, <1>5, ReplaceBuffer
  <1>7. \A i \in Indices : /\ queue'[i].block = queue[i].block
                           /\ queue'[i].offsets = queue[i].offsets
                           /\ queue'[i].dones = queue[i].dones
                           /\ queue'[i].ready = queue[i].ready
                           /\ queue'[i].rows = queue[i].rows
    BY <1>2, <1>6 DEF BufferType
  <1>8. wstep'[w] = "take" /\ Others(w)
    BY <1>1, <1>4 DEF TypeOK, Others
  <1>9. TypeOK'
    <2>1. wstep' \in [Workers -> WorkerSteps]
      BY <1>1, <1>4 DEF TypeOK, WorkerSteps
    <2>2. QED BY <1>1, <1>6, <2>1 DEF TypeOK, stockVars, readerVars
  <1>10. Layout'
    BY <1>1, <1>7, <1>8, <1>9, WorkerLayout
  <1>11. Counts'
    <2>1. SUFFICES ASSUME NEW i \in Indices, NEW m \in Nat, queue'[i].block = m
                   PROVE  /\ queue'[i].allocs + Cardinality(InSteps({"count"}, m)') = Own(m)'
                          /\ queue'[i].offsets + Cardinality(InSteps({"count", "take"}, m)')
                               = Own(m)'
                          /\ queue'[i].dones + Cardinality(InSteps(Unfinished, m)')
                               = Own(m)' + Missing(m)'
      BY DEF Counts
    <2>2. queue[i].block = m
      BY <1>7, <2>1
    <2>3. Cardinality(InSteps({"count"}, m)')
            = Cardinality(InSteps({"count"}, m)) - (IF k = m THEN 1 ELSE 0)
      BY <1>1, <1>2, <1>8, StepsOut DEF Layout
    <2>4. InSteps({"count", "take"}, m)' = InSteps({"count", "take"}, m)
      BY <1>1, <1>8, StepsSame DEF Others
    <2>5. InSteps(Unfinished, m)' = InSteps(Unfinished, m)
      BY <1>1, <1>8, StepsSame DEF Others, Unfinished
    <2>6. Own(m)' = Own(m) /\ Missing(m)' = Missing(m) /\ Own(m) \in Int /\ Missing(m) \in Nat
      BY <1>1, OwnSame, OwnBound DEF readerVars
    <2>7. queue'[i].allocs = queue[i].allocs + (IF k = m THEN 1 ELSE 0)
      BY <1>2, <1>6, <2>2 DEF BufferType, TypeOK
    <2>8. queue[i].allocs \in Nat /\ Cardinality(InSteps({"count"}, m)) \in Nat
      BY <1>1, StepsFinite DEF TypeOK, BufferType
    <2>9. queue'[i].allocs + Cardinality(InSteps({"count"}, m)') = Own(m)'
      BY <2>2, <2>3, <2>6, <2>7, <2>8 DEF Counts
    <2>10. QED BY <1>7, <2>2, <2>4, <2>5, <2>6, <2>9 DEF Counts
  <1>12. Signals'
    BY <1>1, <1>7, <1>8, SignalsSame DEF readerVars, Others
  <1>13. Given'
    BY <1>1, <1>7, <1>8, GivenSame DEF Others
  <1>14. Written'
    BY <1>1, <1>7, <1>8, WrittenSame DEF Others
  <1>15. Marked'
    BY <1>1, <1>7, <1>8, MarkedSame DEF Others, MadeUp, readerVars
  <1>16. Sent'
    BY <1>1, <1>7, <1>8, SentSame DEF Others, Holding
  <1>17. Taken'
    BY <1>1, <1>7, <1>8, TakenSame DEF Others, Holding
  <1>18. QED BY <1>10, <1>11, <1>12, <1>13, <1>14, <1>15, <1>16, <1>17

(* Fewer rows are given than there are, while a worker is to be given one. *)
LEMMA RowFree ==
  ASSUME Layout, Counts, NEW w \in Workers, wstep[w] \in {"count", "take"},
         NEW j \in Indices, WorkerBlock(w) \in Nat, queue[j].block = WorkerBlock(w)
  PROVE  queue[j].offsets \in Rows
  <1>1. queue[j].offsets + Cardinality(InSteps({"count", "take"}, WorkerBlock(w)))
          = Own(WorkerBlock(w))
    BY DEF Counts
  <1>2. /\ Cardinality(InSteps({"count", "take"}, WorkerBlock(w))) >= 1
        /\ Cardinality(InSteps({"count", "take"}, WorkerBlock(w))) \in Nat
    BY StepsPositive, StepsFinite DEF Layout
  <1>3. queue[j].offsets \in Nat
    BY DEF Layout, TypeOK, BufferType
  <1>4. QED BY <1>1, <1>2, <1>3, OwnBound, Sizes DEF Rows

(* When all rows of a buffer are done no worker is in it.                  *)
LEMMA NoneLeft ==
  ASSUME Layout, Counts, NEW i \in Indices, queue[i].dones = Batch,
         NEW w \in Workers, wstep[w] \in Unfinished
  PROVE  WorkerBlock(w) # queue[i].block
  <1>1. SUFFICES ASSUME WorkerBlock(w) = queue[i].block PROVE FALSE
    OBVIOUS
  <1>2. WorkerBlock(w) \in Nat
    BY <1>1 DEF Layout, TypeOK, BufferType
  <1>3. Batch + Cardinality(InSteps(Unfinished, WorkerBlock(w)))
          = Own(WorkerBlock(w)) + Missing(WorkerBlock(w))
    BY <1>1, <1>2 DEF Counts
  <1>4. /\ Cardinality(InSteps(Unfinished, WorkerBlock(w))) >= 1
        /\ Cardinality(InSteps(Unfinished, WorkerBlock(w))) \in Nat
    BY <1>2, StepsPositive, StepsFinite DEF Layout
  <1>5. QED BY <1>2, <1>3, <1>4, OwnBound, Sizes

(* A row given to one more worker of a buffer is one more row given.       *)
LEMMA GivenRowsMore ==
  ASSUME Layout, NEW w \in Workers, wstep[w] # "fill", wstep'[w] = "fill",
         NEW j \in Indices, Offset(WorkerBlock(w)) = j,
         NEW n \in Rows, wrow'[w] = n, Others(w), wpos'[w] = wpos[w],
         \A i \in Indices : queue'[i].rows = queue[i].rows
  PROVE  /\ GivenRows(j)' = GivenRows(j) \cup {n}
         /\ \A i \in Indices \ {j} : GivenRows(i)' = GivenRows(i)
  <1>1. \A v \in Workers : Offset(WorkerBlock(v))' = Offset(WorkerBlock(v))
    BY DEF Others, WorkerBlock, BlockOf, Offset
  <1>2. \A v \in Workers \ {w} : wstep'[v] = wstep[v] /\ wrow'[v] = wrow[v]
    BY DEF Others
  <1>3. QED BY <1>1, <1>2 DEF GivenRows, Rows

(* The second counter hands out a row nobody has: the next one, or the one *)
(* the worker comes with.                                                  *)
LEMMA TakeRowStep ==
  ASSUME IInv, NEW w \in Workers, NEW order \in Orders(w), TakeRow(w, order),
         UNCHANGED in_flight
  PROVE  IInv'
  <1> USE DEF IInv
  <1>1. /\ wstep[w] = "take" /\ Layout /\ TypeOK /\ Reader
        /\ UNCHANGED <<alloc_count, done_ptr, stockVars, wenv, wpos, readerVars>>
    BY DEF TakeRow, MoveWorker, Layout
  <1>2. PICK k \in Nat, j \in Indices :
          /\ k = WorkerBlock(w) /\ j = Offset(k) /\ queue[j].block = k
          /\ \A i \in Indices \ {j} : queue[i].block # k
          /\ queue[j] \in BufferType
    BY <1>1, WorkerBuffer
  <1>3. PICK m \in Rows : m = queue[j].offsets
    BY <1>1, <1>2, RowFree
  <1>4. PICK n \in Rows :
          /\ n = (IF order = Unordered THEN m ELSE order)
          /\ n \notin GivenRows(j)
          /\ n \in 0 .. Batch - MadeUp - 1
          /\ ~IsSync => n = m
    <2>1. MadeUp \in Nat /\ (MadeUp > 0 => IsSync)
      BY <1>1, MadeUpBound
    <2>2. CASE IsSync
      <3>1. order \in 0 .. Batch - radd - 1 /\ order \notin GivenRows(j)
        BY <1>2, <2>2 DEF Orders
      <3>2. radd >= MadeUp /\ radd \in Nat
        BY <1>1 DEF MadeUp, TypeOK
      <3>3. order \in Rows /\ order # Unordered /\ order \in 0 .. Batch - MadeUp - 1
        BY <2>1, <3>1, <3>2, Sizes DEF Rows, Unordered
      <3>4. QED BY <2>2, <3>1, <3>3
    <2>3. CASE ~IsSync
      <3>1. order = Unordered
        BY <2>3 DEF Orders
      <3>2. m \in 0 .. Batch - MadeUp - 1
        BY <1>3, <2>1, <2>3, Sizes DEF Rows
      <3>3. m \notin GivenRows(j)
        BY <1>3, <2>3, Sizes DEF Marked, Rows
      <3>4. QED BY <2>3, <3>1, <3>2, <3>3
    <2>4. QED BY <2>2, <2>3
  <1>5. /\ wstep' = [wstep EXCEPT ![w] = "fill"]
        /\ wrow' = [wrow EXCEPT ![w] = n]
        /\ queue' = [queue EXCEPT ![j] = [queue[j] EXCEPT !.offsets = m + 1]]
    BY <1>2, <1>3, <1>4 DEF TakeRow, MoveWorker, Buffer
  <1>6. n \in Nat /\ m \in Nat /\ m + 1 \in Nat
    BY <1>3, <1>4, Sizes DEF Rows
  <1>7. /\ queue' \in [Indices -> BufferType]
        /\ queue'[j] = [queue[j] EXCEPT !.offsets = m + 1]
        /\ \A i \in Indices \ {j} : queue'[i] = queue[i]
    <2>1. [queue[j] EXCEPT !.offsets = m + 1] \in BufferType
      BY <1>2, <1>6 DEF BufferType
    <2>2. QED BY <1>1, <1>5, <2>1, ReplaceBuffer
  <1>8. /\ \A i \in Indices : /\ queue'[i].block = queue[i].block
                              /\ queue'[i].allocs = queue[i].allocs
                              /\ queue'[i].dones = queue[i].dones
                              /\ queue'[i].ready = queue[i].ready
                              /\ queue'[i].rows = queue[i].rows
        /\ queue'[j].offsets = m + 1
    BY <1>2, <1>7 DEF BufferType
  <1>9. wstep'[w] = "fill" /\ wrow'[w] = n /\ Others(w)
    BY <1>1, <1>5 DEF TypeOK, Others
  <1>10. TypeOK'
    <2>1. wstep' \in [Workers -> WorkerSteps] /\ wrow' \in [Workers -> Nat]
      BY <1>1, <1>5, <1>6 DEF TypeOK, WorkerSteps
    <2>2. QED BY <1>1, <1>7, <2>1 DEF TypeOK, stockVars, readerVars
  <1>11. Layout'
    BY <1>1, <1>8, <1>9, <1>10, WorkerLayout
  <1>12. Counts'
    <2>1. SUFFICES ASSUME NEW i \in Indices, NEW b \in Nat, queue'[i].block = b
                   PROVE  /\ queue'[i].allocs + Cardinality(InSteps({"count"}, b)') = Own(b)'
                          /\ queue'[i].offsets + Cardinality(InSteps({"count", "take"}, b)')
                               = Own(b)'
                          /\ queue'[i].dones + Cardinality(InSteps(Unfinished, b)')
                               = Own(b)' + Missing(b)'
      BY DEF Counts
    <2>2. queue[i].block = b
      BY <1>8, <2>1
    <2>3. Cardinality(InSteps({"count", "take"}, b)')
            = Cardinality(InSteps({"count", "take"}, b)) - (IF k = b THEN 1 ELSE 0)
      BY <1>1, <1>2, <1>9, StepsOut DEF Layout
    <2>4. InSteps({"count"}, b)' = InSteps({"count"}, b)
      BY <1>1, <1>9, StepsSame DEF Others
    <2>5. InSteps(Unfinished, b)' = InSteps(Unfinished, b)
      BY <1>1, <1>9, StepsSame DEF Others, Unfinished
    <2>6. Own(b)' = Own(b) /\ Missing(b)' = Missing(b) /\ Own(b) \in Int /\ Missing(b) \in Nat
      BY <1>1, OwnSame, OwnBound DEF readerVars
    <2>7. queue'[i].offsets = queue[i].offsets + (IF k = b THEN 1 ELSE 0)
      BY <1>2, <1>3, <1>7, <1>8, <2>2 DEF BufferType, TypeOK
    <2>8. queue[i].offsets \in Nat /\ Cardinality(InSteps({"count", "take"}, b)) \in Nat
      BY <1>1, StepsFinite DEF TypeOK, BufferType
    <2>9. queue'[i].offsets + Cardinality(InSteps({"count", "take"}, b)') = Own(b)'
      BY <2>2, <2>3, <2>6, <2>7, <2>8 DEF Counts
    <2>10. QED BY <1>8, <2>2, <2>4, <2>5, <2>6, <2>9 DEF Counts
  <1>13. Signals'
    BY <1>1, <1>8, <1>9, SignalsSame DEF readerVars, Others
  <1>14. \A v \in Workers : /\ WorkerBlock(v)' = WorkerBlock(v)
                            /\ wstep[v] # "idle" => Offset(WorkerBlock(v)) \in Indices
    BY <1>1, WorkerInPlace DEF WorkerBlock, BlockOf
  <1>15. queue[j].rows[n] = NoRow
    BY <1>4 DEF GivenRows
  <1>16. \A v \in Workers \ {w} :
           wstep[v] \in {"fill", "done"} /\ WorkerBlock(v) = k => wrow[v] # n
    <2>1. SUFFICES ASSUME NEW v \in Workers \ {w}, wstep[v] \in {"fill", "done"},
                          WorkerBlock(v) = k, wrow[v] = n
                   PROVE  FALSE
      OBVIOUS
    <2>2. CASE wstep[v] = "fill"
      BY <1>2, <1>4, <2>1, <2>2 DEF GivenRows
    <2>3. CASE wstep[v] = "done"
      BY <1>2, <1>15, <2>1, <2>3 DEF Written, Buffer
    <2>4. QED BY <2>1, <2>2, <2>3
  <1>17. Given'
    <2>1. \A v \in Workers : wstep'[v] \in {"fill", "done", "signal"} => wrow'[v] \in Rows
      BY <1>9 DEF Given, Others
    <2>2. ASSUME NEW u \in Workers, NEW v \in Workers,
                 wstep'[u] \in {"fill", "done"}, wstep'[v] \in {"fill", "done"},
                 WorkerBlock(u) = WorkerBlock(v), wrow'[u] = wrow'[v], u # v
          PROVE  FALSE
      <3>1. CASE u = w
        BY <1>2, <1>9, <1>16, <2>2, <3>1 DEF Others
      <3>2. CASE v = w
        BY <1>2, <1>9, <1>16, <2>2, <3>2 DEF Others
      <3>3. CASE u # w /\ v # w
        BY <1>9, <2>2, <3>3 DEF Given, Others
      <3>4. QED BY <3>1, <3>2, <3>3
    <2>3. ASSUME NEW v \in Workers, wstep'[v] = "fill"
          PROVE  queue'[Offset(WorkerBlock(v))].rows[wrow'[v]] = NoRow
      <3>1. CASE v = w
        BY <1>2, <1>8, <1>9, <1>15, <3>1
      <3>2. CASE v # w
        BY <1>8, <1>9, <1>14, <2>3, <3>2 DEF Given, Buffer, Others
      <3>3. QED BY <3>1, <3>2
    <2>4. QED BY <1>14, <2>1, <2>2, <2>3 DEF Given, Buffer, Offset, Rows
  <1>18. Written'
    BY <1>1, <1>8, <1>9, WrittenSame DEF Others
  <1>19. Marked'
    <2>1. /\ GivenRows(j)' = GivenRows(j) \cup {n}
          /\ \A i \in Indices \ {j} : GivenRows(i)' = GivenRows(i)
      BY <1>1, <1>2, <1>8, <1>9, GivenRowsMore
    <2>2. MadeUp' = MadeUp
      BY <1>1 DEF MadeUp, readerVars
    <2>3. Cardinality(GivenRows(j)') = m + 1
      <3>1. IsFiniteSet(GivenRows(j))
        <4>1. IsFiniteSet(Rows) /\ GivenRows(j) \subseteq Rows
          BY Sizes, FS_Interval DEF Rows, GivenRows
        <4>2. QED BY <4>1, FS_Subset
      <3>2. Cardinality(GivenRows(j) \cup {n}) = Cardinality(GivenRows(j)) + 1
        BY <1>4, <3>1, FS_AddElement
      <3>3. Cardinality(GivenRows(j)) = m
        BY <1>3 DEF Marked
      <3>4. QED BY <2>1, <3>2, <3>3
    <2>4. PICK x \in Nat : x = m + 1 /\ x = queue'[j].offsets
      BY <1>6, <1>8
    <2>5. ~IsSync => GivenRows(j)' = 0 .. x - 1
      <3>1. ~IsSync => n = m /\ GivenRows(j) = 0 .. m - 1
        BY <1>3, <1>4 DEF Marked
      <3>2. 0 .. x - 1 = (0 .. m - 1) \cup {m}
        BY <1>6, <2>4
      <3>3. QED BY <2>1, <3>1, <3>2
    <2>6. GivenRows(j)' \subseteq 0 .. Batch - MadeUp - 1
      BY <1>4, <2>1 DEF Marked
    <2>7. ASSUME NEW i \in Indices
          PROVE  /\ Cardinality(GivenRows(i)') = queue'[i].offsets
                 /\ GivenRows(i)' \subseteq 0 .. Batch - MadeUp - 1
                 /\ ~IsSync => GivenRows(i)' = 0 .. queue'[i].offsets - 1
      <3>1. CASE i = j
        <4>1. /\ Cardinality(GivenRows(j)') = queue'[j].offsets
              /\ ~IsSync => GivenRows(j)' = 0 .. queue'[j].offsets - 1
          BY <2>4, <2>3, <2>5, Zenon
        <4>2. QED BY <2>6, <3>1, <4>1, Zenon
      <3>2. CASE i # j
        BY <1>7, <2>1, <3>2 DEF Marked
      <3>3. QED BY <3>1, <3>2
    <2>8. QED BY <2>2, <2>7 DEF Marked
  <1>20. Sent'
    BY <1>1, <1>8, <1>9, SentSame DEF Others, Holding
  <1>21. Taken'
    BY <1>1, <1>8, <1>9, TakenSame DEF Others, Holding
  <1>22. QED BY <1>11, <1>12, <1>13, <1>17, <1>18, <1>19, <1>20, <1>21

(* Filling a row touches no other row, and not the buffer the reader is    *)
(* collecting.                                                             *)
LEMMA FillRowStep ==
  ASSUME IInv, NEW w \in Workers, FillRow(w, wenv[w]), UNCHANGED in_flight
  PROVE  IInv'
  <1> USE DEF IInv
  <1>1. /\ wstep[w] = "fill" /\ Layout /\ TypeOK
        /\ UNCHANGED <<alloc_count, done_ptr, stockVars, wenv, wpos, wrow, readerVars>>
    BY DEF FillRow, MoveWorker, Layout
  <1>2. PICK k \in Nat, j \in Indices :
          /\ k = WorkerBlock(w) /\ j = Offset(k) /\ queue[j].block = k
          /\ \A i \in Indices \ {j} : queue[i].block # k
          /\ queue[j] \in BufferType
    BY <1>1, WorkerBuffer
  <1>3. PICK n \in Rows : n = wrow[w] /\ queue[j].rows[n] = NoRow
    BY <1>1, <1>2 DEF Given, Buffer
  <1>4. PICK e \in Envs : e = wenv[w] /\ e \in in_flight
    BY <1>1 DEF Sent, Holding, TypeOK
  <1>5. e # NoRow
    BY RowAssumption
  <1>6. PICK f : f = [queue[j].rows EXCEPT ![n] = e]
    OBVIOUS
  <1>7. /\ wstep' = [wstep EXCEPT ![w] = "done"]
        /\ queue' = [queue EXCEPT ![j] = [queue[j] EXCEPT !.rows = f]]
    BY <1>2, <1>3, <1>4, <1>6 DEF FillRow, MoveWorker
  <1>8. f \in [Rows -> Envs \cup {NoRow}] /\ f[n] = e
        /\ \A r \in Rows \ {n} : f[r] = queue[j].rows[r]
    BY <1>2, <1>6 DEF BufferType
  <1>9. /\ queue' \in [Indices -> BufferType]
        /\ queue'[j] = [queue[j] EXCEPT !.rows = f]
        /\ \A i \in Indices \ {j} : queue'[i] = queue[i]
    <2>1. [queue[j] EXCEPT !.rows = f] \in BufferType
      BY <1>2, <1>8 DEF BufferType
    <2>2. QED BY <1>1, <1>7, <2>1, ReplaceBuffer
  <1>10. /\ \A i \in Indices : /\ queue'[i].block = queue[i].block
                               /\ queue'[i].allocs = queue[i].allocs
                               /\ queue'[i].offsets = queue[i].offsets
                               /\ queue'[i].dones = queue[i].dones
                               /\ queue'[i].ready = queue[i].ready
         /\ queue'[j].rows = f
    BY <1>2, <1>9 DEF BufferType
  <1>11. wstep'[w] = "done" /\ Others(w)
    BY <1>1, <1>7 DEF TypeOK, Others
  <1>12. TypeOK'
    <2>1. wstep' \in [Workers -> WorkerSteps]
      BY <1>1, <1>7 DEF TypeOK, WorkerSteps
    <2>2. QED BY <1>1, <1>9, <2>1 DEF TypeOK, stockVars, readerVars
  <1>13. Layout'
    BY <1>1, <1>10, <1>11, <1>12, WorkerLayout
  <1>14. Counts'
    <2>1. \A m \in Nat : Own(m)' = Own(m) /\ Missing(m)' = Missing(m)
      BY <1>1, OwnSame DEF readerVars
    <2>2. QED BY <1>1, <1>10, <1>11, <2>1, CountsSame DEF Others
  <1>15. Signals'
    BY <1>1, <1>10, <1>11, SignalsSame DEF readerVars, Others
  <1>16. \A v \in Workers : /\ WorkerBlock(v)' = WorkerBlock(v)
                            /\ wstep[v] # "idle" =>
                                 /\ Offset(WorkerBlock(v)) \in Indices
                                 /\ WorkerBlock(v) = queue[Offset(WorkerBlock(v))].block
    BY <1>1, WorkerInPlace DEF WorkerBlock, BlockOf, Buffer
  <1>17. \A v \in Workers : wstep'[v] \in {"fill", "done"} <=> wstep[v] \in {"fill", "done"}
    BY <1>1, <1>11 DEF Others
  <1>18. Given'
    <2>1. \A v \in Workers : wstep'[v] \in {"fill", "done", "signal"} => wrow'[v] \in Rows
      BY <1>1, <1>11 DEF Given, Others
    <2>2. \A u, v \in Workers :
            /\ wstep'[u] \in {"fill", "done"} /\ wstep'[v] \in {"fill", "done"}
            /\ WorkerBlock(u) = WorkerBlock(v) /\ wrow'[u] = wrow'[v]
            => u = v
      BY <1>1, <1>17 DEF Given
    <2>3. ASSUME NEW v \in Workers, wstep'[v] = "fill"
          PROVE  queue'[Offset(WorkerBlock(v))].rows[wrow'[v]] = NoRow
      <3>1. v # w /\ wstep[v] = "fill" /\ wrow'[v] = wrow[v]
        BY <1>1, <1>11, <2>3 DEF Others
      <3>2. queue[Offset(WorkerBlock(v))].rows[wrow[v]] = NoRow
        BY <3>1 DEF Given, Buffer
      <3>3. CASE Offset(WorkerBlock(v)) # j
        BY <1>9, <1>16, <3>1, <3>2, <3>3
      <3>4. CASE Offset(WorkerBlock(v)) = j
        <4>1. WorkerBlock(v) = k
          BY <1>2, <1>16, <3>1, <3>4
        <4>2. wrow[v] # n
          BY <1>1, <1>2, <1>3, <3>1, <4>1 DEF Given
        <4>3. wrow[v] \in Rows
          BY <3>1 DEF Given
        <4>4. QED BY <1>8, <1>10, <3>1, <3>2, <3>4, <4>2, <4>3
      <3>5. QED BY <3>3, <3>4
    <2>4. QED BY <1>16, <2>1, <2>2, <2>3 DEF Given, Buffer, Offset, Rows
  <1>19. Written' /\ Marked'
    <2>1. ASSUME NEW v \in Workers, wstep'[v] \in {"done", "signal"}
          PROVE  /\ wenv'[v] # NoRow
                 /\ queue'[Offset(WorkerBlock(v))].rows[wrow'[v]] = wenv'[v]
      <3>1. CASE v = w
        BY <1>1, <1>2, <1>3, <1>4, <1>5, <1>8, <1>10, <3>1
      <3>2. CASE v # w
        <4>1. /\ wstep[v] \in {"done", "signal"} /\ wrow'[v] = wrow[v] /\ wenv'[v] = wenv[v]
              /\ Offset(WorkerBlock(v)) \in Indices /\ wrow[v] \in Rows
          BY <1>11, <1>16, <2>1, <3>2 DEF Others, Given
        <4>2. queue[Offset(WorkerBlock(v))].rows[wrow[v]] = wenv[v] /\ wenv[v] # NoRow
          BY <4>1 DEF Written, Buffer
        <4>3. CASE Offset(WorkerBlock(v)) # j
          BY <1>9, <4>1, <4>2, <4>3
        <4>4. CASE Offset(WorkerBlock(v)) = j
          BY <1>3, <1>8, <1>10, <4>1, <4>2, <4>4
        <4>5. QED BY <4>3, <4>4
      <3>3. QED BY <3>1, <3>2
    <2>2. Written'
      BY <1>16, <2>1 DEF Written, Buffer, Offset
    <2>3. ASSUME NEW i \in Indices PROVE GivenRows(i)' = GivenRows(i)
      <3>1. \A v \in Workers \ {w} : /\ wstep'[v] = wstep[v] /\ wrow'[v] = wrow[v]
                                      /\ Offset(WorkerBlock(v))' = Offset(WorkerBlock(v))
        BY <1>11, <1>16 DEF Others, Offset
      <3>2. CASE i # j
        <4>1. queue'[i].rows = queue[i].rows
          BY <1>9, <3>2
        <4>2. Offset(WorkerBlock(w)) # i /\ Offset(WorkerBlock(w))' # i
          BY <1>2, <1>16, <3>2 DEF Offset
        <4>3. QED BY <3>1, <4>1, <4>2 DEF GivenRows, Rows
      <3>3. CASE i = j
        <4>1. ASSUME NEW r \in Rows, r # n PROVE r \in GivenRows(i)' <=> r \in GivenRows(i)
          <5>1. queue'[i].rows[r] = queue[i].rows[r]
            BY <1>8, <1>10, <3>3, <4>1
          <5>2. wrow[w] # r /\ wstep'[w] # "fill"
            BY <1>3, <1>11, <4>1
          <5>3. QED BY <3>1, <5>1, <5>2 DEF GivenRows, Rows
        <4>2. n \in GivenRows(i)' /\ n \in GivenRows(i)
          BY <1>1, <1>2, <1>3, <1>5, <1>8, <1>10, <3>3 DEF GivenRows, Rows
        <4>3. GivenRows(i)' \subseteq Rows /\ GivenRows(i) \subseteq Rows
          BY DEF GivenRows, Rows
        <4>4. QED BY <4>1, <4>2, <4>3
      <3>4. QED BY <3>2, <3>3
    <2>4. MadeUp' = MadeUp
      BY <1>1 DEF MadeUp, readerVars
    <2>5. QED BY <1>10, <2>2, <2>3, <2>4 DEF Marked
  <1>20. \A v \in Workers : wstep'[v] \in Holding =>
           v # w /\ wstep[v] \in Holding /\ wenv'[v] = wenv[v]
    BY <1>1, <1>11 DEF Others, Holding
  <1>21. \A i \in Indices, r \in Rows :
           \/ i = j /\ r = n /\ queue'[i].rows[r] = e
           \/ (i # j \/ r # n) /\ queue'[i].rows[r] = queue[i].rows[r]
    BY <1>8, <1>9, <1>10
  <1>22. \A i \in Indices, r \in Rows : queue[i].rows[r] # e
    BY <1>1, <1>4, <1>5 DEF Sent, Holding
  <1>23. Sent'
    <2>1. \A v \in Workers : wstep'[v] \in Holding => wenv'[v] \in in_flight'
      BY <1>20 DEF Sent
    <2>2. \A u, v \in Workers :
            wstep'[u] \in Holding /\ wstep'[v] \in Holding /\ wenv'[u] = wenv'[v] => u = v
      BY <1>20 DEF Sent
    <2>3. ASSUME NEW i \in Indices, NEW r \in Rows, queue'[i].rows[r] # NoRow
          PROVE  /\ queue'[i].rows[r] \in in_flight'
                 /\ \A v \in Workers : wstep'[v] \in Holding => wenv'[v] # queue'[i].rows[r]
                 /\ \A m \in Indices, s \in Rows :
                      queue'[m].rows[s] = queue'[i].rows[r] => i = m /\ r = s
      <3>1. CASE i = j /\ r = n
        <4>1. \A v \in Workers : wstep'[v] \in Holding => wenv'[v] # e
          BY <1>1, <1>4, <1>20 DEF Sent, Holding
        <4>2. queue'[i].rows[r] = e
          BY <1>21, <3>1
        <4>3. \A m \in Indices, s \in Rows : queue'[m].rows[s] = e => m = j /\ s = n
          BY <1>21, <1>22
        <4>4. QED BY <1>4, <3>1, <4>1, <4>2, <4>3
      <3>2. CASE i # j \/ r # n
        <4>1. queue'[i].rows[r] = queue[i].rows[r]
          BY <1>21, <3>2
        <4>2. queue[i].rows[r] # NoRow /\ queue[i].rows[r] # e
          BY <1>22, <2>3, <4>1
        <4>3. /\ queue[i].rows[r] \in in_flight
              /\ \A v \in Workers : wstep[v] \in Holding => wenv[v] # queue[i].rows[r]
              /\ \A m \in Indices, s \in Rows :
                   queue[m].rows[s] = queue[i].rows[r] => i = m /\ r = s
          BY <4>2 DEF Sent
        <4>4. PICK x : x = queue[i].rows[r]
          OBVIOUS
        <4>5. \A m \in Indices, s \in Rows : queue'[m].rows[s] = x => i = m /\ r = s
          <5>1. SUFFICES ASSUME NEW m \in Indices, NEW s \in Rows, queue'[m].rows[s] = x
                         PROVE  i = m /\ r = s
            OBVIOUS
          <5>2. x # e
            BY <4>2, <4>4
          <5>3. queue[m].rows[s] = x
            BY <1>21, <5>1, <5>2
          <5>4. QED BY <4>3, <4>4, <5>3
        <4>6. \A v \in Workers : wstep'[v] \in Holding => wenv'[v] # x
          BY <1>20, <4>3, <4>4
        <4>7. QED BY <4>1, <4>3, <4>4, <4>5, <4>6
      <3>3. QED BY <3>1, <3>2
    <2>4. QED BY <2>1, <2>2, <2>3 DEF Sent, Rows
  <1>24. Taken'
    <2>1. rstep' = rstep /\ rpos' = rpos /\ ret' = ret /\ radd' = radd
      BY <1>1 DEF readerVars
    <2>2. rstep \in {"advance", "swap"} => Buffer(rpos)' = Buffer(rpos)
      <3>1. HAVE rstep \in {"advance", "swap"}
      <3>2. Offset(rpos) \in Indices /\ queue[Offset(rpos)].block = rpos
            /\ queue[Offset(rpos)].dones = Batch
        BY <1>1, <3>1, ReaderInPlace DEF Signals, Buffer, Passed
      <3>3. k # rpos
        BY <1>1, <1>2, <3>2, NoneLeft DEF Unfinished
      <3>4. Offset(rpos) # j
        BY <1>2, <3>2, <3>3
      <3>5. QED BY <1>9, <2>1, <3>2, <3>4 DEF Buffer, Offset
    <2>3. ASSUME rstep = "return", NEW m \in 1 .. Batch - radd
          PROVE  /\ \A l \in 1 .. Batch - radd : ret[l] = ret[m] => l = m
                 /\ \A v \in Workers : wstep'[v] \in Holding => wenv'[v] # ret[m]
                 /\ \A i \in Indices, r \in Rows : queue'[i].rows[r] # ret[m]
      <3>1. e # ret[m]
        BY <1>1, <1>4, <2>3 DEF Taken, Holding
      <3>2. QED BY <1>20, <1>21, <2>3, <3>1 DEF Taken
    <2>4. QED BY <2>1, <2>2, <2>3 DEF Taken, Rows
  <1>25. QED BY <1>13, <1>14, <1>15, <1>18, <1>19, <1>23, <1>24

(* The last of a batch to be done, and it alone, goes on to signal.        *)
LEMMA DoneStep ==
  ASSUME IInv, NEW w \in Workers, Done(w), UNCHANGED in_flight
  PROVE  IInv'
  <1> USE DEF IInv
  <1>1. /\ wstep[w] = "done" /\ Layout /\ TypeOK
        /\ UNCHANGED <<alloc_count, done_ptr, stockVars, readerVars>>
    BY DEF Done, Leave, MoveWorker, Layout
  <1>2. PICK k \in Nat, j \in Indices :
          /\ k = WorkerBlock(w) /\ j = Offset(k) /\ queue[j].block = k
          /\ \A i \in Indices \ {j} : queue[i].block # k
          /\ queue[j] \in BufferType
    BY <1>1, WorkerBuffer
  <1>3. PICK d \in Nat : d = queue[j].dones
    BY <1>2 DEF BufferType
  <1>4. /\ wstep' = [wstep EXCEPT ![w] = IF d + 1 = Batch THEN "signal" ELSE "idle"]
        /\ queue' = [queue EXCEPT ![j] = [queue[j] EXCEPT !.dones = d + 1]]
    BY <1>2, <1>3 DEF Done, Leave, MoveWorker, Buffer
  <1>5. /\ queue' \in [Indices -> BufferType]
        /\ queue'[j] = [queue[j] EXCEPT !.dones = d + 1]
        /\ \A i \in Indices \ {j} : queue'[i] = queue[i]
    <2>1. [queue[j] EXCEPT !.dones = d + 1] \in BufferType
      BY <1>2, <1>3 DEF BufferType
    <2>2. QED BY <1>1, <1>4, <2>1, ReplaceBuffer
  <1>6. /\ \A i \in Indices : /\ queue'[i].block = queue[i].block
                              /\ queue'[i].allocs = queue[i].allocs
                              /\ queue'[i].offsets = queue[i].offsets
                              /\ queue'[i].ready = queue[i].ready
                              /\ queue'[i].rows = queue[i].rows
        /\ queue'[j].dones = d + 1
    BY <1>2, <1>5 DEF BufferType
  <1>7. /\ wstep'[w] = IF d + 1 = Batch THEN "signal" ELSE "idle"
        /\ wstep'[w] = "signal" =>
             wpos'[w] = wpos[w] /\ wrow'[w] = wrow[w] /\ wenv'[w] = wenv[w]
        /\ Others(w)
    BY <1>1, <1>2, <1>3, <1>4 DEF TypeOK, Others, Done, Leave, Buffer
  <1>8. TypeOK'
    <2>1. wstep' \in [Workers -> WorkerSteps]
      BY <1>1, <1>4 DEF TypeOK, WorkerSteps
    <2>2. wenv' \in [Workers -> Envs \cup {NoRow}]
      BY <1>1 DEF Done, Leave, TypeOK
    <2>3. wpos' \in [Workers -> Nat]
      BY <1>1 DEF Done, Leave, TypeOK
    <2>4. wrow' \in [Workers -> Nat]
      BY <1>1 DEF Done, Leave, TypeOK
    <2>5. QED BY <1>1, <1>5, <2>1, <2>2, <2>3, <2>4 DEF TypeOK, stockVars, readerVars
  <1>9. Layout'
    BY <1>1, <1>6, <1>7, <1>8, WorkerLayout
  <1>10. Counts'
    <2>1. SUFFICES ASSUME NEW i \in Indices, NEW m \in Nat, queue'[i].block = m
                   PROVE  /\ queue'[i].allocs + Cardinality(InSteps({"count"}, m)') = Own(m)'
                          /\ queue'[i].offsets + Cardinality(InSteps({"count", "take"}, m)')
                               = Own(m)'
                          /\ queue'[i].dones + Cardinality(InSteps(Unfinished, m)')
                               = Own(m)' + Missing(m)'
      BY DEF Counts
    <2>2. queue[i].block = m
      BY <1>6, <2>1
    <2>3. Cardinality(InSteps(Unfinished, m)')
            = Cardinality(InSteps(Unfinished, m)) - (IF k = m THEN 1 ELSE 0)
      BY <1>1, <1>2, <1>7, StepsOut DEF Layout, Unfinished
    <2>4. InSteps({"count"}, m)' = InSteps({"count"}, m)
      BY <1>1, <1>7, StepsSame DEF Others
    <2>5. InSteps({"count", "take"}, m)' = InSteps({"count", "take"}, m)
      BY <1>1, <1>7, StepsSame DEF Others
    <2>6. Own(m)' = Own(m) /\ Missing(m)' = Missing(m) /\ Own(m) \in Int /\ Missing(m) \in Nat
      BY <1>1, OwnSame, OwnBound DEF readerVars
    <2>7. queue'[i].dones = queue[i].dones + (IF k = m THEN 1 ELSE 0)
      BY <1>2, <1>3, <1>5, <1>6, <2>2 DEF BufferType, TypeOK
    <2>8. queue[i].dones \in Nat /\ Cardinality(InSteps(Unfinished, m)) \in Nat
      BY <1>1, StepsFinite DEF TypeOK, BufferType
    <2>9. queue'[i].dones + Cardinality(InSteps(Unfinished, m)') = Own(m)' + Missing(m)'
      BY <2>2, <2>3, <2>6, <2>7, <2>8 DEF Counts
    <2>10. QED BY <1>6, <2>2, <2>4, <2>5, <2>6, <2>9 DEF Counts
  <1>11. d # Batch
    BY <1>1, <1>2, <1>3, NoneLeft DEF Unfinished
  <1>12. queue[j].ready = 0
    <2>1. queue[j].ready \in Nat
      BY <1>2 DEF BufferType
    <2>2. QED BY <1>3, <1>11, <2>1 DEF Signals
  <1>13. \A v \in Workers : wstep[v] = "signal" =>
           /\ v # w /\ Offset(WorkerBlock(v)) \in Indices
           /\ Offset(WorkerBlock(v)) # j /\ WorkerBlock(v) # k
    BY <1>1, <1>2, <1>3, <1>11, WorkerInPlace DEF Signals, Buffer
  <1>14. rstep \in Passed => Offset(rpos) \in Indices /\ Offset(rpos) # j /\ rpos # k
    BY <1>1, <1>2, <1>3, <1>11, ReaderInPlace DEF Signals, Buffer
  <1>15. rstep' = rstep /\ rpos' = rpos
    BY <1>1 DEF readerVars
  <1>16. \A v \in Workers : wstep'[v] = "signal" =>
           /\ WorkerBlock(v)' = WorkerBlock(v)
           /\ v = w \/ wstep[v] = "signal"
    BY <1>7 DEF Others, WorkerBlock, BlockOf
  <1>17. Signals'
    <2>1. \A i \in Indices : queue'[i].ready > 0 =>
            queue'[i].dones = Batch /\ queue'[i].ready = 1
      BY <1>5, <1>6, <1>12 DEF Signals
    <2>2. ASSUME NEW v \in Workers, wstep'[v] = "signal"
          PROVE  /\ queue'[Offset(WorkerBlock(v))].dones = Batch
                 /\ queue'[Offset(WorkerBlock(v))].ready = 0
                 /\ rstep' \in Passed => WorkerBlock(v) # rpos'
                 /\ \A u \in Workers : wstep'[u] = "signal" /\ WorkerBlock(u) = WorkerBlock(v)
                                         => u = v
      <3>1. CASE v = w
        <4>1. d + 1 = Batch
          BY <1>7, <2>2, <3>1
        <4>2. queue'[j].dones = Batch /\ queue'[j].ready = 0
          BY <1>6, <1>12, <4>1
        <4>3. rstep' \in Passed => k # rpos'
          BY <1>14, <1>15
        <4>4. \A u \in Workers : wstep'[u] = "signal" /\ WorkerBlock(u) = k => u = w
          BY <1>13, <1>16
        <4>5. QED BY <1>2, <3>1, <4>2, <4>3, <4>4
      <3>2. CASE v # w
        <4>1. wstep[v] = "signal"
          BY <1>16, <2>2, <3>2
        <4>2. queue'[Offset(WorkerBlock(v))] = queue[Offset(WorkerBlock(v))]
          BY <1>5, <1>13, <4>1
        <4>3. \A u \in Workers : wstep'[u] = "signal" /\ WorkerBlock(u) = WorkerBlock(v) => u = v
          BY <1>2, <1>13, <1>16, <4>1 DEF Signals
        <4>4. QED BY <1>15, <4>1, <4>2, <4>3 DEF Signals, Buffer
      <3>3. QED BY <3>1, <3>2
    <2>3. rstep' \in Passed =>
            queue'[Offset(rpos)].dones = Batch /\ queue'[Offset(rpos)].ready = 0
      BY <1>5, <1>14, <1>15 DEF Signals, Buffer
    <2>4. QED BY <1>15, <1>16, <2>1, <2>2, <2>3 DEF Signals, Buffer, Offset
  <1>18. Given'
    BY <1>1, <1>6, <1>7, GivenSame DEF Others
  <1>19. Written'
    BY <1>1, <1>6, <1>7, WrittenSame DEF Others
  <1>20. Marked'
    BY <1>1, <1>6, <1>7, MarkedSame DEF Others, MadeUp, readerVars
  <1>21. Sent'
    BY <1>1, <1>6, <1>7, SentSame DEF Others, Holding
  <1>22. Taken'
    BY <1>1, <1>6, <1>7, TakenSame DEF Others, Holding
  <1>23. QED BY <1>9, <1>10, <1>17, <1>18, <1>19, <1>20, <1>21, <1>22

(* The signal is sent once.                                                *)
LEMMA SignalReadyStep ==
  ASSUME IInv, NEW w \in Workers, SignalReady(w), UNCHANGED in_flight
  PROVE  IInv'
  <1> USE DEF IInv
  <1>1. /\ wstep[w] = "signal" /\ Layout /\ TypeOK
        /\ UNCHANGED <<alloc_count, done_ptr, stockVars, readerVars>>
    BY DEF SignalReady, MoveWorker, Layout
  <1>2. PICK k \in Nat, j \in Indices :
          /\ k = WorkerBlock(w) /\ j = Offset(k) /\ queue[j].block = k
          /\ \A i \in Indices \ {j} : queue[i].block # k
          /\ queue[j] \in BufferType
    BY <1>1, WorkerBuffer
  <1>3. queue[j].ready = 0 /\ queue[j].dones = Batch /\ (rstep \in Passed => k # rpos)
    BY <1>1, <1>2 DEF Signals, Buffer
  <1>4. /\ wstep' = [wstep EXCEPT ![w] = "idle"]
        /\ queue' = [queue EXCEPT ![j] = [queue[j] EXCEPT !.ready = 1]]
    <2>1. 0 + 1 = 1 OBVIOUS
    <2>2. QED BY <1>2, <1>3, <2>1 DEF SignalReady, MoveWorker
  <1>5. /\ queue' \in [Indices -> BufferType]
        /\ queue'[j] = [queue[j] EXCEPT !.ready = 1]
        /\ \A i \in Indices \ {j} : queue'[i] = queue[i]
    <2>1. [queue[j] EXCEPT !.ready = 1] \in BufferType
      BY <1>2 DEF BufferType
    <2>2. QED BY <1>1, <1>4, <2>1, ReplaceBuffer
  <1>6. /\ \A i \in Indices : /\ queue'[i].block = queue[i].block
                              /\ queue'[i].allocs = queue[i].allocs
                              /\ queue'[i].offsets = queue[i].offsets
                              /\ queue'[i].dones = queue[i].dones
                              /\ queue'[i].rows = queue[i].rows
        /\ queue'[j].ready = 1
    BY <1>2, <1>5 DEF BufferType
  <1>7. wstep'[w] = "idle" /\ Others(w)
    BY <1>1, <1>4 DEF TypeOK, Others, SignalReady
  <1>8. TypeOK'
    <2>1. wstep' \in [Workers -> WorkerSteps]
      BY <1>1, <1>4 DEF TypeOK, WorkerSteps
    <2>2. /\ wenv' \in [Workers -> Envs \cup {NoRow}]
          /\ wpos' \in [Workers -> Nat] /\ wrow' \in [Workers -> Nat]
      BY <1>1 DEF SignalReady, TypeOK
    <2>3. QED BY <1>1, <1>5, <2>1, <2>2 DEF TypeOK, stockVars, readerVars
  <1>9. Layout'
    BY <1>1, <1>6, <1>7, <1>8, WorkerLayout
  <1>10. Counts'
    <2>1. \A m \in Nat : Own(m)' = Own(m) /\ Missing(m)' = Missing(m)
      BY <1>1, OwnSame DEF readerVars
    <2>2. QED BY <1>1, <1>6, <1>7, <2>1, CountsSame DEF Others
  <1>11. rstep' = rstep /\ rpos' = rpos
    BY <1>1 DEF readerVars
  <1>12. \A v \in Workers : wstep'[v] = "signal" =>
           /\ WorkerBlock(v)' = WorkerBlock(v)
           /\ wstep[v] = "signal" /\ WorkerBlock(v) # k
           /\ Offset(WorkerBlock(v)) \in Indices /\ Offset(WorkerBlock(v)) # j
    <2>1. SUFFICES ASSUME NEW v \in Workers, wstep'[v] = "signal"
                   PROVE  /\ WorkerBlock(v)' = WorkerBlock(v)
                          /\ wstep[v] = "signal" /\ WorkerBlock(v) # k
                          /\ Offset(WorkerBlock(v)) \in Indices /\ Offset(WorkerBlock(v)) # j
      OBVIOUS
    <2>2. v # w /\ wstep[v] = "signal" /\ WorkerBlock(v)' = WorkerBlock(v)
      BY <1>7, <2>1 DEF Others, WorkerBlock, BlockOf
    <2>3. WorkerBlock(v) # k
      BY <1>1, <1>2, <2>2 DEF Signals
    <2>4. QED BY <1>1, <1>2, <2>2, <2>3, WorkerInPlace DEF Buffer
  <1>13. Signals'
    <2>1. \A i \in Indices : queue'[i].ready > 0 =>
            queue'[i].dones = Batch /\ queue'[i].ready = 1
      <3>1. \A i \in Indices \ {j} : queue'[i].ready > 0 =>
              queue'[i].dones = Batch /\ queue'[i].ready = 1
        BY <1>5 DEF Signals
      <3>2. queue'[j].dones = Batch /\ queue'[j].ready = 1
        BY <1>3, <1>6
      <3>3. QED BY <3>1, <3>2
    <2>2. ASSUME NEW v \in Workers, wstep'[v] = "signal"
          PROVE  /\ queue'[Offset(WorkerBlock(v))].dones = Batch
                 /\ queue'[Offset(WorkerBlock(v))].ready = 0
                 /\ rstep' \in Passed => WorkerBlock(v) # rpos'
                 /\ \A u \in Workers : wstep'[u] = "signal" /\ WorkerBlock(u) = WorkerBlock(v)
                                         => u = v
      <3>1. queue'[Offset(WorkerBlock(v))] = queue[Offset(WorkerBlock(v))]
        BY <1>5, <1>12, <2>2
      <3>2. QED BY <1>11, <1>12, <2>2, <3>1 DEF Signals, Buffer
    <2>3. rstep' \in Passed =>
            queue'[Offset(rpos)].dones = Batch /\ queue'[Offset(rpos)].ready = 0
      <3>1. HAVE rstep' \in Passed
      <3>2. Offset(rpos) \in Indices /\ Offset(rpos) # j
        BY <1>1, <1>2, <1>3, <1>11, <3>1, ReaderInPlace DEF Buffer
      <3>3. QED BY <1>5, <1>11, <3>1, <3>2 DEF Signals, Buffer
    <2>4. QED BY <1>11, <1>12, <2>1, <2>2, <2>3 DEF Signals, Buffer, Offset
  <1>14. Given'
    BY <1>1, <1>6, <1>7, GivenSame DEF Others
  <1>15. Written'
    BY <1>1, <1>6, <1>7, WrittenSame DEF Others
  <1>16. Marked'
    BY <1>1, <1>6, <1>7, MarkedSame DEF Others, MadeUp, readerVars
  <1>17. Sent'
    BY <1>1, <1>6, <1>7, SentSame DEF Others, Holding
  <1>18. Taken'
    BY <1>1, <1>6, <1>7, TakenSame DEF Others, Holding
  <1>19. QED BY <1>9, <1>10, <1>13, <1>14, <1>15, <1>16, <1>17, <1>18

-----------------------------------------------------------------------------
(* Claiming a position.                                                    *)

(* A claim adds to its batch.                                              *)
LEMMA ClaimedMore ==
  ASSUME TypeOK, alloc_count' = alloc_count + 1, NEW m \in Nat
  PROVE  Claimed(m)' = Claimed(m) + (IF BlockOf(alloc_count) = m THEN 1 ELSE 0)
  <1>1. PICK a \in Nat : a = alloc_count
    BY DEF TypeOK
  <1>2. PICK k \in Nat, q \in Nat :
          k = BlockOf(a) /\ q = k * Batch /\ q <= a /\ a < q + Batch
    BY BlockBounds
  <1>3. PICK p \in Nat : p = m * Batch
    BY Sizes
  <1>4. Claimed(m) = IF a <= p THEN 0 ELSE IF a >= p + Batch THEN Batch ELSE a - p
    BY <1>1, <1>3 DEF Claimed
  <1>5. Claimed(m)' = IF a + 1 <= p THEN 0 ELSE IF a + 1 >= p + Batch THEN Batch ELSE a + 1 - p
    BY <1>1, <1>3 DEF Claimed
  <1>6. CASE m = k
    BY <1>1, <1>2, <1>3, <1>4, <1>5, <1>6, Sizes
  <1>7. CASE m < k
    <2>1. p + Batch <= q
      BY <1>2, <1>3, <1>7, BlocksOrdered
    <2>2. QED BY <1>1, <1>2, <1>3, <1>4, <1>5, <1>7, <2>1, Sizes
  <1>8. CASE m > k
    <2>1. q + Batch <= p
      BY <1>2, <1>3, <1>8, BlocksOrdered
    <2>2. QED BY <1>1, <1>2, <1>3, <1>4, <1>5, <1>8, <2>1, Sizes
  <1>9. QED BY <1>2, <1>6, <1>7, <1>8

(* The position claimed is in the window, and the environment nowhere else.*)
LEMMA AllocateStep ==
  ASSUME IInv, NEW w \in Workers, NEW e \in Envs, Allocate(w, e)
  PROVE  IInv'
  <1> USE DEF IInv
  <1>1. /\ wstep[w] = "idle" /\ Layout /\ TypeOK /\ e \notin in_flight
        /\ wstep' = [wstep EXCEPT ![w] = "count"]
        /\ wenv' = [wenv EXCEPT ![w] = e]
        /\ wpos' = [wpos EXCEPT ![w] = alloc_count]
        /\ alloc_count' = alloc_count + 1
        /\ in_flight' = in_flight \cup {e}
        /\ rstep \notin {"destroy", "destroyed"}
        /\ radd > 0 => Cardinality(in_flight) + radd < Batch
        /\ UNCHANGED <<done_ptr, queue, stockVars, wrow, readerVars>>
    BY DEF Allocate, ClaimPos, MoveWorker, Layout
  <1>2. /\ wstep'[w] = "count" /\ wenv'[w] = e /\ wpos'[w] = alloc_count
        /\ Others(w)
    BY <1>1 DEF TypeOK, Others
  <1>3. alloc_count \in Nat
    BY <1>1 DEF TypeOK
  <1>4. TypeOK'
    <2>1. wstep' \in [Workers -> WorkerSteps]
      BY <1>1 DEF TypeOK, WorkerSteps
    <2>2. wenv' \in [Workers -> Envs \cup {NoRow}]
      BY <1>1 DEF TypeOK
    <2>3. wpos' \in [Workers -> Nat] /\ alloc_count' \in Nat
      BY <1>1, <1>3 DEF TypeOK
    <2>4. in_flight' \subseteq Envs
      BY <1>1 DEF TypeOK
    <2>5. QED BY <1>1, <2>1, <2>2, <2>3, <2>4 DEF TypeOK, stockVars, readerVars
  <1>5. /\ rstep' = rstep /\ rpos' = rpos /\ ret' = ret /\ radd' = radd
        /\ Oldest' = Oldest /\ MadeUp' = MadeUp
    BY <1>1 DEF readerVars, Oldest, MadeUp
  <1>6. PICK o \in Nat, q \in Nat : o = Oldest /\ q = o * Batch /\ q <= alloc_count
    BY <1>1, OldestType DEF Layout, Room
  <1>7. o <= BlockOf(alloc_count)
    <2>1. PICK k \in Nat, p \in Nat :
            k = BlockOf(alloc_count) /\ p = k * Batch /\ alloc_count < p + Batch
      BY <1>3, BlockBounds
    <2>2. SUFFICES ASSUME k < o PROVE FALSE
      BY <1>6, <2>1
    <2>3. p + Batch <= q
      BY <1>6, <2>1, <2>2, BlocksOrdered
    <2>4. QED BY <1>3, <1>6, <2>1, <2>3, Sizes
  <1>8. Reader'
    <2>1. Cardinality(in_flight') = Cardinality(in_flight) + 1
      BY <1>1, FlightBound, FS_AddElement
    <2>2. MadeUp = radd /\ radd \in Nat /\ (MadeUp > 0 => IsSync)
      BY <1>1, MadeUpBound DEF Layout, TypeOK
    <2>3. MadeUp' > 0 => IsSync /\ Cardinality(in_flight') + MadeUp' <= Batch
      BY <1>1, <1>5, <2>1, <2>2, FlightBound, Sizes
    <2>4. QED BY <1>1, <1>5, <2>3 DEF Layout, Reader
  <1>9. Ring'
    BY <1>1, <1>5 DEF Layout, Ring, Offset
  <1>10. Room'
    <2>1. Cardinality(in_flight') = Cardinality(in_flight) + 1
      BY <1>1, FlightBound, FS_AddElement
    <2>2. PICK x \in Int : /\ x = IF rstep = "return" THEN Batch - radd ELSE 0
                           /\ x = IF rstep' = "return" THEN Batch - radd' ELSE 0
      <3>1. Batch - radd \in Int
        BY <1>1, Sizes DEF TypeOK
      <3>2. QED BY <1>5, <3>1
    <2>3. PICK y \in Nat : /\ y = IF rstep = "swap" THEN radd ELSE 0
                           /\ y = IF rstep' = "swap" THEN radd' ELSE 0
      BY <1>1, <1>5 DEF TypeOK
    <2>4. alloc_count - q + x <= Cardinality(in_flight) + y
      BY <1>1, <1>6, <2>2, <2>3, Zenon DEF Layout, Room
    <2>5. q <= alloc_count + 1 /\ alloc_count + 1 - q + x <= Cardinality(in_flight') + y
      BY <1>1, <1>3, <1>6, <2>1, <2>4, FlightBound
    <2>6. PICK a \in Nat : a = alloc_count' /\ q <= a /\ a - q + x <= Cardinality(in_flight') + y
      BY <1>1, <1>3, <2>5
    <2>7. Oldest' * Batch = q
      BY <1>5, <1>6
    <2>8. QED BY <2>2, <2>3, <2>6, <2>7, Zenon DEF Room
  <1>11. Places'
    <2>1. \A v \in Workers \ {w} : wstep'[v] = wstep[v] /\ wpos'[v] = wpos[v]
                                    /\ WorkerBlock(v)' = WorkerBlock(v)
      BY <1>2 DEF Others, WorkerBlock, BlockOf
    <2>2. WorkerBlock(w)' = BlockOf(alloc_count)
      BY <1>2 DEF WorkerBlock, BlockOf
    <2>3. \A v \in Workers : wstep'[v] # "idle" =>
            /\ wstep'[v] # "thrown" /\ wpos'[v] < alloc_count' /\ Oldest' <= WorkerBlock(v)'
      BY <1>1, <1>2, <1>3, <1>5, <1>6, <1>7, <2>1, <2>2 DEF Layout, Places, TypeOK
    <2>4. \A v \in Workers \ {w} : wstep[v] # "idle" => wpos[v] # alloc_count
      BY <1>1, <1>3 DEF Layout, Places, TypeOK
    <2>5. \A u, v \in Workers :
            wstep'[u] # "idle" /\ wstep'[v] # "idle" /\ wpos'[u] = wpos'[v] => u = v
      BY <1>1, <1>2, <2>1, <2>4 DEF Layout, Places
    <2>6. QED BY <2>3, <2>5 DEF Places
  <1>12. Layout'
    BY <1>4, <1>8, <1>9, <1>10, <1>11 DEF Layout
  <1>13. Counts'
    <2>1. SUFFICES ASSUME NEW i \in Indices, NEW m \in Nat, queue'[i].block = m
                   PROVE  /\ queue'[i].allocs + Cardinality(InSteps({"count"}, m)') = Own(m)'
                          /\ queue'[i].offsets + Cardinality(InSteps({"count", "take"}, m)')
                               = Own(m)'
                          /\ queue'[i].dones + Cardinality(InSteps(Unfinished, m)')
                               = Own(m)' + Missing(m)'
      BY DEF Counts
    <2>2. queue'[i] = queue[i]
      BY <1>1
    <2>3. PICK c \in Nat : c = IF BlockOf(alloc_count) = m THEN 1 ELSE 0
      OBVIOUS
    <2>4. /\ Own(m)' = Own(m) + c /\ Missing(m)' = Missing(m)
          /\ Own(m) \in Int /\ Missing(m) \in Nat
      <3>1. Claimed(m)' = Claimed(m) + c
        BY <1>1, <2>3, ClaimedMore
      <3>2. Claimed(m) \in Nat /\ radd \in Nat
        BY <1>1, ClaimedBound DEF TypeOK
      <3>3. Own(m)' = Own(m) + c
        BY <1>5, <2>3, <3>1, <3>2 DEF Own
      <3>4. Missing(m)' = Missing(m)
        BY <1>5 DEF Missing
      <3>5. QED BY <1>1, <3>3, <3>4, OwnBound
    <2>5. Cardinality(InSteps({"count"}, m)') = Cardinality(InSteps({"count"}, m)) + c
      BY <1>1, <1>2, <2>3, StepsIn DEF Layout
    <2>6. Cardinality(InSteps({"count", "take"}, m)')
            = Cardinality(InSteps({"count", "take"}, m)) + c
      BY <1>1, <1>2, <2>3, StepsIn DEF Layout
    <2>7. Cardinality(InSteps(Unfinished, m)') = Cardinality(InSteps(Unfinished, m)) + c
      BY <1>1, <1>2, <2>3, StepsIn DEF Layout, Unfinished
    <2>8. /\ Cardinality(InSteps({"count"}, m)) \in Nat
          /\ Cardinality(InSteps({"count", "take"}, m)) \in Nat
          /\ Cardinality(InSteps(Unfinished, m)) \in Nat
      BY <1>1, StepsFinite
    <2>9. queue[i].allocs \in Nat /\ queue[i].offsets \in Nat /\ queue[i].dones \in Nat
      BY <1>1 DEF TypeOK, BufferType
    <2>10. /\ queue[i].allocs + Cardinality(InSteps({"count"}, m)) = Own(m)
           /\ queue[i].offsets + Cardinality(InSteps({"count", "take"}, m)) = Own(m)
           /\ queue[i].dones + Cardinality(InSteps(Unfinished, m)) = Own(m) + Missing(m)
      BY <2>1, <2>2 DEF Counts
    <2>11. QED BY <2>2, <2>3, <2>4, <2>5, <2>6, <2>7, <2>8, <2>9, <2>10
  <1>14. Signals'
    BY <1>1, <1>2, <1>5, SignalsSame DEF Others
  <1>15. Given'
    BY <1>1, <1>2, GivenSame DEF Others
  <1>16. Written' /\ Marked'
    <2>1. Written'
      BY <1>1, <1>2, WrittenSame DEF Others
    <2>2. Marked'
      BY <1>1, <1>2, <1>5, MarkedSame DEF Others
    <2>3. QED BY <2>1, <2>2
  <1>17. Sent'
    <2>1. \A v \in Workers : wstep'[v] \in Holding =>
            \/ v = w /\ wenv'[v] = e
            \/ v # w /\ wstep[v] \in Holding /\ wenv'[v] = wenv[v] /\ wenv[v] # e
      BY <1>1, <1>2 DEF Others, Sent
    <2>2. \A v \in Workers : wstep'[v] \in Holding => wenv'[v] \in in_flight'
      BY <1>1, <2>1 DEF Sent
    <2>3. \A u, v \in Workers :
            wstep'[u] \in Holding /\ wstep'[v] \in Holding /\ wenv'[u] = wenv'[v] => u = v
      BY <2>1 DEF Sent
    <2>4. ASSUME NEW i \in Indices, NEW r \in Rows, queue[i].rows[r] # NoRow
          PROVE  /\ queue[i].rows[r] \in in_flight'
                 /\ \A v \in Workers : wstep'[v] \in Holding => wenv'[v] # queue[i].rows[r]
      BY <1>1, <2>1, <2>4 DEF Sent
    <2>5. QED BY <1>1, <2>2, <2>3, <2>4 DEF Sent, Rows
  <1>18. Taken'
    <2>1. rstep \in {"advance", "swap"} => Buffer(rpos)' = Buffer(rpos)
      BY <1>1, <1>5 DEF Buffer, Offset
    <2>2. ASSUME rstep = "return", NEW n \in 1 .. Batch - radd
          PROVE  /\ \A m \in 1 .. Batch - radd : ret[m] = ret[n] => m = n
                 /\ \A v \in Workers : wstep'[v] \in Holding => wenv'[v] # ret[n]
                 /\ \A i \in Indices, r \in Rows : queue[i].rows[r] # ret[n]
      <3>1. ret[n] \in in_flight /\ ret[n] # e
        BY <1>1, <2>2 DEF Taken
      <3>2. \A v \in Workers : wstep'[v] \in Holding => wenv'[v] # ret[n]
        BY <1>2, <2>2, <3>1 DEF Taken, Others
      <3>3. QED BY <2>2, <3>2 DEF Taken
    <2>3. rstep = "return" => ret \in [1 .. Batch - radd -> in_flight']
      BY <1>1 DEF Taken
    <2>4. QED BY <1>1, <1>5, <2>1, <2>2, <2>3 DEF Taken, Rows
  <1>19. QED BY <1>12, <1>13, <1>14, <1>15, <1>16, <1>17, <1>18

-----------------------------------------------------------------------------
(* The reader and the stock.                                               *)

(* Steps that move neither a worker nor a buffer.                          *)
LEMMA QuietStep ==
  ASSUME IInv, TypeOK', Reader', Room', Taken', Oldest' = Oldest,
         alloc_count' >= alloc_count,
         UNCHANGED <<queue, workerVars, in_flight>>,
         \A k \in Nat : Own(k)' = Own(k) /\ Missing(k)' = Missing(k),
         rstep' \in Passed <=> rstep \in Passed, rstep \in Passed => rpos' = rpos,
         \A i \in Indices : GivenRows(i) \subseteq 0 .. Batch - MadeUp' - 1
  PROVE  IInv'
  <1> USE DEF IInv
  <1>1. Layout /\ UNCHANGED <<wstep, wenv, wpos, wrow>>
    BY DEF workerVars
  <1>2. Ring'
    BY <1>1 DEF Layout, Ring, Offset
  <1>3. Places'
    BY <1>1 DEF Layout, Places, WorkerBlock, BlockOf, TypeOK
  <1>4. Counts'
    BY <1>1, CountsSame
  <1>5. Signals'
    BY <1>1, SignalsSame
  <1>6. Given' /\ Written'
    BY <1>1, GivenSame, WrittenSame
  <1>7. Marked'
    <2>1. \A i \in Indices : GivenRows(i)' = GivenRows(i)
      BY <1>1, GivenRowsSame
    <2>2. QED BY <2>1 DEF Marked
  <1>8. Sent'
    BY <1>1, SentSame
  <1>9. QED BY <1>2, <1>3, <1>4, <1>5, <1>6, <1>7, <1>8 DEF Layout

(* Wait begins, and takes a fresh buffer and the next position.            *)
LEMMA WaitBeginsStep ==
  ASSUME IInv, (\E additional \in 0 .. Batch : Receive(additional))
                 \/ (GetStock /\ UNCHANGED in_flight)
  PROVE  IInv'
  <1>1. TypeOK /\ Reader /\ Room /\ Marked
    BY DEF IInv, Layout
  <1>2. ASSUME NEW additional \in 0 .. Batch, Receive(additional) PROVE IInv'
    <2>1. /\ rstep = "idle" /\ rstep' = "stock" /\ radd' = additional
          /\ UNCHANGED <<bufferVars, stockVars, workerVars, rpos, ret, in_flight>>
          /\ additional > 0 =>
               /\ IsSync
               /\ Cardinality(in_flight) + additional <= Batch
               /\ \A i \in Indices : GivenRows(i) \subseteq 0 .. Batch - additional - 1
      BY <1>2 DEF Receive, CallWait, MoveReader
    <2>2. additional \in Nat
      BY Sizes
    <2>3. TypeOK'
      BY <1>1, <2>1, <2>2 DEF TypeOK, ReaderSteps, bufferVars, stockVars, workerVars
    <2>4. Oldest' = Oldest /\ Taken' /\ Room' /\ MadeUp' = additional
      BY <1>1, <2>1 DEF Oldest, Taken, Passed, bufferVars, Room, MadeUp
    <2>5. Reader'
      BY <2>1, <2>4 DEF Reader, Passed
    <2>6. \A k \in Nat : Own(k)' = Own(k) /\ Missing(k)' = Missing(k)
      BY <2>1 DEF Own, Missing, Claimed, Passed, bufferVars
    <2>7. \A i \in Indices : GivenRows(i) \subseteq 0 .. Batch - MadeUp' - 1
      BY <2>1, <2>2, <2>4, Sizes DEF GivenRows, Rows
    <2>8. alloc_count' >= alloc_count
      BY <1>1, <2>1 DEF TypeOK, bufferVars
    <2>9. QED BY <2>1, <2>3, <2>4, <2>5, <2>6, <2>7, <2>8, QuietStep DEF bufferVars, Passed
  <1>3. CASE GetStock /\ UNCHANGED in_flight
    <2>1. /\ rstep = "stock" /\ rstep' = "add" /\ rpos' = done_ptr /\ done_ptr' = done_ptr + 1
          /\ stock > 0 /\ stock' = stock - 1
          /\ UNCHANGED <<alloc_count, queue, quit, cstep, workerVars, radd, ret, in_flight>>
      BY <1>3 DEF GetStock, MoveReader
    <2>2. stock' \in 0 .. StockSize
      BY <1>1, <2>1, BatchAssumption DEF TypeOK
    <2>3. rstep' \in ReaderSteps /\ done_ptr' \in Nat /\ rpos' \in Nat
      BY <1>1, <2>1 DEF TypeOK, ReaderSteps
    <2>4. TypeOK'
      BY <1>1, <2>1, <2>2, <2>3 DEF TypeOK, workerVars
    <2>5. Oldest' = Oldest /\ Taken' /\ Room' /\ MadeUp' = MadeUp
      BY <1>1, <2>1 DEF Oldest, Taken, Passed, Room, MadeUp
    <2>6. Reader'
      BY <1>1, <2>1, <2>5 DEF Reader, Passed
    <2>7. \A k \in Nat : Own(k)' = Own(k) /\ Missing(k)' = Missing(k)
      BY <2>1 DEF Own, Missing, Claimed, Passed
    <2>8. \A i \in Indices : GivenRows(i) \subseteq 0 .. Batch - MadeUp' - 1
      BY <1>1, <2>5 DEF Marked
    <2>9. alloc_count' >= alloc_count
      BY <1>1, <2>1 DEF TypeOK
    <2>10. QED BY <2>1, <2>4, <2>5, <2>6, <2>7, <2>8, <2>9, QuietStep DEF Passed
  <1>4. QED BY <1>2, <1>3

(* The states made up for count as done; if nobody else is to come, the    *)
(* reader has signalled itself.                                            *)
LEMMA AddDoneStep ==
  ASSUME IInv, AddDone, UNCHANGED in_flight
  PROVE  IInv'
  <1> USE DEF IInv
  <1>1. /\ rstep = "add" /\ rstep' = "wait" /\ Layout /\ TypeOK /\ Reader /\ Room
        /\ rpos \in Nat /\ radd \in Nat /\ alloc_count \in Nat
        /\ UNCHANGED <<alloc_count, done_ptr, stockVars, workerVars, rpos, radd, ret>>
    BY DEF AddDone, MoveReader, Layout, TypeOK
  <1>2. Oldest' = Oldest /\ Taken' /\ Room' /\ MadeUp' = MadeUp
    BY <1>1 DEF Oldest, Taken, Passed, Room, MadeUp
  <1>3. Reader'
    BY <1>1, <1>2 DEF Reader, Passed
  <1>4. UNCHANGED <<wstep, wenv, wpos, wrow>>
    BY <1>1 DEF workerVars
  <1>5. CASE radd = 0
    <2>1. queue' = queue
      BY <1>5 DEF AddDone
    <2>2. TypeOK'
      BY <1>1, <1>4, <2>1 DEF TypeOK, ReaderSteps, stockVars
    <2>3. \A k \in Nat : Own(k)' = Own(k) /\ Missing(k)' = Missing(k)
      BY <1>1, <1>5 DEF Own, Missing, Claimed, Passed
    <2>4. \A i \in Indices : GivenRows(i) \subseteq 0 .. Batch - MadeUp' - 1
      BY <1>2 DEF Marked
    <2>5. QED BY <1>1, <1>2, <1>3, <2>1, <2>2, <2>3, <2>4, QuietStep DEF Passed
  <1>6. CASE radd > 0
    <2>1. PICK j \in Indices : /\ j = Offset(rpos) /\ queue[j].block = rpos
                               /\ queue[j] \in BufferType /\ Oldest = rpos
                               /\ \A i \in Indices \ {j} : queue[i].block # rpos
      BY <1>1, ReaderInPlace DEF Buffer, TypeOK, Layout, Ring
    <2>2. PICK d \in Nat : d = queue[j].dones
      BY <2>1 DEF BufferType
    <2>3. d + radd <= Batch
      <3>1. PICK q \in Nat : q = rpos * Batch
        BY <1>1, Sizes
      <3>2. Cardinality(in_flight) + radd <= Batch
        BY <1>1, <1>6, MadeUpBound
      <3>3. alloc_count - q <= Cardinality(in_flight)
        BY <1>1, <2>1, <3>1, FlightBound DEF Room
      <3>4. Claimed(rpos) + radd <= Batch
        BY <1>1, <3>1, <3>2, <3>3, FlightBound, Sizes DEF Claimed
      <3>5. d + Cardinality(InSteps(Unfinished, rpos)) = Own(rpos) + Missing(rpos)
        BY <1>1, <2>1, <2>2 DEF Counts
      <3>6. Own(rpos) = Claimed(rpos) /\ Missing(rpos) = 0
        BY <1>1, ClaimedBound DEF Own, Missing, Passed
      <3>7. Cardinality(InSteps(Unfinished, rpos)) \in Nat /\ Claimed(rpos) \in Nat
        BY <1>1, StepsFinite, ClaimedBound
      <3>8. QED BY <1>1, <3>4, <3>5, <3>6, <3>7, Sizes
    <2>4. d # Batch /\ queue[j].ready = 0
      <3>1. d # Batch
        BY <1>1, <1>6, <2>3, Sizes
      <3>2. queue[j].ready \in Nat
        BY <2>1 DEF BufferType
      <3>3. QED BY <2>2, <3>1, <3>2 DEF Signals
    <2>5. PICK r \in {0, 1} : r = IF d + radd = Batch THEN 1 ELSE 0
      OBVIOUS
    <2>6. queue' = [queue EXCEPT ![j] = [queue[j] EXCEPT !.dones = d + radd, !.ready = r]]
      <3>1. 0 + 1 = 1 OBVIOUS
      <3>2. queue' = [queue EXCEPT ![j].dones = d + radd,
                                   ![j].ready = IF d + radd = Batch THEN @ + 1 ELSE @]
        BY <1>6, <2>1, <2>2 DEF AddDone, Buffer
      <3>3. QED BY <2>4, <2>5, <3>1, <3>2
    <2>7. PICK b \in BufferType :
            /\ b = [queue[j] EXCEPT !.dones = d + radd, !.ready = r]
            /\ b.block = queue[j].block /\ b.allocs = queue[j].allocs
            /\ b.offsets = queue[j].offsets /\ b.rows = queue[j].rows
            /\ b.dones = d + radd /\ b.ready = r
      <3>1. d + radd \in Nat /\ r \in Nat
        BY <1>1
      <3>2. [queue[j] EXCEPT !.dones = d + radd, !.ready = r] \in BufferType
        BY <2>1, <3>1 DEF BufferType
      <3>3. ASSUME NEW b, b = [queue[j] EXCEPT !.dones = d + radd, !.ready = r]
            PROVE  /\ b.block = queue[j].block /\ b.allocs = queue[j].allocs
                   /\ b.offsets = queue[j].offsets /\ b.rows = queue[j].rows
                   /\ b.dones = d + radd /\ b.ready = r
        <4>1. b.block = queue[j].block /\ b.allocs = queue[j].allocs
          BY <2>1, <3>3 DEF BufferType
        <4>2. b.offsets = queue[j].offsets /\ b.rows = queue[j].rows
          BY <2>1, <3>3 DEF BufferType
        <4>3. b.dones = d + radd
          BY <2>1, <3>3 DEF BufferType
        <4>4. b.ready = r
          BY <2>1, <3>3 DEF BufferType
        <4>5. QED BY <4>1, <4>2, <4>3, <4>4
      <3>4. QED BY <3>2, <3>3
    <2>8. /\ queue' \in [Indices -> BufferType]
          /\ queue'[j] = b
          /\ \A i \in Indices \ {j} : queue'[i] = queue[i]
          /\ \A i \in Indices : /\ queue'[i].block = queue[i].block
                                /\ queue'[i].allocs = queue[i].allocs
                                /\ queue'[i].offsets = queue[i].offsets
                                /\ queue'[i].rows = queue[i].rows
          /\ queue'[j].dones = d + radd /\ queue'[j].ready = r
      <3>1. queue' = [queue EXCEPT ![j] = b]
        BY <2>6, <2>7
      <3>2. /\ queue' \in [Indices -> BufferType]
            /\ queue'[j] = b
            /\ \A i \in Indices \ {j} : queue'[i] = queue[i]
        BY <1>1, <3>1, ReplaceBuffer
      <3>3. QED BY <2>7, <3>2
    <2>9. TypeOK'
      BY <1>1, <1>4, <2>8 DEF TypeOK, ReaderSteps, stockVars
    <2>10. Ring'
      BY <1>1, <1>2, <2>8 DEF Layout, Ring, Offset
    <2>11. Places'
      BY <1>1, <1>2, <1>4 DEF Layout, Places, WorkerBlock, BlockOf
    <2>12. Layout'
      BY <1>2, <1>3, <2>9, <2>10, <2>11 DEF Layout
    <2>13. Counts'
      <3>1. SUFFICES ASSUME NEW i \in Indices, NEW m \in Nat, queue'[i].block = m
                     PROVE  /\ queue'[i].allocs + Cardinality(InSteps({"count"}, m)') = Own(m)'
                            /\ queue'[i].offsets + Cardinality(InSteps({"count", "take"}, m)')
                                 = Own(m)'
                            /\ queue'[i].dones + Cardinality(InSteps(Unfinished, m)')
                                 = Own(m)' + Missing(m)'
        BY DEF Counts
      <3>2. queue[i].block = m
        BY <2>8, <3>1
      <3>3. /\ InSteps({"count"}, m)' = InSteps({"count"}, m)
            /\ InSteps({"count", "take"}, m)' = InSteps({"count", "take"}, m)
            /\ InSteps(Unfinished, m)' = InSteps(Unfinished, m)
        BY <1>4, StepsSame
      <3>4. /\ Own(m)' = Own(m) /\ Own(m) \in Int /\ Missing(m) = 0
            /\ Missing(m)' = IF m = rpos THEN radd ELSE 0
        <4>1. Own(m)' = Own(m)
          BY <1>1 DEF Own, Claimed
        <4>2. Missing(m) = 0 /\ Missing(m)' = IF m = rpos THEN radd ELSE 0
          BY <1>1 DEF Missing, Passed
        <4>3. QED BY <1>1, <4>1, <4>2, OwnBound
      <3>5. queue'[i].dones = queue[i].dones + (IF m = rpos THEN radd ELSE 0)
        <4>1. queue[i].dones \in Nat
          BY <1>1 DEF BufferType, TypeOK
        <4>2. CASE i = j
          BY <2>1, <2>2, <2>8, <3>2, <4>2
        <4>3. CASE i # j
          BY <2>1, <2>8, <3>2, <4>1, <4>3
        <4>4. QED BY <4>2, <4>3
      <3>6. queue[i].dones \in Nat /\ Cardinality(InSteps(Unfinished, m)) \in Nat
        BY <1>1, StepsFinite DEF TypeOK, BufferType
      <3>7. queue[i].dones + Cardinality(InSteps(Unfinished, m)) = Own(m) + Missing(m)
        BY <3>2 DEF Counts
      <3>8. queue'[i].dones + Cardinality(InSteps(Unfinished, m)') = Own(m)' + Missing(m)'
        BY <1>1, <3>3, <3>4, <3>5, <3>6, <3>7
      <3>9. QED BY <2>8, <3>2, <3>3, <3>4, <3>8 DEF Counts
    <2>14. Signals'
      <3>1. \A i \in Indices : queue'[i].ready > 0 =>
              queue'[i].dones = Batch /\ queue'[i].ready = 1
        <4>1. \A i \in Indices \ {j} : queue'[i].ready > 0 =>
                queue'[i].dones = Batch /\ queue'[i].ready = 1
          BY <2>8 DEF Signals
        <4>2. queue'[j].ready > 0 => queue'[j].dones = Batch /\ queue'[j].ready = 1
          BY <2>5, <2>8
        <4>3. QED BY <4>1, <4>2
      <3>2. \A w \in Workers : wstep[w] = "signal" =>
              queue'[Offset(WorkerBlock(w))] = queue[Offset(WorkerBlock(w))]
        <4>1. SUFFICES ASSUME NEW w \in Workers, wstep[w] = "signal"
                       PROVE  queue'[Offset(WorkerBlock(w))] = queue[Offset(WorkerBlock(w))]
          OBVIOUS
        <4>2. queue[Offset(WorkerBlock(w))].dones = Batch
          BY <4>1 DEF Signals, Buffer
        <4>3. Offset(WorkerBlock(w)) \in Indices /\ Offset(WorkerBlock(w)) # j
          BY <1>1, <2>2, <2>4, <4>1, <4>2, WorkerInPlace
        <4>4. QED BY <2>8, <4>3
      <3>3. \A w \in Workers : WorkerBlock(w)' = WorkerBlock(w)
        BY <1>4 DEF WorkerBlock, BlockOf
      <3>4. QED BY <1>1, <1>4, <3>1, <3>2, <3>3 DEF Signals, Buffer, Offset, Passed
    <2>15. Given' /\ Written'
      BY <1>1, <1>4, <2>8, GivenSame, WrittenSame
    <2>16. Marked'
      BY <1>2, <1>4, <2>8, MarkedSame
    <2>17. Sent'
      BY <1>4, <2>8, SentSame
    <2>18. QED BY <1>2, <2>12, <2>13, <2>14, <2>15, <2>16, <2>17
  <1>7. QED BY <1>1, <1>5, <1>6

(* The background threads and the destructor leave batches alone.          *)
LEMMA StockStep ==
  ASSUME IInv, UNCHANGED in_flight,
         (\E c \in Creators : CreatorStep(c)) \/ SetQuit \/ DestroyStep
  PROVE  IInv'
  <1>1. TypeOK /\ Reader /\ Room /\ Taken /\ Marked
    BY DEF IInv, Layout
  <1>2. ASSUME MadeUp' = MadeUp
        PROVE  \A i \in Indices : GivenRows(i) \subseteq 0 .. Batch - MadeUp' - 1
    BY <1>2, <1>1 DEF Marked
  <1>3. CASE \E c \in Creators : CreatorStep(c)
    <2>1. PICK c \in Creators : PutStock(c) \/ TestQuit(c)
      BY <1>3 DEF CreatorStep
    <2>2. UNCHANGED <<bufferVars, quit, workerVars, readerVars>>
      BY <2>1 DEF PutStock, TestQuit
    <2>3. stock' \in 0 .. StockSize
      BY <1>1, <2>1, BatchAssumption DEF PutStock, TestQuit, TypeOK
    <2>4. cstep' \in [Creators -> {"put", "test", "exited"}]
      BY <1>1, <2>1 DEF PutStock, TestQuit, TypeOK
    <2>5. TypeOK'
      BY <1>1, <2>2, <2>3, <2>4 DEF TypeOK, bufferVars, workerVars, readerVars
    <2>6. Oldest' = Oldest /\ Reader' /\ Room' /\ MadeUp' = MadeUp
      BY <1>1, <2>2 DEF Oldest, Reader, Room, MadeUp, Passed, bufferVars, readerVars
    <2>7. Taken'
      BY <1>1, <2>2 DEF Taken, Buffer, Offset, bufferVars, workerVars, readerVars, Rows
    <2>8. \A k \in Nat : Own(k)' = Own(k) /\ Missing(k)' = Missing(k)
      BY <2>2, OwnSame DEF bufferVars, readerVars
    <2>9. alloc_count' >= alloc_count
      BY <1>1, <2>2 DEF TypeOK, bufferVars
    <2>10. QED BY <1>2, <2>2, <2>5, <2>6, <2>7, <2>8, <2>9, QuietStep DEF bufferVars, readerVars
  <1>4. CASE SetQuit
    <2>1. /\ rstep = "idle" /\ rstep' = "destroy" /\ quit' = TRUE /\ radd' = 0
          /\ UNCHANGED <<bufferVars, stock, cstep, workerVars, rpos, ret>>
      BY <1>4 DEF SetQuit, MoveReader
    <2>2. TypeOK'
      BY <1>1, <2>1 DEF TypeOK, ReaderSteps, bufferVars, workerVars
    <2>3. Oldest' = Oldest /\ Room' /\ Taken' /\ MadeUp' = MadeUp
      BY <1>1, <2>1 DEF Oldest, Reader, Room, Taken, MadeUp, Passed, bufferVars
    <2>4. Reader'
      BY <1>1, <2>1, <2>3 DEF Reader, Passed
    <2>5. \A k \in Nat : Own(k)' = Own(k) /\ Missing(k)' = Missing(k)
      BY <2>1 DEF Own, Missing, Claimed, Passed, bufferVars
    <2>6. alloc_count' >= alloc_count
      BY <1>1, <2>1 DEF TypeOK, bufferVars
    <2>7. QED BY <1>2, <2>1, <2>2, <2>3, <2>4, <2>5, <2>6, QuietStep DEF Passed, bufferVars
  <1>5. CASE DestroyStep
    <2>1. /\ rstep = "destroy" /\ rstep' \in {"destroy", "destroyed"}
          /\ stock' \in 0 .. StockSize /\ radd' \in Nat
          /\ UNCHANGED <<bufferVars, quit, cstep, workerVars, rpos, ret>>
      <3>1. CASE DrainStock
        <4>1. stock' \in 0 .. StockSize /\ radd' \in Nat
          BY <1>1, <3>1, BatchAssumption DEF DrainStock, TypeOK
        <4>2. QED BY <3>1, <4>1 DEF DrainStock
      <3>2. CASE JoinCreators
        BY <1>1, <3>2 DEF JoinCreators, MoveReader, stockVars, TypeOK
      <3>3. QED BY <1>5, <3>1, <3>2 DEF DestroyStep
    <2>2. rstep' \in ReaderSteps
      BY <2>1 DEF ReaderSteps
    <2>3. TypeOK'
      BY <1>1, <2>1, <2>2 DEF TypeOK, bufferVars, workerVars
    <2>4. Oldest' = Oldest /\ Room' /\ Taken' /\ MadeUp' = MadeUp
      BY <1>1, <2>1 DEF Oldest, Room, Taken, MadeUp, Passed, bufferVars
    <2>5. Reader'
      BY <1>1, <2>1, <2>4 DEF Reader, Passed
    <2>6. \A k \in Nat : Own(k)' = Own(k) /\ Missing(k)' = Missing(k)
      BY <2>1 DEF Own, Missing, Claimed, Passed, bufferVars
    <2>7. alloc_count' >= alloc_count
      BY <1>1, <2>1 DEF TypeOK, bufferVars
    <2>8. QED BY <1>2, <2>1, <2>3, <2>4, <2>5, <2>6, <2>7, QuietStep DEF Passed, bufferVars
  <1>6. QED BY <1>3, <1>4, <1>5

(* The wait is over when the batch's one signal is taken.                  *)
LEMMA WaitReadyStep ==
  ASSUME IInv, WaitReady, UNCHANGED in_flight
  PROVE  IInv'
  <1> USE DEF IInv
  <1>1. /\ rstep = "wait" /\ rstep' = "collect" /\ Layout /\ TypeOK
        /\ UNCHANGED <<alloc_count, done_ptr, stockVars, workerVars, rpos, radd, ret>>
    BY DEF WaitReady, MoveReader, Layout
  <1>2. PICK j \in Indices : /\ j = Offset(rpos) /\ queue[j].block = rpos
                             /\ queue[j] \in BufferType /\ queue[j].ready > 0
    BY <1>1, ReaderInPlace DEF WaitReady, Buffer, TypeOK
  <1>3. queue[j].ready = 1 /\ queue[j].dones = Batch
    BY <1>2 DEF Signals
  <1>4. queue' = [queue EXCEPT ![j] = [queue[j] EXCEPT !.ready = 0]]
    <2>1. 1 - 1 = 0 OBVIOUS
    <2>2. QED BY <1>2, <1>3, <2>1 DEF WaitReady
  <1>5. /\ queue' \in [Indices -> BufferType]
        /\ queue'[j] = [queue[j] EXCEPT !.ready = 0]
        /\ \A i \in Indices \ {j} : queue'[i] = queue[i]
    <2>1. [queue[j] EXCEPT !.ready = 0] \in BufferType
      BY <1>2 DEF BufferType
    <2>2. QED BY <1>1, <1>4, <2>1, ReplaceBuffer
  <1>6. /\ \A i \in Indices : /\ queue'[i].block = queue[i].block
                              /\ queue'[i].allocs = queue[i].allocs
                              /\ queue'[i].offsets = queue[i].offsets
                              /\ queue'[i].dones = queue[i].dones
                              /\ queue'[i].rows = queue[i].rows
        /\ queue'[j].ready = 0
    BY <1>2, <1>5 DEF BufferType
  <1>7. UNCHANGED <<wstep, wenv, wpos, wrow>>
    BY <1>1 DEF workerVars
  <1>8. TypeOK'
    BY <1>1, <1>5, <1>7 DEF TypeOK, ReaderSteps, stockVars
  <1>9. Oldest' = Oldest /\ MadeUp' = MadeUp
    BY <1>1 DEF Oldest, MadeUp, Passed
  <1>10. Reader' /\ Room'
    BY <1>1, <1>9 DEF Layout, Reader, Room, Passed
  <1>11. Ring'
    BY <1>6, <1>9 DEF Layout, Ring, Offset
  <1>12. Places'
    BY <1>1, <1>7, <1>9 DEF Layout, Places, WorkerBlock, BlockOf
  <1>13. Layout'
    BY <1>8, <1>10, <1>11, <1>12 DEF Layout
  <1>14. Counts'
    <2>1. \A m \in Nat : Own(m)' = Own(m) /\ Missing(m)' = Missing(m)
      BY <1>1, OwnSame DEF Passed
    <2>2. QED BY <1>1, <1>6, <1>7, <2>1, CountsSame
  <1>15. Signals'
    <2>1. \A i \in Indices : queue'[i].ready > 0 =>
            queue'[i].dones = Batch /\ queue'[i].ready = 1
      <3>1. \A i \in Indices \ {j} : queue'[i].ready > 0 =>
              queue'[i].dones = Batch /\ queue'[i].ready = 1
        BY <1>5 DEF Signals
      <3>2. ~(queue'[j].ready > 0)
        BY <1>6
      <3>3. QED BY <3>1, <3>2
    <2>2. ASSUME NEW w \in Workers, wstep'[w] = "signal"
          PROVE  /\ queue'[Offset(WorkerBlock(w))].dones = Batch
                 /\ queue'[Offset(WorkerBlock(w))].ready = 0
                 /\ WorkerBlock(w) # rpos
                 /\ \A v \in Workers : wstep'[v] = "signal" /\ WorkerBlock(v) = WorkerBlock(w)
                                         => v = w
      <3>1. wstep[w] = "signal"
        BY <1>7, <2>2
      <3>2. queue[Offset(WorkerBlock(w))].ready = 0
        BY <3>1 DEF Signals, Buffer
      <3>3. Offset(WorkerBlock(w)) # j
        BY <1>3, <3>2
      <3>4. Offset(WorkerBlock(w)) \in Indices
        BY <1>1, <3>1, WorkerInPlace
      <3>5. queue'[Offset(WorkerBlock(w))] = queue[Offset(WorkerBlock(w))]
        BY <1>5, <3>3, <3>4
      <3>6. QED BY <1>2, <1>7, <3>1, <3>3, <3>5 DEF Signals, Buffer
    <2>3. queue'[Offset(rpos)].dones = Batch /\ queue'[Offset(rpos)].ready = 0
      BY <1>2, <1>3, <1>6
    <2>4. \A w \in Workers : WorkerBlock(w)' = WorkerBlock(w)
      BY <1>7 DEF WorkerBlock, BlockOf
    <2>5. QED BY <1>1, <2>1, <2>2, <2>3, <2>4 DEF Signals, Buffer, Offset
  <1>16. Given' /\ Written'
    BY <1>1, <1>6, <1>7, GivenSame, WrittenSame
  <1>17. Marked'
    BY <1>6, <1>7, <1>9, MarkedSame
  <1>18. Sent'
    BY <1>6, <1>7, SentSame
  <1>19. Taken'
    BY <1>1 DEF Taken
  <1>20. QED BY <1>13, <1>14, <1>15, <1>16, <1>17, <1>18, <1>19

(* A batch signalled has all its rows given out and filled, but for those  *)
(* made up for.                                                            *)
LEMMA FullBatch ==
  ASSUME IInv, rstep \in Passed
  PROVE  /\ Offset(rpos) \in Indices /\ Buffer(rpos).block = rpos
         /\ Buffer(rpos).dones = Batch
         /\ Buffer(rpos).offsets = Batch - radd
         /\ radd \in Nat /\ radd <= Batch
         /\ Own(rpos) = Batch - radd
         /\ \A w \in Workers : wstep[w] # "idle" => WorkerBlock(w) # rpos
         /\ \A r \in 0 .. Batch - radd - 1 : Buffer(rpos).rows[r] # NoRow
  <1> USE DEF IInv
  <1>1. /\ Layout /\ TypeOK /\ rpos \in Nat
        /\ radd \in Nat /\ radd <= Batch /\ MadeUp = radd
    BY MadeUpBound DEF Layout, TypeOK, Passed
  <1>2. PICK j \in Indices : /\ j = Offset(rpos) /\ queue[j].block = rpos
                             /\ queue[j] \in BufferType /\ queue[j].dones = Batch
    BY <1>1, ReaderInPlace DEF Buffer, TypeOK, Signals
  <1>3. \A w \in Workers : wstep[w] \in Unfinished => WorkerBlock(w) # rpos
    BY <1>1, <1>2, NoneLeft
  <1>4. \A w \in Workers : wstep[w] # "idle" => WorkerBlock(w) # rpos
    BY <1>1, <1>3 DEF Signals, Unfinished, Layout, Places, TypeOK, WorkerSteps
  <1>5. queue[j].offsets = Batch - radd /\ Own(rpos) = Batch - radd
    <2>1. InSteps({"count", "take"}, rpos) = {} /\ InSteps(Unfinished, rpos) = {}
      BY <1>3 DEF InSteps, Unfinished
    <2>2. queue[j].offsets + 0 = Own(rpos) /\ Batch + 0 = Own(rpos) + Missing(rpos)
      BY <1>1, <1>2, <2>1, FS_EmptySet DEF Counts
    <2>3. Missing(rpos) = radd
      BY DEF Missing
    <2>4. Own(rpos) \in Int /\ queue[j].offsets \in Nat
      BY <1>1, <1>2, OwnBound DEF BufferType
    <2>5. QED BY <1>1, <2>2, <2>3, <2>4, Sizes
  <1>6. ASSUME NEW r \in 0 .. Batch - radd - 1 PROVE queue[j].rows[r] # NoRow
    <2>1. PICK S : S = 0 .. Batch - radd - 1
      OBVIOUS
    <2>2. IsFiniteSet(S) /\ Cardinality(S) = Batch - radd
      BY <1>1, <2>1, Sizes, FS_Interval
    <2>3. GivenRows(j) \subseteq S /\ Cardinality(GivenRows(j)) = Batch - radd
      BY <1>1, <1>5, <2>1 DEF Marked
    <2>4. GivenRows(j) = S
      BY <2>2, <2>3, FS_Subset
    <2>5. r \in GivenRows(j)
      BY <2>1, <2>4
    <2>6. ~ \E w \in Workers : wstep[w] = "fill" /\ Offset(WorkerBlock(w)) = j
      BY <1>1, <1>2, <1>4, WorkerInPlace DEF Buffer
    <2>7. QED BY <2>5, <2>6 DEF GivenRows
  <1>7. QED BY <1>1, <1>2, <1>4, <1>5, <1>6 DEF Buffer

(* The reader collects the whole batch.                                    *)
LEMMA CollectStep ==
  ASSUME IInv, Collect, UNCHANGED in_flight
  PROVE  IInv'
  <1>1. TypeOK /\ Reader /\ Room /\ Marked /\ rstep = "collect" /\ rstep' = "advance"
        /\ UNCHANGED <<bufferVars, stockVars, workerVars, rpos, radd>>
    BY DEF IInv, Layout, Collect, MoveReader
  <1>2. ret' = [n \in 1 .. Batch - radd |-> Buffer(rpos).rows[n - 1]]
    BY <1>1, FullBatch DEF Collect, Passed
  <1>3. DOMAIN ret' \subseteq 1 .. Batch /\ \A n \in DOMAIN ret' : ret'[n] \in Envs \cup {NoRow}
    <2>1. \A n \in 1 .. Batch - radd : n \in 1 .. Batch /\ n - 1 \in Rows
      BY <1>1, Sizes DEF Rows, TypeOK
    <2>2. Buffer(rpos).rows \in [Rows -> Envs \cup {NoRow}]
      BY <1>1, FullBatch DEF Passed, TypeOK, BufferType, Buffer
    <2>3. QED BY <1>2, <2>1, <2>2
  <1>4. TypeOK'
    BY <1>1, <1>3 DEF TypeOK, ReaderSteps, bufferVars, stockVars, workerVars
  <1>5. Oldest' = Oldest /\ Room' /\ MadeUp' = MadeUp
    BY <1>1 DEF Oldest, Room, MadeUp, Passed, bufferVars
  <1>6. Reader'
    BY <1>1, <1>5 DEF Reader, Passed, bufferVars
  <1>7. Taken'
    BY <1>1, <1>2 DEF Taken, Buffer, Offset, bufferVars
  <1>8. \A k \in Nat : Own(k)' = Own(k) /\ Missing(k)' = Missing(k)
    BY <1>1, OwnSame DEF Passed, bufferVars
  <1>9. \A i \in Indices : GivenRows(i) \subseteq 0 .. Batch - MadeUp' - 1
    BY <1>1, <1>5 DEF Marked
  <1>10. alloc_count' >= alloc_count
    BY <1>1 DEF TypeOK, bufferVars
  <1>11. QED BY <1>1, <1>4, <1>5, <1>6, <1>7, <1>8, <1>9, <1>10, QuietStep DEF Passed, bufferVars

(* The positions of the states made up for are passed over: they were the  *)
(* last ones of the batch, and none has been claimed beyond it.            *)
LEMMA AdvanceBlockStep ==
  ASSUME IInv, AdvanceBlock, UNCHANGED in_flight
  PROVE  IInv'
  <1>1. /\ TypeOK /\ Reader /\ Room /\ Marked /\ Taken
        /\ rstep = "advance" /\ rstep' = "swap" /\ alloc_count' = alloc_count + radd
        /\ UNCHANGED <<queue, done_ptr, stockVars, workerVars, rpos, radd, ret>>
    BY DEF IInv, Layout, AdvanceBlock, MoveReader
  <1>2. alloc_count \in Nat /\ radd \in Nat /\ rpos \in Nat /\ Oldest = rpos
    BY <1>1 DEF TypeOK, Oldest, Passed
  <1>3. TypeOK'
    BY <1>1, <1>2 DEF TypeOK, ReaderSteps, stockVars, workerVars
  <1>4. Oldest' = Oldest /\ MadeUp' = MadeUp
    BY <1>1 DEF Oldest, MadeUp, Passed
  <1>5. Reader'
    BY <1>1, <1>4 DEF Reader, Passed
  <1>6. Room'
    <2>1. PICK q \in Nat : q = rpos * Batch
      BY <1>2, Sizes
    <2>2. q <= alloc_count /\ alloc_count - q <= Cardinality(in_flight)
      BY <1>1, <1>2, <2>1, FlightBound DEF Room
    <2>3. q <= alloc_count + radd /\ alloc_count + radd - q + 0 <= Cardinality(in_flight) + radd
      BY <1>1, <1>2, <2>1, <2>2, FlightBound
    <2>4. QED BY <1>1, <1>2, <1>4, <2>1, <2>3 DEF Room
  <1>7. Taken'
    BY <1>1 DEF Taken, Buffer, Offset
  <1>8. ASSUME NEW k \in Nat PROVE Own(k)' = Own(k) /\ Missing(k)' = Missing(k)
    <2>1. Missing(k)' = Missing(k)
      BY <1>1 DEF Missing, Passed
    <2>2. PICK q \in Nat, p \in Nat : q = rpos * Batch /\ p = k * Batch
      BY <1>2, Sizes
    <2>3. q <= alloc_count
      BY <1>1, <1>2, <2>2 DEF Room
    <2>4. Claimed(rpos) = Batch - radd /\ radd <= Batch
      <3>1. Own(rpos) = Batch - radd /\ radd <= Batch
        BY <1>1, FullBatch DEF Passed
      <3>2. Own(rpos) = Claimed(rpos) - 0
        BY <1>1 DEF Own
      <3>3. Claimed(rpos) \in Nat
        BY <1>1, <1>2, ClaimedBound
      <3>4. QED BY <3>1, <3>2, <3>3
    <2>5. radd > 0 => alloc_count = q + Batch - radd
      BY <1>2, <2>2, <2>3, <2>4, Sizes DEF Claimed
    <2>6. Claimed(k) = IF alloc_count <= p THEN 0
                       ELSE IF alloc_count >= p + Batch THEN Batch ELSE alloc_count - p
      BY <2>2 DEF Claimed
    <2>7. PICK a \in Nat :
            /\ a = alloc_count + radd
            /\ Claimed(k)' = IF a <= p THEN 0 ELSE IF a >= p + Batch THEN Batch ELSE a - p
      <3>1. PICK a \in Nat : a = alloc_count + radd /\ a = alloc_count'
        BY <1>1, <1>2
      <3>2. Claimed(k)' = IF a <= p THEN 0 ELSE IF a >= p + Batch THEN Batch ELSE a - p
        BY <2>2, <3>1 DEF Claimed
      <3>3. QED BY <3>1, <3>2
    <2>8. Claimed(k)' = Claimed(k) + (IF k = rpos THEN radd ELSE 0)
      <3>1. CASE radd = 0
        BY <1>2, <2>2, <2>6, <2>7, <3>1, Sizes
      <3>2. CASE radd > 0 /\ k = rpos
        BY <1>2, <2>2, <2>4, <2>5, <2>6, <2>7, <3>2, Sizes
      <3>3. CASE radd > 0 /\ k < rpos
        <4>1. p + Batch <= q
          BY <1>2, <2>2, <3>3, BlocksOrdered
        <4>2. QED BY <1>2, <2>2, <2>3, <2>6, <2>7, <3>3, <4>1, Sizes
      <3>4. CASE radd > 0 /\ k > rpos
        <4>1. q + Batch <= p
          BY <1>2, <2>2, <3>4, BlocksOrdered
        <4>2. QED BY <1>2, <2>2, <2>4, <2>5, <2>6, <2>7, <3>4, <4>1, Sizes
      <3>5. QED BY <1>2, <3>1, <3>2, <3>3, <3>4
    <2>9. Claimed(k) \in Nat
      BY <1>1, ClaimedBound
    <2>10. Own(k) = Claimed(k) /\ Own(k)' = Claimed(k)' - (IF k = rpos THEN radd ELSE 0)
      BY <1>1, <1>2, <2>9 DEF Own
    <2>11. QED BY <1>2, <2>1, <2>8, <2>9, <2>10
  <1>9. \A i \in Indices : GivenRows(i) \subseteq 0 .. Batch - MadeUp' - 1
    BY <1>1, <1>4 DEF Marked
  <1>10. alloc_count' >= alloc_count
    BY <1>1, <1>2
  <1>11. QED BY <1>1, <1>3, <1>4, <1>5, <1>6, <1>7, <1>8, <1>9, <1>10, QuietStep DEF Passed

(* A batch and the one a round later share a slot.                         *)
LEMMA NextRound == ASSUME NEW k \in Nat PROVE Offset(k + QueueSize) = Offset(k)
  <1>1. PICK N \in Nat \ {0} : N = QueueSize
    BY Sizes
  <1>2. PICK a \in Nat, r \in 0 .. N - 1 : k = N * a + r /\ r = k % N
    BY Division
  <1>3. PICK b \in Nat, t \in 0 .. N - 1 : k + N = N * b + t /\ t = (k + N) % N
    <2>1. k + N \in Nat OBVIOUS
    <2>2. QED BY <2>1, Division
  <1>4. PICK x \in Int, y \in Int : x = N * a /\ y = N * b
    OBVIOUS
  <1>5. t - r = N * (a + 1 - b) /\ r - t = N * (b - a - 1)
    <2>1. N * (a + 1 - b) = N * a + N - N * b /\ N * (b - a - 1) = N * b - N * a - N
      OBVIOUS
    <2>2. k = x + r /\ k + N = y + t
      BY <1>2, <1>3, <1>4
    <2>3. t - r = x + N - y /\ r - t = y - x - N
      BY <2>2, <1>4
    <2>4. N * (a + 1 - b) = x + N - y /\ N * (b - a - 1) = y - x - N
      BY <2>1, <1>4
    <2>5. QED BY <2>3, <2>4
  <1>6. ~(0 < t - r) /\ ~(0 < r - t)
    <2>1. a + 1 - b \in Int /\ b - a - 1 \in Int OBVIOUS
    <2>2. /\ ~(0 < N * (a + 1 - b) /\ N * (a + 1 - b) < N)
          /\ ~(0 < N * (b - a - 1) /\ N * (b - a - 1) < N)
      BY <2>1, NoMultipleBetween
    <2>3. t - r < N /\ r - t < N
      OBVIOUS
    <2>4. QED BY <1>5, <2>2, <2>3
  <1>7. QED BY <1>1, <1>2, <1>3, <1>6 DEF Offset

(* The buffer that takes the place of a batch collected serves the batch a *)
(* round later, which nobody has begun.                                    *)
LEMMA SwapBufferStep ==
  ASSUME IInv, SwapBuffer, UNCHANGED in_flight
  PROVE  IInv'
  <1> USE DEF IInv
  <1>1. /\ rstep = "swap" /\ rstep' = "return" /\ Layout /\ TypeOK /\ rpos \in Nat
        /\ Oldest = rpos /\ done_ptr = rpos + 1 /\ Reader /\ Room
        /\ UNCHANGED <<alloc_count, done_ptr, stockVars, workerVars, rpos, radd, ret>>
    BY DEF SwapBuffer, MoveReader, Layout, Oldest, Passed, Reader, TypeOK
  <1>2. UNCHANGED <<wstep, wenv, wpos, wrow>>
    BY <1>1 DEF workerVars
  <1>3. PICK j \in Indices :
          /\ j = Offset(rpos) /\ queue[j].block = rpos
          /\ queue[j].dones = Batch /\ radd \in Nat /\ radd <= Batch
          /\ Own(rpos) = Batch - radd
          /\ \A w \in Workers : wstep[w] # "idle" => WorkerBlock(w) # rpos
          /\ \A r \in 0 .. Batch - radd - 1 : queue[j].rows[r] # NoRow
    BY <1>1, FullBatch DEF Passed, Buffer
  <1>4. PICK k \in Nat : k = rpos + QueueSize
    BY <1>1, Sizes
  <1>5. PICK b \in BufferType :
          /\ b = NewBuffer(k)
          /\ b.block = k /\ b.allocs = 0 /\ b.offsets = 0 /\ b.dones = 0 /\ b.ready = 0
          /\ \A r \in Rows : b.rows[r] = NoRow
    <2>1. NewBuffer(k) \in BufferType
      BY <1>4 DEF NewBuffer, BufferType
    <2>2. /\ NewBuffer(k).block = k /\ NewBuffer(k).allocs = 0 /\ NewBuffer(k).offsets = 0
          /\ NewBuffer(k).dones = 0 /\ NewBuffer(k).ready = 0
          /\ \A r \in Rows : NewBuffer(k).rows[r] = NoRow
      BY DEF NewBuffer
    <2>3. QED BY <2>1, <2>2
  <1>6. /\ queue' \in [Indices -> BufferType] /\ queue'[j] = b
        /\ \A i \in Indices \ {j} : queue'[i] = queue[i]
    <2>1. queue' = [queue EXCEPT ![j] = b]
      BY <1>3, <1>4, <1>5 DEF SwapBuffer
    <2>2. QED BY <1>1, <2>1, ReplaceBuffer
  <1>7. Oldest' = rpos + 1
    BY <1>1 DEF Oldest, Passed
  <1>8. PICK q \in Nat : /\ q = rpos * Batch
                         /\ (rpos + 1) * Batch = q + Batch
                         /\ alloc_count <= q + NumEnvs
                         /\ q + Batch <= alloc_count
    <2>1. PICK B \in Nat \ {0} : B = Batch
      BY Sizes
    <2>2. rpos * B \in Nat /\ (rpos + 1) * B = rpos * B + B
      BY <1>1
    <2>3. alloc_count <= rpos * Batch + NumEnvs
      BY <1>1, RoomBound
    <2>4. Claimed(rpos) = Batch
      BY <1>1, <1>3, ClaimedBound, Sizes DEF Own
    <2>5. alloc_count \in Nat
      BY <1>1 DEF TypeOK
    <2>6. rpos * Batch + Batch <= alloc_count
      BY <2>1, <2>2, <2>4, <2>5, Sizes DEF Claimed
    <2>7. QED BY <2>1, <2>2, <2>3, <2>6
  <1>9. TypeOK'
    BY <1>1, <1>2, <1>6 DEF TypeOK, ReaderSteps, stockVars
  <1>10. Reader' /\ MadeUp' = MadeUp
    BY <1>1 DEF Reader, MadeUp, Passed
  <1>11. Ring'
    <2>1. Offset(k) = j /\ k \in rpos + 1 .. rpos + 1 + QueueSize - 1
      BY <1>1, <1>3, <1>4, NextRound, Sizes
    <2>2. ASSUME NEW i \in Indices \ {j}
          PROVE  queue[i].block \in rpos + 1 .. rpos + 1 + QueueSize - 1 /\ Offset(queue[i].block) = i
      <3>1. queue[i].block \in rpos .. rpos + QueueSize - 1 /\ Offset(queue[i].block) = i
        BY <1>1 DEF Layout, Ring
      <3>2. queue[i].block # rpos
        BY <1>3, <3>1
      <3>3. QED BY <1>1, <3>1, <3>2, Sizes
    <2>3. QED BY <1>5, <1>6, <1>7, <2>1, <2>2 DEF Ring, Offset
  <1>12. Room'
    <2>1. alloc_count \in Nat /\ Cardinality(in_flight) \in Nat
      BY <1>1, FlightBound DEF TypeOK
    <2>2. alloc_count - q <= Cardinality(in_flight) + radd
      BY <1>1, <1>3, <1>8, <2>1 DEF Room
    <2>3. alloc_count - (q + Batch) + (Batch - radd) <= Cardinality(in_flight)
      BY <1>3, <2>1, <2>2, Sizes
    <2>4. PICK z \in Nat : z = q + Batch /\ (rpos + 1) * Batch = z
      BY <1>8, Sizes
    <2>5. z <= alloc_count /\ alloc_count - z + (Batch - radd) <= Cardinality(in_flight) + 0
      BY <1>8, <2>1, <2>3, <2>4
    <2>6. QED BY <1>1, <1>7, <2>4, <2>5, Zenon DEF Room
  <1>13. \A w \in Workers : WorkerBlock(w)' = WorkerBlock(w)
    BY <1>2 DEF WorkerBlock, BlockOf
  <1>14. \A w \in Workers : wstep[w] # "idle" =>
           /\ WorkerBlock(w) \in Nat /\ rpos + 1 <= WorkerBlock(w) /\ WorkerBlock(w) # k
           /\ Offset(WorkerBlock(w)) \in Indices /\ Offset(WorkerBlock(w)) # j
    <2>1. SUFFICES ASSUME NEW w \in Workers, wstep[w] # "idle"
                   PROVE  /\ WorkerBlock(w) \in Nat /\ rpos + 1 <= WorkerBlock(w)
                          /\ WorkerBlock(w) # k
                          /\ Offset(WorkerBlock(w)) \in Indices
                          /\ Offset(WorkerBlock(w)) # j
      OBVIOUS
    <2>2. /\ WorkerBlock(w) \in Nat /\ rpos <= WorkerBlock(w)
          /\ WorkerBlock(w) < rpos + QueueSize
          /\ Offset(WorkerBlock(w)) \in Indices
          /\ queue[Offset(WorkerBlock(w))].block = WorkerBlock(w)
      BY <1>1, <2>1, WorkerInPlace DEF Buffer
    <2>3. WorkerBlock(w) # rpos
      BY <1>3, <2>1
    <2>4. QED BY <1>1, <1>3, <1>4, <2>2, <2>3, Sizes
  <1>15. Places'
    BY <1>1, <1>2, <1>7, <1>13, <1>14 DEF Layout, Places
  <1>16. Counts'
    <2>1. SUFFICES ASSUME NEW i \in Indices, NEW m \in Nat, queue'[i].block = m
                   PROVE  /\ queue'[i].allocs + Cardinality(InSteps({"count"}, m)') = Own(m)'
                          /\ queue'[i].offsets + Cardinality(InSteps({"count", "take"}, m)')
                               = Own(m)'
                          /\ queue'[i].dones + Cardinality(InSteps(Unfinished, m)')
                               = Own(m)' + Missing(m)'
      BY DEF Counts
    <2>2. /\ InSteps({"count"}, m)' = InSteps({"count"}, m)
          /\ InSteps({"count", "take"}, m)' = InSteps({"count", "take"}, m)
          /\ InSteps(Unfinished, m)' = InSteps(Unfinished, m)
          /\ Own(m)' = Claimed(m) /\ Missing(m)' = 0
      <3>1. Claimed(m) \in Nat
        BY <1>1, ClaimedBound
      <3>2. QED BY <1>1, <1>2, <3>1 DEF InSteps, Own, Missing, Claimed, Passed, WorkerBlock, BlockOf
    <2>3. CASE i # j
      <3>1. queue[i].block = m /\ m # rpos
        BY <1>1, <1>3, <1>6, <2>1, <2>3 DEF Layout, Ring
      <3>2. Own(m) = Claimed(m) /\ Missing(m) = 0
        BY <1>1, <3>1, ClaimedBound DEF Own, Missing
      <3>3. QED BY <1>6, <2>2, <2>3, <3>1, <3>2 DEF Counts
    <2>4. CASE i = j
      <3>1. m = k
        BY <1>5, <1>6, <2>1, <2>4
      <3>2. /\ InSteps({"count"}, k) = {} /\ InSteps({"count", "take"}, k) = {}
            /\ InSteps(Unfinished, k) = {}
        BY <1>14 DEF InSteps, Unfinished
      <3>3. Claimed(k) = 0
        <4>1. k * Batch = q + QueueSize * Batch
          <5>1. \A x, y, z \in Nat : (x + y) * z = x * z + y * z OBVIOUS
          <5>2. QED BY <1>1, <1>4, <1>8, <5>1, Sizes
        <4>2. PICK z \in Nat : z = QueueSize * Batch /\ NumEnvs < z
          BY Sizes
        <4>3. alloc_count <= k * Batch
          BY <1>1, <1>8, <4>1, <4>2, Sizes DEF TypeOK
        <4>4. QED BY <4>3 DEF Claimed
      <3>4. Cardinality({}) = 0 /\ 0 + 0 = 0
        BY FS_EmptySet
      <3>5. QED BY <1>5, <1>6, <2>2, <2>4, <3>1, <3>2, <3>3, <3>4
    <2>5. QED BY <2>3, <2>4
  <1>17. Signals'
    <2>1. \A i \in Indices : queue'[i].ready > 0 =>
            queue'[i].dones = Batch /\ queue'[i].ready = 1
      BY <1>5, <1>6 DEF Signals
    <2>2. \A w \in Workers : wstep[w] = "signal" =>
            queue'[Offset(WorkerBlock(w))] = queue[Offset(WorkerBlock(w))]
      BY <1>6, <1>14
    <2>3. QED BY <1>1, <1>2, <1>13, <2>1, <2>2 DEF Signals, Buffer, Offset, Passed
  <1>18. Given'
    <2>1. \A w \in Workers : wstep[w] # "idle" =>
            queue'[Offset(WorkerBlock(w))] = queue[Offset(WorkerBlock(w))]
      BY <1>6, <1>14
    <2>2. QED BY <1>2, <1>13, <2>1 DEF Given, Buffer, Offset
  <1>19. Written' /\ Marked'
    <2>1. \A w \in Workers : wstep[w] # "idle" =>
            queue'[Offset(WorkerBlock(w))] = queue[Offset(WorkerBlock(w))]
      BY <1>6, <1>14
    <2>2. Written'
      BY <1>2, <1>13, <2>1 DEF Written, Buffer, Offset
    <2>3. \A i \in Indices \ {j} : GivenRows(i)' = GivenRows(i)
      BY <1>2, <1>6, GivenRowsSame
    <2>4. GivenRows(j)' = {}
      BY <1>2, <1>5, <1>6, <1>13, <1>14 DEF GivenRows, Rows, Offset
    <2>5. Cardinality({}) = 0 /\ 0 .. 0 - 1 = {}
      BY FS_EmptySet
    <2>6. ASSUME NEW i \in Indices
          PROVE  /\ Cardinality(GivenRows(i)') = queue'[i].offsets
                 /\ GivenRows(i)' \subseteq 0 .. Batch - MadeUp' - 1
                 /\ ~IsSync => GivenRows(i)' = 0 .. queue'[i].offsets - 1
      <3>1. CASE i = j
        BY <1>5, <1>6, <2>4, <2>5, <3>1
      <3>2. CASE i # j
        BY <1>6, <1>10, <2>3, <3>2 DEF Marked
      <3>3. QED BY <3>1, <3>2
    <2>7. QED BY <2>2, <2>6 DEF Marked
  <1>20. \A i \in Indices, r \in Rows : queue'[i].rows[r] # NoRow =>
           i # j /\ queue'[i].rows[r] = queue[i].rows[r]
    BY <1>5, <1>6
  <1>21. Sent'
    <2>1. ASSUME NEW i \in Indices, NEW r \in Rows, queue'[i].rows[r] # NoRow
          PROVE  /\ queue'[i].rows[r] \in in_flight
                 /\ \A w \in Workers : wstep[w] \in Holding => wenv[w] # queue'[i].rows[r]
                 /\ \A m \in Indices, s \in Rows :
                      queue'[m].rows[s] = queue'[i].rows[r] => i = m /\ r = s
      <3>1. PICK x : x = queue[i].rows[r] /\ queue'[i].rows[r] = x /\ x # NoRow
        BY <1>20, <2>1
      <3>2. /\ x \in in_flight
            /\ \A w \in Workers : wstep[w] \in Holding => wenv[w] # x
            /\ \A m \in Indices, s \in Rows : queue[m].rows[s] = x => i = m /\ r = s
        BY <3>1 DEF Sent
      <3>3. \A m \in Indices, s \in Rows : queue'[m].rows[s] = x => i = m /\ r = s
        BY <1>20, <3>1, <3>2
      <3>4. QED BY <3>1, <3>2, <3>3
    <2>2. QED BY <1>2, <2>1 DEF Sent, Rows
  <1>22. Taken'
    <2>1. ret = [n \in 1 .. Batch - radd |-> queue[j].rows[n - 1]]
      BY <1>1, <1>3 DEF Taken, Buffer
    <2>2. \A n \in 1 .. Batch - radd : /\ n - 1 \in Rows /\ n - 1 \in 0 .. Batch - radd - 1
                                      /\ ret[n] = queue[j].rows[n - 1]
      BY <1>3, <2>1, Sizes DEF Rows
    <2>3. ASSUME NEW n \in 1 .. Batch - radd
          PROVE  /\ ret[n] \in in_flight
                 /\ \A m \in 1 .. Batch - radd : ret[m] = ret[n] => m = n
                 /\ \A w \in Workers : wstep[w] \in Holding => wenv[w] # ret[n]
                 /\ \A i \in Indices, r \in Rows : queue'[i].rows[r] # ret[n]
      <3>1. PICK x : x = ret[n] /\ x = queue[j].rows[n - 1] /\ x # NoRow
        BY <1>3, <2>2
      <3>2. /\ x \in in_flight
            /\ \A w \in Workers : wstep[w] \in Holding => wenv[w] # x
            /\ \A m \in Indices, s \in Rows : queue[m].rows[s] = x => j = m /\ n - 1 = s
        BY <2>2, <3>1 DEF Sent
      <3>3. \A m \in 1 .. Batch - radd : ret[m] = x => m = n
        <4>1. SUFFICES ASSUME NEW m \in 1 .. Batch - radd, ret[m] = x PROVE m = n
          OBVIOUS
        <4>2. n - 1 = m - 1
          BY <2>2, <3>2, <4>1
        <4>3. QED BY <4>2, Sizes
      <3>4. \A i \in Indices, r \in Rows : queue'[i].rows[r] # x
        BY <1>20, <3>1, <3>2
      <3>5. QED BY <3>1, <3>2, <3>3, <3>4
    <2>4. ret \in [1 .. Batch - radd -> in_flight]
      BY <2>1, <2>2, <2>3
    <2>5. QED BY <1>1, <1>2, <2>3, <2>4 DEF Taken, Rows
  <1>23. QED BY <1>9, <1>10, <1>11, <1>12, <1>15, <1>16, <1>17, <1>18, <1>19, <1>21, <1>22
         DEF Layout

(* The environments received are no longer in flight, and are in no row    *)
(* and with no worker.                                                     *)
LEMMA ReceivedStep ==
  ASSUME IInv, Received
  PROVE  IInv'
  <1> USE DEF IInv
  <1>1. /\ rstep = "return" /\ rstep' = "idle" /\ Layout /\ TypeOK
        /\ rpos' = 0 /\ radd' = 0 /\ ret' = <<>>
        /\ UNCHANGED <<bufferVars, stockVars, workerVars>>
    BY DEF Received, ReturnWait, MoveReader, Layout
  <1>2. UNCHANGED <<alloc_count, done_ptr, queue, wstep, wenv, wpos, wrow>>
    BY <1>1 DEF bufferVars, workerVars
  <1>3. /\ ret \in [1 .. Batch - radd -> in_flight]
        /\ radd \in Nat /\ Batch - radd \in Nat
    <2>1. ret \in [1 .. Batch - radd -> in_flight]
      BY <1>1 DEF Taken
    <2>2. QED BY <1>1, <2>1, MadeUpBound, Sizes DEF Layout, TypeOK
  <1>4. PICK S : S = {ret[n] : n \in 1 .. Batch - radd} /\ in_flight' = in_flight \ S
    BY <1>3 DEF Received
  <1>5. Cardinality(in_flight') >= Cardinality(in_flight) - (Batch - radd)
    <2>1. ret \in Surjection(1 .. Batch - radd, S)
      BY <1>3, <1>4 DEF Surjection
    <2>2. Cardinality(S) <= Batch - radd
      <3>1. PICK n \in Nat : n = Batch - radd
        BY <1>3
      <3>2. ExistsSurjection(1 .. n, S)
        BY <2>1, <3>1 DEF ExistsSurjection
      <3>3. Cardinality(S) <= n
        BY <3>2, FS_SurjCardinalityBound
      <3>4. QED BY <3>1, <3>3
    <2>3. S \subseteq in_flight
      BY <1>3, <1>4
    <2>4. in_flight \cap S = S /\ IsFiniteSet(S) /\ IsFiniteSet(in_flight)
      BY <1>1, <2>3, FlightBound, FS_Subset
    <2>5. Cardinality(in_flight') = Cardinality(in_flight) - Cardinality(S)
      <3>1. in_flight' = in_flight \ S
        BY <1>4
      <3>2. Cardinality(in_flight \ S) = Cardinality(in_flight) - Cardinality(in_flight \cap S)
        BY <2>4, FS_Difference
      <3>3. QED BY <2>4, <3>1, <3>2, Zenon
    <2>6. Cardinality(S) \in Nat /\ Cardinality(in_flight) \in Nat
      BY <2>4, FS_CardinalityType
    <2>7. QED BY <1>3, <2>2, <2>5, <2>6
  <1>6. TypeOK'
    <2>1. in_flight' \subseteq Envs
      BY <1>1, <1>4 DEF TypeOK
    <2>2. DOMAIN ret' = {}
      BY <1>1
    <2>3. DOMAIN ret' \subseteq 1 .. Batch /\ \A n \in DOMAIN ret' : ret'[n] \in Envs \cup {NoRow}
      BY <2>2
    <2>4. rpos' \in Nat /\ radd' \in Nat /\ rstep' \in ReaderSteps
      BY <1>1 DEF ReaderSteps
    <2>5. QED BY <1>1, <1>2, <2>1, <2>3, <2>4 DEF TypeOK, stockVars
  <1>7. Oldest' = Oldest
    BY <1>1, <1>2 DEF Oldest, Passed
  <1>8. Reader' /\ MadeUp' = 0
    BY <1>1 DEF Reader, MadeUp, Passed
  <1>9. Room'
    <2>1. alloc_count \in Nat /\ Oldest * Batch \in Nat
      BY <1>1, OldestType DEF TypeOK
    <2>2. alloc_count - Oldest * Batch + (Batch - radd) <= Cardinality(in_flight)
      BY <1>1, <1>3, <2>1, FlightBound DEF Layout, Room
    <2>3. Cardinality(in_flight) \in Nat /\ Cardinality(in_flight') \in Nat
      BY <1>1, <1>6, FlightBound, FS_Subset, FS_CardinalityType, BatchAssumption DEF TypeOK
    <2>4. alloc_count - Oldest * Batch + 0 <= Cardinality(in_flight')
      BY <1>3, <1>5, <2>1, <2>2, <2>3
    <2>5. Oldest * Batch <= alloc_count
      BY <1>1 DEF Layout, Room
    <2>6. PICK z \in Nat : z = Oldest * Batch /\ Oldest' * Batch = z
      BY <1>7, <2>1
    <2>7. QED BY <1>1, <1>2, <2>3, <2>4, <2>5, <2>6 DEF Room
  <1>10. Ring' /\ Places'
    BY <1>2, <1>7 DEF Layout, Ring, Places, Offset, WorkerBlock, BlockOf
  <1>11. Counts'
    <2>1. \A m \in Nat : Own(m)' = Own(m) /\ Missing(m)' = Missing(m)
      BY <1>1, <1>2 DEF Own, Missing, Claimed, Passed
    <2>2. QED BY <1>2, <2>1, CountsSame
  <1>12. Signals'
    BY <1>1, <1>2, SignalsSame DEF Passed
  <1>13. Given' /\ Written'
    BY <1>1, <1>2, GivenSame, WrittenSame
  <1>14. Marked'
    <2>1. \A i \in Indices : GivenRows(i)' = GivenRows(i)
      BY <1>2, GivenRowsSame
    <2>2. \A i \in Indices : GivenRows(i)' \subseteq 0 .. Batch - MadeUp' - 1
      BY <1>8, <2>1, Sizes DEF GivenRows, Rows
    <2>3. QED BY <1>2, <2>1, <2>2 DEF Marked
  <1>15. Sent'
    <2>1. \A w \in Workers : wstep[w] \in Holding => wenv[w] \in in_flight'
      BY <1>1, <1>4 DEF Taken, Sent
    <2>2. \A i \in Indices, r \in Rows : queue[i].rows[r] # NoRow =>
            queue[i].rows[r] \in in_flight'
      BY <1>1, <1>4 DEF Taken, Sent
    <2>3. QED BY <1>2, <2>1, <2>2 DEF Sent, Rows
  <1>16. Taken'
    BY <1>1 DEF Taken
  <1>17. QED BY <1>6, <1>8, <1>9, <1>10, <1>11, <1>12, <1>13, <1>14, <1>15, <1>16 DEF Layout

-----------------------------------------------------------------------------
(* The queue begins empty.                                                 *)
LEMMA InitIInv == Init => IInv
  <1> SUFFICES ASSUME Init PROVE IInv
    OBVIOUS
  <1>1. \A i \in Indices :
          /\ i \in Nat /\ i < QueueSize
          /\ queue[i] = NewBuffer(i) /\ queue[i].block = i
          /\ queue[i].allocs = 0 /\ queue[i].offsets = 0
          /\ queue[i].dones = 0 /\ queue[i].ready = 0
          /\ \A r \in Rows : queue[i].rows[r] = NoRow
    BY Sizes DEF Init, NewBuffer, Indices
  <1>2. \A w \in Workers : wstep[w] = "idle"
    BY DEF Init
  <1>3. Oldest = 0
    BY DEF Init, Oldest, Passed
  <1>4. TypeOK
    <2>1. queue \in [Indices -> BufferType]
      <3>1. \A i \in Indices : NewBuffer(i) \in BufferType
        BY <1>1 DEF NewBuffer, BufferType
      <3>2. QED BY <3>1 DEF Init
    <2>2. stock \in 0 .. StockSize /\ quit \in BOOLEAN
      <3>1. stock \in 0 .. StockSize
        BY BatchAssumption DEF Init
      <3>2. quit \in BOOLEAN
        BY DEF Init
      <3>3. QED BY <3>1, <3>2
    <2>3. DOMAIN ret \subseteq 1 .. Batch /\ \A n \in DOMAIN ret : ret[n] \in Envs \cup {NoRow}
      <3>1. DOMAIN ret = {} BY DEF Init
      <3>2. QED BY <3>1
    <2>4. QED BY <2>1, <2>2, <2>3 DEF Init, TypeOK, WorkerSteps, ReaderSteps
  <1>5. Reader /\ MadeUp = 0
    BY DEF Init, Reader, MadeUp, Passed
  <1>6. Ring
    <2>1. ASSUME NEW i \in Indices PROVE Offset(i) = i
      <3>1. PICK N \in Nat \ {0} : N = QueueSize /\ i \in Nat /\ i < N
        BY <1>1, Sizes
      <3>2. i % N = i
        BY <3>1
      <3>3. QED BY <3>1, <3>2 DEF Offset
    <2>2. QED BY <1>1, <1>3, <2>1, Sizes DEF Ring
  <1>7. Room
    <2>1. Cardinality(in_flight) = 0
      BY FS_EmptySet DEF Init
    <2>2. 0 * Batch = 0
      BY Sizes
    <2>3. QED BY <1>3, <2>1, <2>2 DEF Room, Init
  <1>8. Places
    BY <1>2 DEF Places
  <1>9. Counts
    <2>1. SUFFICES ASSUME NEW i \in Indices, NEW k \in Nat
                   PROVE  /\ queue[i].allocs + Cardinality(InSteps({"count"}, k)) = Own(k)
                          /\ queue[i].offsets + Cardinality(InSteps({"count", "take"}, k))
                               = Own(k)
                          /\ queue[i].dones + Cardinality(InSteps(Unfinished, k)) = Own(k) + Missing(k)
      BY DEF Counts
    <2>2. /\ InSteps({"count"}, k) = {} /\ InSteps({"count", "take"}, k) = {}
          /\ InSteps(Unfinished, k) = {}
      BY <1>2 DEF InSteps, Unfinished
    <2>3. PICK m \in Nat : m = k * Batch
      BY Sizes
    <2>4. Own(k) = 0 /\ Missing(k) = 0
      BY <2>3 DEF Own, Missing, Claimed, Passed, Init
    <2>5. QED BY <1>1, <2>2, <2>4, FS_EmptySet
  <1>10. Signals
    BY <1>1, <1>2 DEF Signals, Init, Passed
  <1>11. Given
    BY <1>2 DEF Given
  <1>12. Written /\ Marked
    <2>1. Written
      BY <1>2 DEF Written
    <2>2. \A i \in Indices : GivenRows(i) = {}
      BY <1>1, <1>2 DEF GivenRows
    <2>3. Cardinality({}) = 0 /\ 0 .. 0 - 1 = {}
      BY FS_EmptySet
    <2>4. QED BY <1>1, <2>1, <2>2, <2>3 DEF Marked
  <1>13. Sent
    BY <1>1, <1>2 DEF Sent, Holding
  <1>14. Taken
    BY DEF Taken, Init
  <1>15. QED BY <1>4, <1>5, <1>6, <1>7, <1>8, <1>9, <1>10, <1>11, <1>12, <1>13, <1>14
         DEF IInv, Layout

(* Every step keeps the invariant.                                         *)
LEMMA NextIInv == ASSUME IInv, [Next]_vars PROVE IInv'
  <1>1. ASSUME NEW w \in Workers, WorkerStep(w), UNCHANGED in_flight PROVE IInv'
    BY <1>1, CountAllocStep, TakeRowStep, FillRowStep, DoneStep, SignalReadyStep DEF WorkerStep
  <1>2. ASSUME ReaderStep, UNCHANGED in_flight PROVE IInv'
    BY <1>2, WaitBeginsStep, AddDoneStep, WaitReadyStep, CollectStep, AdvanceBlockStep,
       SwapBufferStep DEF ReaderStep
  <1>3. CASE UNCHANGED vars
    <2>1. /\ UNCHANGED <<bufferVars, stockVars, workerVars, readerVars, in_flight>>
          /\ TypeOK /\ Reader /\ Room /\ Marked
      BY <1>3 DEF vars, IInv, Layout
    <2>2. TypeOK'
      BY <2>1 DEF TypeOK, bufferVars, stockVars, workerVars, readerVars
    <2>3. Oldest' = Oldest /\ Reader' /\ Room' /\ MadeUp' = MadeUp
      BY <2>1 DEF Oldest, Reader, Room, MadeUp, bufferVars, readerVars
    <2>4. Taken'
      BY <2>1, TakenSame DEF IInv, bufferVars, workerVars
    <2>5. \A k \in Nat : Own(k)' = Own(k) /\ Missing(k)' = Missing(k)
      BY <2>1, OwnSame DEF bufferVars, readerVars
    <2>6. \A i \in Indices : GivenRows(i) \subseteq 0 .. Batch - MadeUp' - 1
      BY <2>1, <2>3 DEF Marked
    <2>7. alloc_count' >= alloc_count
      BY <2>1 DEF TypeOK, bufferVars
    <2>8. QED BY <2>1, <2>2, <2>3, <2>4, <2>5, <2>6, <2>7, QuietStep DEF bufferVars, readerVars
  <1>4. QED BY <1>1, <1>2, <1>3, AllocateStep, WaitBeginsStep, ReceivedStep, StockStep DEF Next

(* The ring and the counters of its buffers always agree with the workers' *)
(* positions and the environments in flight.                               *)
THEOREM QueueInvariant == Spec => []IInv
  BY InitIInv, NextIInv, PTL DEF Spec

(* Type correctness; in particular the stock stays within its capacity.    *)
THEOREM TypeCorrect == Spec => []TypeOK
  <1>1. IInv => TypeOK
    BY DEF IInv, Layout
  <1>2. QED BY QueueInvariant, <1>1, PTL

(* The invariant implies that the ring is safe.                            *)
LEMMA SafeWithin == ASSUME IInv PROVE StorageSafe
  <1>1. Layout /\ TypeOK
    BY DEF IInv, Layout
  <1>2. BufferAlive
    BY <1>1, WorkerInPlace DEF BufferAlive
  <1>3. NeverOutOfStorage
    BY <1>1 DEF NeverOutOfStorage, Layout, Places
  <1>4. RowsExclusive
    BY DEF IInv, Given, RowsExclusive
  <1>5. QED BY <1>2, <1>3, <1>4 DEF StorageSafe

(* The invariant implies that what Wait has collected is complete.         *)
LEMMA CompleteWithin == ASSUME IInv PROVE BatchComplete
  <1>1. SUFFICES ASSUME rstep \in {"advance", "swap", "return"}
                 PROVE  /\ Len(ret) = Batch - radd
                        /\ \A i \in DOMAIN ret : ret[i] \in in_flight
                        /\ \A i, j \in DOMAIN ret : ret[i] = ret[j] => i = j
    BY DEF BatchComplete
  <1>2. TypeOK /\ Reader /\ Taken /\ Sent
    BY DEF IInv, Layout
  <1>3. /\ ret \in [1 .. Batch - radd -> in_flight]
        /\ \A n, m \in 1 .. Batch - radd : ret[m] = ret[n] => m = n
    <2>1. CASE rstep = "return"
      BY <1>2, <2>1 DEF Taken
    <2>2. CASE rstep \in {"advance", "swap"}
      <3>1. PICK j \in Indices : j = Offset(rpos) /\ \A r \in 0 .. Batch - radd - 1 : queue[j].rows[r] # NoRow
        BY <2>2, FullBatch DEF Passed, Buffer
      <3>2. ret = [n \in 1 .. Batch - radd |-> queue[j].rows[n - 1]]
        BY <1>2, <2>2, <3>1 DEF Taken, Buffer
      <3>3. \A n \in 1 .. Batch - radd : n - 1 \in Rows /\ n - 1 \in 0 .. Batch - radd - 1
        BY <1>2, Sizes DEF Rows, TypeOK
      <3>4. \A n \in 1 .. Batch - radd :
              /\ ret[n] = queue[j].rows[n - 1] /\ ret[n] # NoRow /\ ret[n] \in in_flight
        BY <1>2, <3>1, <3>2, <3>3 DEF Sent
      <3>5. ASSUME NEW n \in 1 .. Batch - radd, NEW m \in 1 .. Batch - radd,
                   ret[m] = ret[n]
            PROVE  m = n
        <4>1. n - 1 = m - 1
          BY <1>2, <3>3, <3>4, <3>5 DEF Sent
        <4>2. QED BY <4>1, Sizes
      <3>6. QED BY <3>2, <3>4, <3>5
    <2>3. QED BY <1>1, <2>1, <2>2
  <1>4. Len(ret) = Batch - radd
    <2>1. Batch - radd \in Nat
      BY <1>1, <1>2, MadeUpBound, Sizes DEF TypeOK
    <2>2. ret \in Seq(in_flight)
      BY <1>3, <2>1, SeqDef
    <2>3. Len(ret) \in Nat /\ 1 .. Len(ret) = 1 .. Batch - radd
      BY <1>3, <2>2, LenProperties
    <2>4. QED BY <2>1, <2>3
  <1>5. QED BY <1>3, <1>4

(* No buffer hands out more rows than it has.                              *)
LEMMA OffsetsBound ==
  ASSUME IInv, NEW i \in Indices
  PROVE  queue[i].offsets \in 0 .. Batch
  <1>1. Cardinality(GivenRows(i)) = queue[i].offsets /\ queue[i].offsets \in Nat
    BY DEF IInv, Layout, Marked, TypeOK, BufferType
  <1>2. IsFiniteSet(Rows) /\ Cardinality(Rows) = Batch
    BY Sizes, FS_Interval DEF Rows
  <1>3. GivenRows(i) \subseteq Rows
    BY DEF GivenRows
  <1>4. Cardinality(GivenRows(i)) <= Batch
    BY <1>2, <1>3, FS_Subset
  <1>5. QED BY <1>1, <1>4, Sizes

(* A worker in the queue has its environment in flight, in a batch that is *)
(* not the one being returned.                                             *)
LEMMA WorkerInFlight ==
  ASSUME IInv, NEW w \in Workers, wstep[w] # "idle"
  PROVE  /\ wenv[w] \in in_flight
         /\ rstep = "return" => \A n \in DOMAIN ret : ret[n] # wenv[w]
  <1>1. TypeOK /\ Layout /\ Sent /\ Taken /\ Written /\ Given
    BY DEF IInv, Layout
  <1>2. rstep = "return" => DOMAIN ret = 1 .. Batch - radd
    BY <1>1 DEF Taken
  <1>3. CASE wstep[w] \in Holding
    BY <1>1, <1>2, <1>3 DEF Sent, Taken
  <1>4. CASE wstep[w] \in {"done", "signal"}
    <2>1. wpos[w] \in Nat /\ WorkerBlock(w) \in Nat
      BY <1>1, BlockBounds DEF TypeOK, WorkerBlock
    <2>2. PICK i \in Indices : i = Offset(WorkerBlock(w))
      BY <2>1, SlotIndex
    <2>3. PICK r \in Rows : r = wrow[w]
      BY <1>1, <1>4 DEF Given
    <2>4. wenv[w] # NoRow /\ queue[i].rows[r] = wenv[w]
      BY <1>1, <1>4, <2>2, <2>3 DEF Written, Buffer
    <2>5. wenv[w] \in in_flight
      BY <1>1, <2>4 DEF Sent
    <2>6. ASSUME rstep = "return", NEW n \in DOMAIN ret PROVE ret[n] # wenv[w]
      <3>1. queue[i].rows[r] # ret[n]
        BY <1>1, <1>2, <2>6 DEF Taken
      <3>2. QED BY <2>4, <3>1
    <2>7. QED BY <2>5, <2>6
  <1>5. wstep[w] \in Holding \cup {"done", "signal"}
    BY <1>1 DEF TypeOK, WorkerSteps, Layout, Places, Holding
  <1>6. QED BY <1>3, <1>4, <1>5

(* Without a lock, a worker finds its own batch's buffer under its         *)
(* position, with room in it and a row of its own, for any number of       *)
(* workers and any sizes (StateBufferQueue::Allocate, Wait): the ring of   *)
(* (num_envs / batch + 2) * 2 buffers is never lapped.                     *)
THEOREM RingNeverLapped == Spec => []StorageSafe
  BY QueueInvariant, SafeWithin, PTL

(* Wait returns a full batch, each state of another environment whose      *)
(* state has been sent and not received, for any number of workers; a      *)
(* batch waited for with additional states made up is that much shorter.   *)
THEOREM BatchesComplete == Spec => []BatchComplete
  BY QueueInvariant, CompleteWithin, PTL
=============================================================================
