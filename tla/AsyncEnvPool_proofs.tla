------------------------- MODULE AsyncEnvPool_proofs -------------------------
(***************************************************************************)
(* Theorems about AsyncEnvPool, for every number of environments, workers  *)
(* and background threads, every batch size and both modes.  The pool is   *)
(* first shown to use its state buffer queue as StateBufferQueue says it   *)
(* is used (Q below: the queue of environments that the queue of states    *)
(* is, with the environments that workers have begun to run in flight),    *)
(* so everything proved of that module holds here; this needs that a       *)
(* slice names an environment that nobody else has (Single) and, in        *)
(* synchronous mode, a row that nobody else was given (Ordered).  With     *)
(* what a state says about its environment (History) it follows that the   *)
(* pool keeps the promise of EnvPool.                                      *)
(***************************************************************************)
EXTENDS AsyncEnvPool, FiniteSetTheorems, SequenceTheorems, TLAPS

(* The queue of states as a queue of environments.                         *)
EnvOf(row) == IF row = NoRow THEN NoRow ELSE row.env

EnvRows(b) == [r \in SBQ!Rows |-> EnvOf(b.rows[r])]

EnvBuffer(b) == [block   |-> b.block,
                 allocs  |-> b.allocs,
                 offsets |-> b.offsets,
                 dones   |-> b.dones,
                 ready   |-> b.ready,
                 rows    |-> EnvRows(b)]

EnvQueue == [i \in SBQ!Indices |-> EnvBuffer(queue[i])]
EnvRet   == [n \in DOMAIN ret |-> EnvOf(ret[n])]

(* The environments whose action no worker has run yet, and the others of  *)
(* those in flight.                                                        *)
Waiting ==
  {actions[i].env : i \in DOMAIN actions}
    \cup {slice[w].env : w \in {v \in Workers : wpc[v] \in {"check", "run", "exited"}}}

Entered == in_flight \ Waiting

Q == INSTANCE StateBufferQueue_proofs
       WITH queue <- EnvQueue, ret <- EnvRet, in_flight <- Entered

(* The state of an environment, as a worker writes it; it belongs in the   *)
(* row that is the place of the environment in a synchronous request.      *)
StateOf(e) == [env |-> e, done |-> done[e], step |-> current_step[e]]

Fits(row, n) ==
  /\ row = StateOf(row.env)
  /\ IsSync => n \in DOMAIN request /\ request[n] = row.env

(* A slice is for an environment in flight, and its order is that row.     *)
Names(s) ==
  /\ s.env \in in_flight
  /\ IF IsSync THEN s.order + 1 \in DOMAIN request /\ request[s.order + 1] = s.env
     ELSE s.order = SBQ!Unordered

PoolBuffer == [block: Nat, allocs: Nat, offsets: Nat, dones: Nat, ready: Nat,
               rows: [SBQ!Rows -> State \cup {NoRow}]]

QueueTyped ==
  /\ queue \in [SBQ!Indices -> PoolBuffer]
  /\ ret \in Seq(State \cup {NoRow})

Typed ==
  /\ QueueTyped
  /\ actions \in Seq(Slice)
  /\ wpc \in [Workers -> {"dequeue", "check", "run", "write", "exited"}]
  /\ slice \in [Workers -> Slice]
  /\ wreset \in [Workers -> BOOLEAN]
  /\ stop \in BOOLEAN
  /\ stepping_env_num \in Nat
  /\ done \in [Envs -> BOOLEAN]
  /\ current_step \in [Envs -> Int]
  /\ request \in Seq(Envs)
  /\ in_flight \subseteq Envs
  /\ forced \subseteq in_flight
  /\ seen \in [Envs -> [done: BOOLEAN, step: Int]]

(* A worker is inside the queue while it writes a state, that of the       *)
(* environment of its slice, in the row of its slice.                      *)
Phases ==
  \A w \in Workers :
    /\ wstep[w] # "idle" <=> wpc[w] = "write"
    /\ wpc[w] = "write" => wenv[w] = slice[w].env
    /\ wpc[w] \in {"run", "write"} => slice[w].env # NoRow
    /\ IsSync /\ wstep[w] \in {"fill", "done"} => wrow[w] = slice[w].order

(* A Wait makes up for the environments that the request leaves out, and   *)
(* holds rows from their collection to its return.                         *)
Collected == {"advance", "swap", "return"}

Reading ==
  /\ rstep \notin {"destroy", "destroyed"}
  /\ rstep \notin Collected => DOMAIN ret = {}
  /\ ~IsSync => radd = 0
  /\ IsSync /\ rstep # "idle" => radd = Batch - Len(request)

(* The slices in the queue and with the workers are of different           *)
(* environments; empty ones come from the destructor.                      *)
Single ==
  /\ \A i \in DOMAIN actions :
       /\ actions[i].env = NoRow => stop
       /\ actions[i].env # NoRow => Names(actions[i])
       /\ \A j \in DOMAIN actions :
            actions[j].env = actions[i].env => j = i \/ actions[i].env = NoRow
  /\ \A w \in Workers : wpc[w] # "dequeue" =>
       /\ slice[w].env = NoRow => stop
       /\ slice[w].env # NoRow => Names(slice[w])
       /\ \A v \in Workers :
            wpc[v] # "dequeue" /\ slice[v].env = slice[w].env => v = w \/ slice[w].env = NoRow
       /\ \A i \in DOMAIN actions :
            actions[i].env = slice[w].env => slice[w].env = NoRow

(* In synchronous mode the request in flight is all that is in flight.     *)
Ordered ==
  /\ ~IsSync => stepping_env_num = 0
  /\ IsSync => /\ in_flight = IdsOf(request)
               /\ \A i, j \in DOMAIN request : request[i] = request[j] => i = j
               /\ stepping_env_num = Len(request)

(* A row that has been written holds the present state of its environment. *)
Filled ==
  /\ \A i \in SBQ!Indices, r \in SBQ!Rows :
       queue[i].rows[r] # NoRow => Fits(queue[i].rows[r], r + 1)
  /\ \A n \in DOMAIN ret : ret[n] # NoRow => Fits(ret[n], n)

(* An environment that has been run is one step after the state its client *)
(* saw last, the others are in that state; and a slice knows of the Reset  *)
(* that sent it.                                                           *)
History ==
  /\ \A e \in Entered : current_step[e] = Promise!Following(e)
  /\ \A e \in Envs \ Entered : done[e] = seen[e].done /\ current_step[e] = seen[e].step
  /\ \A i \in DOMAIN actions : actions[i].env # NoRow =>
       (actions[i].force_reset <=> actions[i].env \in forced)
  /\ \A w \in Workers :
       /\ wpc[w] = "check" /\ slice[w].env # NoRow =>
            (slice[w].force_reset <=> slice[w].env \in forced)
       /\ wpc[w] = "run" =>
            (wreset[w] <=> slice[w].env \in forced \/ done[slice[w].env])

PInv == Typed /\ Phases /\ Reading /\ Single /\ Ordered /\ Filled /\ History

-----------------------------------------------------------------------------
(* Sets have the same size in every instance.                              *)
LEMMA SameCardinality ==
  ASSUME NEW S
  PROVE  /\ SBQ!Cardinality(S) = Cardinality(S) /\ Q!Cardinality(S) = Cardinality(S)
         /\ Q!IsFiniteSet(S) = IsFiniteSet(S)
  BY DEF SBQ!Cardinality, Q!Cardinality, Cardinality, Q!IsFiniteSet, IsFiniteSet

(* The two views of the queue have the same constants and positions.       *)
LEMMA Shared ==
  /\ SBQ!Indices = Q!Indices /\ SBQ!Rows = Q!Rows /\ SBQ!Unordered = Q!Unordered
  /\ SBQ!QueueSize = Q!QueueSize /\ IsSync = Q!IsSync /\ NumEnvs = Q!NumEnvs
  /\ \A k : SBQ!Offset(k) = Q!Offset(k)
  /\ \A w : SBQ!WorkerBlock(w) = Q!WorkerBlock(w)
  <1>1. NumEnvs = Q!NumEnvs /\ NumEnvs = SBQ!NumEnvs
    BY SameCardinality DEF NumEnvs, Q!NumEnvs, SBQ!NumEnvs
  <1>2. SBQ!QueueSize = Q!QueueSize /\ IsSync = Q!IsSync
    BY <1>1 DEF SBQ!QueueSize, Q!QueueSize, IsSync, Q!IsSync
  <1>3. SBQ!Indices = Q!Indices /\ SBQ!Rows = Q!Rows /\ SBQ!Unordered = Q!Unordered
    BY <1>2 DEF SBQ!Indices, Q!Indices, SBQ!Rows, Q!Rows, SBQ!Unordered, Q!Unordered
  <1>4. \A k : SBQ!Offset(k) = Q!Offset(k)
    BY <1>2 DEF SBQ!Offset, Q!Offset
  <1>5. \A w : SBQ!WorkerBlock(w) = Q!WorkerBlock(w)
    BY DEF SBQ!WorkerBlock, Q!WorkerBlock, SBQ!BlockOf, Q!BlockOf
  <1>6. QED BY <1>1, <1>2, <1>3, <1>4, <1>5

(* What the proofs about the queue assume of its constants.                *)
LEMMA QueueAssumed == Q!BatchAssumption /\ Q!RowAssumption
  BY PoolAssumption, BlankAssumption, SameCardinality, Shared
     DEF Q!BatchAssumption, Q!RowAssumption

(* Sizes of the pool.                                                      *)
LEMMA PoolSizes ==
  /\ NumEnvs \in Nat /\ Batch \in Nat \ {0} /\ Batch <= NumEnvs
  /\ SBQ!Rows = 0 .. Batch - 1
  /\ \A k \in Nat : SBQ!Offset(k) \in SBQ!Indices
  <1>1. NumEnvs \in Nat
    BY PoolAssumption, FS_CardinalityType DEF NumEnvs
  <1>2. \A k \in Nat : Q!Offset(k) \in Q!Indices
    BY QueueAssumed, Q!SlotIndex
  <1>3. QED BY <1>1, <1>2, Shared, PoolAssumption DEF SBQ!Rows

(* The environment of a row.                                               *)
LEMMA RowEnv ==
  ASSUME NEW row \in State \cup {NoRow}
  PROVE  /\ EnvOf(row) = NoRow <=> row = NoRow
         /\ row # NoRow => row.env \in Envs /\ EnvOf(row) = row.env
         /\ EnvOf(row) \in Envs \cup {NoRow}
  BY BlankAssumption DEF EnvOf, State

(* The buffers of the two views, field by field.                           *)
LEMMA BufferView ==
  ASSUME NEW b
  PROVE  /\ EnvBuffer(b).block = b.block /\ EnvBuffer(b).allocs = b.allocs
         /\ EnvBuffer(b).offsets = b.offsets /\ EnvBuffer(b).dones = b.dones
         /\ EnvBuffer(b).ready = b.ready
         /\ \A r \in SBQ!Rows : EnvBuffer(b).rows[r] = EnvOf(b.rows[r])
  BY DEF EnvBuffer, EnvRows

LEMMA QueueView ==
  /\ \A i \in SBQ!Indices : EnvQueue[i] = EnvBuffer(queue[i])
  /\ DOMAIN EnvQueue = SBQ!Indices
  BY DEF EnvQueue

(* A fresh buffer is one in both views.                                    *)
LEMMA FreshView ==
  ASSUME NEW k \in Nat
  PROVE  /\ EnvBuffer(SBQ!NewBuffer(k)) = Q!NewBuffer(k)
         /\ SBQ!NewBuffer(k) \in PoolBuffer
  <1>1. EnvRows(SBQ!NewBuffer(k)) = [r \in Q!Rows |-> NoRow]
    BY Shared DEF SBQ!NewBuffer, EnvOf, EnvRows
  <1>2. EnvBuffer(SBQ!NewBuffer(k)) = Q!NewBuffer(k)
    BY <1>1 DEF EnvBuffer, SBQ!NewBuffer, Q!NewBuffer
  <1>3. SBQ!NewBuffer(k) \in PoolBuffer
    BY DEF SBQ!NewBuffer, PoolBuffer
  <1>4. QED BY <1>2, <1>3

(* A step that changes one buffer changes that one in the other view.      *)
LEMMA ViewStep ==
  ASSUME queue \in [SBQ!Indices -> PoolBuffer],
         NEW j \in SBQ!Indices, NEW c, queue' = [queue EXCEPT ![j] = c]
  PROVE  EnvQueue' = [EnvQueue EXCEPT ![j] = EnvBuffer(c)]
  <1>1. EnvQueue' = [i \in SBQ!Indices |-> EnvBuffer(queue'[i])]
    BY DEF EnvQueue, EnvBuffer, EnvRows, EnvOf
  <1>2. \A i \in SBQ!Indices : queue'[i] = IF i = j THEN c ELSE queue[i]
    OBVIOUS
  <1>3. QED BY <1>1, <1>2 DEF EnvQueue

(* A field of a buffer, changed in one view and in the other.              *)
LEMMA FieldViews ==
  ASSUME NEW b \in PoolBuffer, NEW n \in Nat
  PROVE  /\ [b EXCEPT !.allocs = n] \in PoolBuffer
         /\ [b EXCEPT !.allocs = n].rows = b.rows
         /\ EnvBuffer([b EXCEPT !.allocs = n]) = [EnvBuffer(b) EXCEPT !.allocs = n]
         /\ [b EXCEPT !.offsets = n] \in PoolBuffer
         /\ [b EXCEPT !.offsets = n].rows = b.rows
         /\ EnvBuffer([b EXCEPT !.offsets = n]) = [EnvBuffer(b) EXCEPT !.offsets = n]
         /\ [b EXCEPT !.dones = n] \in PoolBuffer
         /\ [b EXCEPT !.dones = n].rows = b.rows
         /\ EnvBuffer([b EXCEPT !.dones = n]) = [EnvBuffer(b) EXCEPT !.dones = n]
         /\ [b EXCEPT !.ready = n] \in PoolBuffer
         /\ [b EXCEPT !.ready = n].rows = b.rows
         /\ EnvBuffer([b EXCEPT !.ready = n]) = [EnvBuffer(b) EXCEPT !.ready = n]
  <1>1. /\ [b EXCEPT !.allocs = n] \in PoolBuffer /\ [b EXCEPT !.offsets = n] \in PoolBuffer
        /\ [b EXCEPT !.dones = n] \in PoolBuffer /\ [b EXCEPT !.ready = n] \in PoolBuffer
        /\ [b EXCEPT !.allocs = n].rows = b.rows /\ [b EXCEPT !.offsets = n].rows = b.rows
        /\ [b EXCEPT !.dones = n].rows = b.rows /\ [b EXCEPT !.ready = n].rows = b.rows
    BY DEF PoolBuffer
  <1>2. EnvBuffer([b EXCEPT !.allocs = n]) = [EnvBuffer(b) EXCEPT !.allocs = n]
    <2>1. PICK c \in PoolBuffer : c = [b EXCEPT !.allocs = n]
      BY <1>1
    <2>2. /\ c.allocs = n /\ c.block = b.block /\ c.offsets = b.offsets /\ c.dones = b.dones /\ c.ready = b.ready
          /\ EnvRows(c) = EnvRows(b)
      BY <2>1 DEF PoolBuffer, EnvRows
    <2>3. QED BY <2>1, <2>2 DEF EnvBuffer
  <1>3. EnvBuffer([b EXCEPT !.offsets = n]) = [EnvBuffer(b) EXCEPT !.offsets = n]
    <2>1. PICK c \in PoolBuffer : c = [b EXCEPT !.offsets = n]
      BY <1>1
    <2>2. /\ c.offsets = n /\ c.block = b.block /\ c.allocs = b.allocs /\ c.dones = b.dones /\ c.ready = b.ready
          /\ EnvRows(c) = EnvRows(b)
      BY <2>1 DEF PoolBuffer, EnvRows
    <2>3. QED BY <2>1, <2>2 DEF EnvBuffer
  <1>4. EnvBuffer([b EXCEPT !.dones = n]) = [EnvBuffer(b) EXCEPT !.dones = n]
    <2>1. PICK c \in PoolBuffer : c = [b EXCEPT !.dones = n]
      BY <1>1
    <2>2. /\ c.dones = n /\ c.block = b.block /\ c.allocs = b.allocs /\ c.offsets = b.offsets /\ c.ready = b.ready
          /\ EnvRows(c) = EnvRows(b)
      BY <2>1 DEF PoolBuffer, EnvRows
    <2>3. QED BY <2>1, <2>2 DEF EnvBuffer
  <1>5. EnvBuffer([b EXCEPT !.ready = n]) = [EnvBuffer(b) EXCEPT !.ready = n]
    <2>1. PICK c \in PoolBuffer : c = [b EXCEPT !.ready = n]
      BY <1>1
    <2>2. /\ c.ready = n /\ c.block = b.block /\ c.allocs = b.allocs /\ c.offsets = b.offsets /\ c.dones = b.dones
          /\ EnvRows(c) = EnvRows(b)
      BY <2>1 DEF PoolBuffer, EnvRows
    <2>3. QED BY <2>1, <2>2 DEF EnvBuffer
  <1>6. QED BY <1>1, <1>2, <1>3, <1>4, <1>5

LEMMA RowView ==
  ASSUME NEW b \in PoolBuffer, NEW r \in SBQ!Rows, NEW row \in State
  PROVE  /\ [b EXCEPT !.rows[r] = row] \in PoolBuffer
         /\ EnvBuffer([b EXCEPT !.rows[r] = row]) = [EnvBuffer(b) EXCEPT !.rows[r] = row.env]
  <1>1. [b EXCEPT !.rows[r] = row] \in PoolBuffer
    BY DEF PoolBuffer
  <1>2. EnvOf(row) = row.env
    BY BlankAssumption DEF EnvOf
  <1>3. EnvBuffer([b EXCEPT !.rows[r] = row]) = [EnvBuffer(b) EXCEPT !.rows[r] = row.env]
    <2>1. PICK c \in PoolBuffer : c = [b EXCEPT !.rows[r] = row]
      BY <1>1
    <2>2. /\ c.block = b.block /\ c.allocs = b.allocs /\ c.offsets = b.offsets
          /\ c.dones = b.dones /\ c.ready = b.ready /\ c.rows = [b.rows EXCEPT ![r] = row]
      BY <2>1 DEF PoolBuffer
    <2>3. EnvRows(c) = [EnvRows(b) EXCEPT ![r] = row.env]
      BY <1>2, <2>2 DEF PoolBuffer, EnvRows
    <2>4. QED BY <2>1, <2>2, <2>3 DEF EnvBuffer
  <1>4. QED BY <1>1, <1>3

(* The worker's slot of the ring.                                          *)
LEMMA WorkerSlot ==
  ASSUME Q!IInv, NEW w \in Workers
  PROVE  SBQ!Offset(SBQ!WorkerBlock(w)) \in SBQ!Indices
  <1>1. wpos[w] \in Nat
    BY DEF Q!IInv, Q!Layout, Q!TypeOK
  <1>2. Q!WorkerBlock(w) \in Nat
    BY <1>1, QueueAssumed, Q!BlockBounds DEF Q!WorkerBlock
  <1>3. QED BY <1>2, Shared, PoolSizes

(* What a row must agree with stays the same while no environment is run   *)
(* and nothing is requested.                                               *)
LEMMA FitsSame ==
  ASSUME UNCHANGED <<envVars, request>>
  PROVE  \A row, n : Fits(row, n)' = Fits(row, n)
  BY DEF Fits, StateOf, envVars

LEMMA EnteredSame ==
  ASSUME UNCHANGED <<in_flight, actions, slice, wpc>>
  PROVE  Waiting' = Waiting /\ Entered' = Entered
  <1>1. Waiting' = Waiting
    BY DEF Waiting
  <1>2. QED BY <1>1 DEF Entered

(* A step inside the queue leaves the pool as it is, but for the rows.     *)
LEMMA QueueOnlyStep ==
  ASSUME PInv, QueueTyped', Phases', Reading', Filled',
         UNCHANGED <<actions, workVars, stop, stepping_env_num, envVars, clientVars>>
  PROVE  PInv'
  <1>1. Typed'
    BY DEF PInv, Typed, workVars, envVars, clientVars
  <1>2. Single'
    BY DEF PInv, Single, Names, workVars, clientVars
  <1>3. Ordered'
    BY DEF PInv, Ordered, clientVars
  <1>4. Entered' = Entered
    BY EnteredSame DEF workVars, clientVars
  <1>5. History'
    BY <1>4 DEF PInv, History, Promise!Following, workVars, envVars, clientVars
  <1>6. QED BY <1>1, <1>2, <1>3, <1>5 DEF PInv

(* One that leaves the rows as they are, too.                              *)
LEMMA RowsSameStep ==
  ASSUME PInv, UNCHANGED <<envVars, request>>, UNCHANGED ret,
         \A i \in SBQ!Indices, r \in SBQ!Rows : queue'[i].rows[r] \in {queue[i].rows[r], NoRow}
  PROVE  Filled'
  BY FitsSame DEF PInv, Filled

(* The buffers keep their type, and no row of them is written.             *)
RowsKept ==
  /\ queue' \in [SBQ!Indices -> PoolBuffer]
  /\ \A i \in SBQ!Indices, r \in SBQ!Rows : queue'[i].rows[r] \in {queue[i].rows[r], NoRow}

(* A buffer whose counters change keeps its rows.                          *)
LEMMA ChangedBuffer ==
  ASSUME QueueTyped, NEW j \in SBQ!Indices, NEW c \in PoolBuffer,
         queue' = [queue EXCEPT ![j] = c], c.rows = queue[j].rows
  PROVE  RowsKept /\ EnvQueue' = [EnvQueue EXCEPT ![j] = EnvBuffer(c)]
  <1>1. queue' \in [SBQ!Indices -> PoolBuffer]
    BY DEF QueueTyped
  <1>2. \A i \in SBQ!Indices : queue'[i].rows = queue[i].rows
    BY DEF QueueTyped
  <1>3. EnvQueue' = [EnvQueue EXCEPT ![j] = EnvBuffer(c)]
    BY ViewStep DEF QueueTyped
  <1>4. QED BY <1>1, <1>2, <1>3 DEF RowsKept

(* A counter moves on in both views.                                       *)
LEMMA CounterStep ==
  ASSUME QueueTyped, NEW j \in SBQ!Indices
  PROVE  /\ queue' = [queue EXCEPT ![j].allocs = @ + 1] =>
              RowsKept /\ EnvQueue' = [EnvQueue EXCEPT ![j].allocs = @ + 1]
         /\ queue' = [queue EXCEPT ![j].offsets = @ + 1] =>
              RowsKept /\ EnvQueue' = [EnvQueue EXCEPT ![j].offsets = @ + 1]
         /\ queue' = [queue EXCEPT ![j].dones = @ + 1] =>
              RowsKept /\ EnvQueue' = [EnvQueue EXCEPT ![j].dones = @ + 1]
         /\ queue' = [queue EXCEPT ![j].ready = @ + 1] =>
              RowsKept /\ EnvQueue' = [EnvQueue EXCEPT ![j].ready = @ + 1]
  <1>1. PICK b \in PoolBuffer : b = queue[j]
    BY DEF QueueTyped
  <1>2. EnvQueue[j] = EnvBuffer(b)
    BY <1>1 DEF EnvQueue
  <1>3. /\ EnvBuffer(b).allocs = b.allocs /\ b.allocs + 1 \in Nat
        /\ EnvBuffer(b).offsets = b.offsets /\ b.offsets + 1 \in Nat
        /\ EnvBuffer(b).dones = b.dones /\ b.dones + 1 \in Nat
        /\ EnvBuffer(b).ready = b.ready /\ b.ready + 1 \in Nat
    BY BufferView DEF PoolBuffer
  <1>4. ASSUME queue' = [queue EXCEPT ![j].allocs = @ + 1]
        PROVE  RowsKept /\ EnvQueue' = [EnvQueue EXCEPT ![j].allocs = @ + 1]
    <2>1. PICK n \in Nat : n = b.allocs + 1
      BY <1>3
    <2>2. /\ [b EXCEPT !.allocs = n] \in PoolBuffer /\ [b EXCEPT !.allocs = n].rows = b.rows
          /\ EnvBuffer([b EXCEPT !.allocs = n]) = [EnvBuffer(b) EXCEPT !.allocs = n]
      BY FieldViews, Zenon
    <2>3. PICK c \in PoolBuffer : /\ c = [b EXCEPT !.allocs = n] /\ c.rows = queue[j].rows
                                  /\ EnvBuffer(c) = [EnvBuffer(b) EXCEPT !.allocs = n]
      BY <1>1, <2>2, Zenon
    <2>4. queue' = [queue EXCEPT ![j] = c]
      BY <1>1, <1>4, <2>1, <2>3
    <2>5. RowsKept /\ EnvQueue' = [EnvQueue EXCEPT ![j] = EnvBuffer(c)]
      BY <2>3, <2>4, ChangedBuffer
    <2>6. QED BY <1>2, <1>3, <2>1, <2>3, <2>5
  <1>5. ASSUME queue' = [queue EXCEPT ![j].offsets = @ + 1]
        PROVE  RowsKept /\ EnvQueue' = [EnvQueue EXCEPT ![j].offsets = @ + 1]
    <2>1. PICK n \in Nat : n = b.offsets + 1
      BY <1>3
    <2>2. /\ [b EXCEPT !.offsets = n] \in PoolBuffer /\ [b EXCEPT !.offsets = n].rows = b.rows
          /\ EnvBuffer([b EXCEPT !.offsets = n]) = [EnvBuffer(b) EXCEPT !.offsets = n]
      BY FieldViews, Zenon
    <2>3. PICK c \in PoolBuffer : /\ c = [b EXCEPT !.offsets = n] /\ c.rows = queue[j].rows
                                  /\ EnvBuffer(c) = [EnvBuffer(b) EXCEPT !.offsets = n]
      BY <1>1, <2>2, Zenon
    <2>4. queue' = [queue EXCEPT ![j] = c]
      BY <1>1, <1>5, <2>1, <2>3
    <2>5. RowsKept /\ EnvQueue' = [EnvQueue EXCEPT ![j] = EnvBuffer(c)]
      BY <2>3, <2>4, ChangedBuffer
    <2>6. QED BY <1>2, <1>3, <2>1, <2>3, <2>5
  <1>6. ASSUME queue' = [queue EXCEPT ![j].dones = @ + 1]
        PROVE  RowsKept /\ EnvQueue' = [EnvQueue EXCEPT ![j].dones = @ + 1]
    <2>1. PICK n \in Nat : n = b.dones + 1
      BY <1>3
    <2>2. /\ [b EXCEPT !.dones = n] \in PoolBuffer /\ [b EXCEPT !.dones = n].rows = b.rows
          /\ EnvBuffer([b EXCEPT !.dones = n]) = [EnvBuffer(b) EXCEPT !.dones = n]
      BY FieldViews, Zenon
    <2>3. PICK c \in PoolBuffer : /\ c = [b EXCEPT !.dones = n] /\ c.rows = queue[j].rows
                                  /\ EnvBuffer(c) = [EnvBuffer(b) EXCEPT !.dones = n]
      BY <1>1, <2>2, Zenon
    <2>4. queue' = [queue EXCEPT ![j] = c]
      BY <1>1, <1>6, <2>1, <2>3
    <2>5. RowsKept /\ EnvQueue' = [EnvQueue EXCEPT ![j] = EnvBuffer(c)]
      BY <2>3, <2>4, ChangedBuffer
    <2>6. QED BY <1>2, <1>3, <2>1, <2>3, <2>5
  <1>7. ASSUME queue' = [queue EXCEPT ![j].ready = @ + 1]
        PROVE  RowsKept /\ EnvQueue' = [EnvQueue EXCEPT ![j].ready = @ + 1]
    <2>1. PICK n \in Nat : n = b.ready + 1
      BY <1>3
    <2>2. /\ [b EXCEPT !.ready = n] \in PoolBuffer /\ [b EXCEPT !.ready = n].rows = b.rows
          /\ EnvBuffer([b EXCEPT !.ready = n]) = [EnvBuffer(b) EXCEPT !.ready = n]
      BY FieldViews, Zenon
    <2>3. PICK c \in PoolBuffer : /\ c = [b EXCEPT !.ready = n] /\ c.rows = queue[j].rows
                                  /\ EnvBuffer(c) = [EnvBuffer(b) EXCEPT !.ready = n]
      BY <1>1, <2>2, Zenon
    <2>4. queue' = [queue EXCEPT ![j] = c]
      BY <1>1, <1>7, <2>1, <2>3
    <2>5. RowsKept /\ EnvQueue' = [EnvQueue EXCEPT ![j] = EnvBuffer(c)]
      BY <2>3, <2>4, ChangedBuffer
    <2>6. QED BY <1>2, <1>3, <2>1, <2>3, <2>5
  <1>8. QED BY <1>4, <1>5, <1>6, <1>7

(* StateBuffer::Allocate up to the count, out of a state of the pool.      *)
LEMMA CountAllocStep ==
  ASSUME PInv, Q!IInv, NEW w \in Workers, wpc[w] = "write", SBQ!CountAlloc(w),
         UNCHANGED <<actions, workVars, stop, stepping_env_num, envVars, clientVars>>
  PROVE  PInv' /\ Q!CountAlloc(w)
  <1>1. PICK j \in SBQ!Indices : /\ j = SBQ!Offset(SBQ!WorkerBlock(w))
                                 /\ j = Q!Offset(Q!WorkerBlock(w))
    BY WorkerSlot, Shared
  <1>2. QueueTyped
    BY DEF PInv, Typed
  <1>3. RowsKept /\ EnvQueue' = [EnvQueue EXCEPT ![j].allocs = @ + 1]
    BY <1>1, <1>2, CounterStep DEF SBQ!CountAlloc
  <1>4. EnvQueue[j].allocs = queue[j].allocs
    BY QueueView, BufferView
  <1>5. UNCHANGED <<alloc_count, done_ptr, stock, quit, cstep, wenv, wpos, wrow, rstep, rpos, radd, ret>>
    BY DEF SBQ!CountAlloc, SBQ!stockVars, SBQ!readerVars
  <1>6. EnvRet' = EnvRet
    BY <1>5 DEF EnvRet, EnvOf
  <1>7. /\ wstep[w] = "count"
        /\ wstep' = [wstep EXCEPT ![w] = IF queue[j].allocs < Batch THEN "take" ELSE "thrown"]
    BY <1>1 DEF SBQ!CountAlloc, SBQ!MoveWorker, SBQ!Buffer
  <1>8. Q!CountAlloc(w)
    BY <1>1, <1>3, <1>4, <1>5, <1>6, <1>7
       DEF Q!CountAlloc, Q!MoveWorker, Q!Buffer, Q!stockVars, Q!readerVars
  <1>9. wstep \in [Workers -> Q!WorkerSteps]
    BY DEF Q!IInv, Q!Layout, Q!TypeOK
  <1>10. Phases'
    BY <1>5, <1>7, <1>9 DEF PInv, Phases, workVars
  <1>11. QueueTyped'
    BY <1>2, <1>3, <1>5 DEF QueueTyped, RowsKept
  <1>12. Reading'
    BY <1>5 DEF PInv, Reading, clientVars
  <1>13. Filled'
    BY <1>3, <1>5, RowsSameStep DEF RowsKept, clientVars
  <1>14. QED BY <1>8, <1>10, <1>11, <1>12, <1>13, QueueOnlyStep

(* A list without repetitions names as many environments as it is long.    *)
LEMMA IdsCount ==
  ASSUME NEW s \in Seq(Envs), \A i, j \in DOMAIN s : s[i] = s[j] => i = j
  PROVE  /\ IdsOf(s) \subseteq Envs
         /\ IsFiniteSet(IdsOf(s))
         /\ Cardinality(IdsOf(s)) = Len(s)
         /\ Len(s) \in Nat /\ Len(s) <= NumEnvs
         /\ DOMAIN s = 1 .. Len(s)
  <1>1. /\ Len(s) \in Nat /\ DOMAIN s = 1 .. Len(s)
        /\ \A i \in DOMAIN s : s[i] \in Envs
        /\ s = [i \in 1 .. Len(s) |-> s[i]]
    BY LenProperties, ElementOfSeq
  <1>2. s \in Bijection(1 .. Len(s), IdsOf(s))
    BY <1>1 DEF Bijection, Injection, Surjection, IdsOf, IsInjective
  <1>3. ExistsBijection(1 .. Len(s), IdsOf(s))
    BY <1>2 DEF ExistsBijection
  <1>4. IdsOf(s) \subseteq Envs
    BY <1>1 DEF IdsOf
  <1>5. IsFiniteSet(IdsOf(s)) /\ Cardinality(IdsOf(s)) <= NumEnvs
    BY <1>4, PoolAssumption, FS_Subset DEF NumEnvs
  <1>6. Cardinality(IdsOf(s)) = Len(s)
    BY <1>1, <1>3, FS_CountingElements
  <1>7. QED BY <1>1, <1>4, <1>5, <1>6

(* In synchronous mode the request in flight and what is made up for are   *)
(* no more than a batch.                                                   *)
LEMMA RequestBound ==
  ASSUME PInv, Q!IInv, IsSync
  PROVE  /\ Len(request) \in Nat /\ DOMAIN request = 1 .. Len(request)
         /\ Cardinality(in_flight) = Len(request)
         /\ radd \in Nat /\ Len(request) + radd <= Batch
         /\ rstep # "idle" => Len(request) + radd = Batch
  <1>1. /\ Len(request) \in Nat /\ DOMAIN request = 1 .. Len(request)
        /\ Cardinality(in_flight) = Len(request) /\ Len(request) <= NumEnvs
    BY IdsCount DEF PInv, Typed, Ordered
  <1>2. radd \in Nat /\ (rstep = "idle" => radd = 0)
    BY DEF Q!IInv, Q!Layout, Q!TypeOK, Q!Reader
  <1>3. rstep # "idle" => radd = Batch - Len(request)
    BY DEF PInv, Reading
  <1>4. QED BY <1>1, <1>2, <1>3, PoolSizes DEF IsSync

(* The environment of a worker that is writing a state.                    *)
LEMMA WriterSlice ==
  ASSUME PInv, NEW w \in Workers, wpc[w] = "write"
  PROVE  /\ slice[w].env = wenv[w] /\ slice[w].env # NoRow
         /\ slice[w].env \in in_flight /\ in_flight \subseteq Envs
         /\ slice[w].order \in Int
         /\ ~IsSync => slice[w].order = SBQ!Unordered
         /\ IsSync => /\ slice[w].order + 1 \in DOMAIN request
                      /\ request[slice[w].order + 1] = slice[w].env
  BY DEF PInv, Typed, Phases, Single, Names, Slice

(* In synchronous mode nobody has been given the row of a worker's slice.  *)
LEMMA OrderFree ==
  ASSUME PInv, Q!IInv, NEW w \in Workers, wstep[w] = "take"
  PROVE  slice[w].order \in Q!Orders(w)
  <1>1. wpc[w] = "write"
    BY DEF PInv, Phases
  <1>2. CASE ~IsSync
    BY <1>1, <1>2, WriterSlice, Shared DEF Q!Orders
  <1>3. CASE IsSync
    <2>1. PICK o \in Int : /\ o = slice[w].order /\ o + 1 \in DOMAIN request
                           /\ request[o + 1] = wenv[w]
      BY <1>1, <1>3, WriterSlice
    <2>2. o \in 0 .. Batch - radd - 1
      BY <1>3, <2>1, RequestBound, PoolSizes
    <2>3. PICK i \in SBQ!Indices : i = Q!Offset(Q!WorkerBlock(w))
      BY WorkerSlot, Shared
    <2>4. o \in SBQ!Rows
      BY <1>3, <2>2, RequestBound, PoolSizes
    <2>5. EnvQueue[i].rows[o] = NoRow
      <3>1. SUFFICES ASSUME EnvQueue[i].rows[o] # NoRow PROVE FALSE
        OBVIOUS
      <3>2. PICK row \in State \cup {NoRow} : row = queue[i].rows[o]
        BY <2>4 DEF PInv, Typed, QueueTyped, PoolBuffer
      <3>3. EnvQueue[i].rows[o] = EnvOf(row)
        BY <2>4, <3>2, QueueView, BufferView
      <3>4. row # NoRow /\ EnvOf(row) = row.env
        BY <3>1, <3>3, RowEnv
      <3>5. request[o + 1] = row.env
        BY <1>3, <2>4, <3>2, <3>4 DEF PInv, Filled, Fits
      <3>6. wenv[w] # EnvQueue[i].rows[o]
        BY <2>4, <3>1, Shared DEF Q!IInv, Q!Sent, Q!Holding
      <3>7. QED BY <2>1, <3>3, <3>4, <3>5, <3>6
    <2>6. ASSUME NEW v \in Workers, wstep[v] = "fill", wrow[v] = o
          PROVE  FALSE
      <3>1. wpc[v] = "write" /\ slice[v].order = o
        BY <1>3, <2>6 DEF PInv, Phases
      <3>2. slice[v].env = slice[w].env /\ slice[w].env # NoRow
        BY <1>1, <1>3, <2>1, <3>1, WriterSlice
      <3>3. v = w
        BY <1>1, <3>1, <3>2 DEF PInv, Single
      <3>4. QED BY <2>6, <3>3
    <2>7. o \notin Q!GivenRows(i)
      BY <2>5, <2>6 DEF Q!GivenRows
    <2>8. QED BY <1>3, <2>1, <2>2, <2>3, <2>7, Shared DEF Q!Orders
  <1>4. QED BY <1>2, <1>3

(* StateBuffer::Allocate, the row.                                         *)
LEMMA TakeRowStep ==
  ASSUME PInv, Q!IInv, NEW w \in Workers, wpc[w] = "write", SBQ!TakeRow(w, slice[w].order),
         UNCHANGED <<actions, workVars, stop, stepping_env_num, envVars, clientVars>>
  PROVE  PInv' /\ Q!TakeRow(w, slice[w].order) /\ slice[w].order \in Q!Orders(w)
  <1>1. PICK j \in SBQ!Indices : /\ j = SBQ!Offset(SBQ!WorkerBlock(w))
                                 /\ j = Q!Offset(Q!WorkerBlock(w))
    BY WorkerSlot, Shared
  <1>2. QueueTyped
    BY DEF PInv, Typed
  <1>3. RowsKept /\ EnvQueue' = [EnvQueue EXCEPT ![j].offsets = @ + 1]
    BY <1>1, <1>2, CounterStep DEF SBQ!TakeRow
  <1>4. EnvQueue[j].offsets = queue[j].offsets
    BY QueueView, BufferView
  <1>5. UNCHANGED <<alloc_count, done_ptr, stock, quit, cstep, wenv, wpos, rstep, rpos, radd, ret>>
    BY DEF SBQ!TakeRow, SBQ!stockVars, SBQ!readerVars
  <1>6. EnvRet' = EnvRet
    BY <1>5 DEF EnvRet, EnvOf
  <1>7. /\ wstep[w] = "take" /\ wstep' = [wstep EXCEPT ![w] = "fill"]
        /\ wrow' = [wrow EXCEPT ![w] = IF slice[w].order = SBQ!Unordered
                                       THEN queue[j].offsets ELSE slice[w].order]
    BY <1>1 DEF SBQ!TakeRow, SBQ!MoveWorker, SBQ!Buffer
  <1>8. Q!TakeRow(w, slice[w].order)
    BY <1>1, <1>3, <1>4, <1>5, <1>6, <1>7, Shared
       DEF Q!TakeRow, Q!MoveWorker, Q!Buffer, Q!stockVars, Q!readerVars
  <1>9. wstep \in [Workers -> Q!WorkerSteps] /\ wrow \in [Workers -> Nat]
    BY DEF Q!IInv, Q!Layout, Q!TypeOK
  <1>10. IsSync => wrow'[w] = slice[w].order
    <2>1. IsSync => slice[w].order + 1 \in 1 .. Len(request) /\ Len(request) \in Nat
      BY WriterSlice, RequestBound
    <2>2. IsSync => slice[w].order # SBQ!Unordered
      BY <2>1, WriterSlice DEF SBQ!Unordered
    <2>3. QED BY <1>7, <1>9, <2>2
  <1>11. Phases'
    BY <1>5, <1>7, <1>9, <1>10 DEF PInv, Phases, workVars
  <1>12. QueueTyped'
    BY <1>2, <1>3, <1>5 DEF QueueTyped, RowsKept
  <1>13. Reading'
    BY <1>5 DEF PInv, Reading, clientVars
  <1>14. Filled'
    BY <1>3, <1>5, RowsSameStep DEF RowsKept, clientVars
  <1>15. slice[w].order \in Q!Orders(w)
    BY <1>7, OrderFree
  <1>16. QED BY <1>8, <1>11, <1>12, <1>13, <1>14, <1>15, QueueOnlyStep

(* The environment fills in its row.                                       *)
LEMMA WriteStateStep ==
  ASSUME PInv, Q!IInv, NEW w \in Workers, WriteState(w)
  PROVE  PInv' /\ Q!FillRow(w, wenv[w]) /\ Entered' = Entered
  <1>1. PICK j \in SBQ!Indices : /\ j = SBQ!Offset(SBQ!WorkerBlock(w))
                                 /\ j = Q!Offset(Q!WorkerBlock(w))
    BY WorkerSlot, Shared
  <1>2. UNCHANGED <<actions, workVars, stop, stepping_env_num, envVars, clientVars>>
    BY DEF WriteState
  <1>3. /\ wstep[w] = "fill" /\ wstep' = [wstep EXCEPT ![w] = "done"]
        /\ queue' = [queue EXCEPT ![j].rows[wrow[w]] = StateOf(slice[w].env)]
        /\ UNCHANGED <<alloc_count, done_ptr, stock, quit, cstep, wenv, wpos, wrow,
                       rstep, rpos, radd, ret>>
    BY <1>1 DEF WriteState, SBQ!FillRow, SBQ!MoveWorker, SBQ!stockVars, SBQ!readerVars, StateOf
  <1>4. wpc[w] = "write" /\ QueueTyped
    BY <1>3 DEF PInv, Phases, Typed
  <1>5. PICK e \in Envs : e = slice[w].env /\ e = wenv[w]
    BY <1>4, WriterSlice
  <1>6. PICK row \in State : row = StateOf(e) /\ row.env = e
    <2>1. done[e] \in BOOLEAN /\ current_step[e] \in Int
      BY DEF PInv, Typed
    <2>2. StateOf(e) \in State /\ StateOf(e).env = e
      BY <2>1 DEF StateOf, State
    <2>3. QED BY <2>2
  <1>7. PICK r \in SBQ!Rows : r = wrow[w]
    BY <1>3, Shared DEF Q!IInv, Q!Given
  <1>8. /\ queue' \in [SBQ!Indices -> PoolBuffer]
        /\ \A i \in SBQ!Indices, q \in SBQ!Rows :
             queue'[i].rows[q] = IF i = j /\ q = r THEN row ELSE queue[i].rows[q]
        /\ EnvQueue' = [EnvQueue EXCEPT ![j].rows[r] = row.env]
    <2>1. StateOf(slice[w].env) = row
      BY <1>5, <1>6, Zenon
    <2>2. queue' = [queue EXCEPT ![j].rows[r] = row]
      BY <1>3, <1>7, <2>1
    <2>3. PICK b \in PoolBuffer : b = queue[j]
      BY <1>4 DEF QueueTyped
    <2>4. /\ [b EXCEPT !.rows[r] = row] \in PoolBuffer
          /\ EnvBuffer([b EXCEPT !.rows[r] = row]) = [EnvBuffer(b) EXCEPT !.rows[r] = row.env]
      BY RowView
    <2>5. PICK c \in PoolBuffer : /\ c = [b EXCEPT !.rows[r] = row]
                                  /\ EnvBuffer(c) = [EnvBuffer(b) EXCEPT !.rows[r] = row.env]
      BY <2>4, Zenon
    <2>6. queue' = [queue EXCEPT ![j] = c]
      BY <2>2, <2>3, <2>5
    <2>7. EnvQueue' = [EnvQueue EXCEPT ![j] = EnvBuffer(c)]
      BY <1>4, <2>6, ViewStep DEF QueueTyped
    <2>8. EnvQueue[j] = EnvBuffer(b)
      BY <2>3 DEF EnvQueue
    <2>9. EnvQueue' = [EnvQueue EXCEPT ![j].rows[r] = row.env]
      BY <2>5, <2>7, <2>8
    <2>10. queue' \in [SBQ!Indices -> PoolBuffer]
      BY <1>4, <2>6 DEF QueueTyped
    <2>11. c.rows = [b.rows EXCEPT ![r] = row] /\ b.rows \in [SBQ!Rows -> State \cup {NoRow}]
      BY <2>5 DEF PoolBuffer
    <2>12. \A i \in SBQ!Indices, q \in SBQ!Rows :
             queue'[i].rows[q] = IF i = j /\ q = r THEN row ELSE queue[i].rows[q]
      BY <1>4, <2>3, <2>6, <2>11 DEF QueueTyped
    <2>13. QED BY <2>9, <2>10, <2>12
  <1>9. EnvRet' = EnvRet
    BY <1>3 DEF EnvRet, EnvOf
  <1>10. Q!FillRow(w, wenv[w])
    <2>1. wenv[w] = row.env /\ wrow[w] = r
      BY <1>5, <1>6, <1>7
    <2>2. EnvQueue' = [EnvQueue EXCEPT ![Q!Offset(Q!WorkerBlock(w))].rows[wrow[w]] = wenv[w]]
      BY <1>1, <1>8, <2>1
    <2>3. QED BY <1>3, <1>9, <2>2 DEF Q!FillRow, Q!MoveWorker, Q!stockVars, Q!readerVars
  <1>11. wstep \in [Workers -> Q!WorkerSteps]
    BY DEF Q!IInv, Q!Layout, Q!TypeOK
  <1>12. Phases'
    BY <1>2, <1>3, <1>11 DEF PInv, Phases, workVars
  <1>13. QueueTyped'
    BY <1>3, <1>4, <1>8 DEF QueueTyped
  <1>14. Reading'
    BY <1>2, <1>3 DEF PInv, Reading, clientVars
  <1>15. Fits(row, r + 1)
    <2>1. IsSync => r = slice[w].order
      BY <1>3, <1>7 DEF PInv, Phases
    <2>2. IsSync => r + 1 \in DOMAIN request /\ request[r + 1] = e
      BY <1>4, <1>5, <2>1, WriterSlice
    <2>3. QED BY <1>6, <2>2 DEF Fits
  <1>16. Filled'
    BY <1>2, <1>3, <1>8, <1>15, FitsSame DEF PInv, Filled, clientVars
  <1>17. Entered' = Entered
    BY <1>2, EnteredSame DEF workVars, clientVars
  <1>18. QED BY <1>2, <1>10, <1>12, <1>13, <1>14, <1>16, <1>17, QueueOnlyStep

(* A worker that leaves the queue has nothing to do with it any more.      *)
LEMMA LeaveStep ==
  ASSUME PInv, NEW w \in Workers, wpc[w] = "write",
         wpc' = [wpc EXCEPT ![w] = "dequeue"],
         slice' = [slice EXCEPT ![w] = EmptySlice],
         wreset' = [wreset EXCEPT ![w] = FALSE],
         UNCHANGED <<actions, stop, stepping_env_num, envVars, clientVars>>,
         QueueTyped', Phases', Reading', Filled'
  PROVE  PInv' /\ Entered' = Entered
  <1>1. Typed'
    BY DEF PInv, Typed, envVars, clientVars, EmptySlice, Slice
  <1>2. \A v \in Workers : wpc'[v] # "dequeue" =>
          wpc'[v] = wpc[v] /\ slice'[v] = slice[v] /\ wreset'[v] = wreset[v]
    BY DEF PInv, Typed
  <1>3. \A s : Names(s)' = Names(s)
    BY DEF Names, clientVars
  <1>4. Single'
    <2>1. ASSUME NEW i \in DOMAIN actions
          PROVE  /\ actions[i].env = NoRow => stop
                 /\ actions[i].env # NoRow => Names(actions[i])
                 /\ \A j \in DOMAIN actions :
                      actions[j].env = actions[i].env => j = i \/ actions[i].env = NoRow
      BY DEF PInv, Single
    <2>2. ASSUME NEW v \in Workers, wpc'[v] # "dequeue"
          PROVE  /\ slice'[v].env = NoRow => stop
                 /\ slice'[v].env # NoRow => Names(slice'[v])
                 /\ \A u \in Workers :
                      wpc'[u] # "dequeue" /\ slice'[u].env = slice'[v].env
                        => u = v \/ slice'[v].env = NoRow
                 /\ \A i \in DOMAIN actions :
                      actions[i].env = slice'[v].env => slice'[v].env = NoRow
      <3>1. wpc[v] # "dequeue" /\ slice'[v] = slice[v]
        BY <1>2, <2>2
      <3>2. /\ slice[v].env = NoRow => stop
            /\ slice[v].env # NoRow => Names(slice[v])
            /\ \A u \in Workers :
                 wpc[u] # "dequeue" /\ slice[u].env = slice[v].env
                   => u = v \/ slice[v].env = NoRow
            /\ \A i \in DOMAIN actions :
                 actions[i].env = slice[v].env => slice[v].env = NoRow
        BY <3>1 DEF PInv, Single
      <3>3. QED BY <1>2, <3>1, <3>2
    <2>3. QED BY <1>3, <2>1, <2>2 DEF Single
  <1>5. Ordered'
    BY DEF PInv, Ordered, clientVars
  <1>6. Waiting' = Waiting
    <2>1. {v \in Workers : wpc'[v] \in {"check", "run", "exited"}}
            = {v \in Workers : wpc[v] \in {"check", "run", "exited"}}
      BY DEF PInv, Typed
    <2>2. \A v \in Workers : wpc[v] \in {"check", "run", "exited"} => slice'[v] = slice[v]
      BY DEF PInv, Typed
    <2>3. QED BY <2>1, <2>2 DEF Waiting
  <1>7. Entered' = Entered
    BY <1>6 DEF Entered, clientVars
  <1>8. History'
    BY <1>2, <1>7 DEF PInv, History, Promise!Following, envVars, clientVars
  <1>9. QED BY <1>1, <1>4, <1>5, <1>7, <1>8 DEF PInv

(* The end of done_write: the worker counts its row, and signals the       *)
(* buffer or leaves.                                                       *)
LEMMA DoneStep ==
  ASSUME PInv, Q!IInv, NEW w \in Workers, PostProcess(w), SBQ!Done(w)
  PROVE  PInv' /\ Q!Done(w) /\ Entered' = Entered
  <1>1. PICK j \in SBQ!Indices : /\ j = SBQ!Offset(SBQ!WorkerBlock(w))
                                 /\ j = Q!Offset(Q!WorkerBlock(w))
    BY WorkerSlot, Shared
  <1>2. QueueTyped
    BY DEF PInv, Typed
  <1>3. RowsKept /\ EnvQueue' = [EnvQueue EXCEPT ![j].dones = @ + 1]
    BY <1>1, <1>2, CounterStep DEF SBQ!Done
  <1>4. EnvQueue[j].dones = queue[j].dones
    BY QueueView, BufferView
  <1>5. UNCHANGED <<alloc_count, done_ptr, stock, quit, cstep, rstep, rpos, radd, ret>>
    BY DEF SBQ!Done, SBQ!stockVars, SBQ!readerVars
  <1>6. PICK last \in BOOLEAN : last <=> queue[j].dones + 1 = Batch
    OBVIOUS
  <1>7. /\ wstep[w] = "done"
        /\ wstep' = [wstep EXCEPT ![w] = IF last THEN "signal" ELSE "idle"]
        /\ wenv' = IF last THEN wenv ELSE [wenv EXCEPT ![w] = NoRow]
        /\ wpos' = IF last THEN wpos ELSE [wpos EXCEPT ![w] = 0]
        /\ wrow' = IF last THEN wrow ELSE [wrow EXCEPT ![w] = 0]
    BY <1>1, <1>6 DEF SBQ!Done, SBQ!Leave, SBQ!MoveWorker, SBQ!Buffer
  <1>8. EnvRet' = EnvRet
    BY <1>5 DEF EnvRet, EnvOf
  <1>9. Q!Done(w)
    <2>1. Q!Buffer(Q!WorkerBlock(w)).dones = queue[j].dones
      BY <1>1, <1>4 DEF Q!Buffer
    <2>2. Q!Leave(w, Q!Buffer(Q!WorkerBlock(w)).dones + 1 = Batch)
      BY <1>6, <1>7, <2>1 DEF Q!Leave, Q!MoveWorker
    <2>3. QED BY <1>1, <1>3, <1>5, <1>8, <2>2 DEF Q!Done, Q!stockVars, Q!readerVars
  <1>10. /\ wstep \in [Workers -> Q!WorkerSteps]
         /\ wenv \in [Workers -> Envs \cup {NoRow}] /\ wrow \in [Workers -> Nat]
    BY DEF Q!IInv, Q!Layout, Q!TypeOK
  <1>11. QueueTyped'
    BY <1>2, <1>3, <1>5 DEF QueueTyped, RowsKept
  <1>12. /\ UNCHANGED <<actions, stop, stepping_env_num, envVars, clientVars>>
         /\ wpc[w] = "write"
    BY <1>7 DEF PostProcess, PInv, Phases
  <1>13. Reading'
    BY <1>5, <1>12 DEF PInv, Reading, clientVars
  <1>14. Filled'
    BY <1>3, <1>5, <1>12, RowsSameStep DEF RowsKept, clientVars
  <1>15. CASE last
    <2>1. wstep'[w] = "signal"
      BY <1>7, <1>10, <1>15
    <2>2. UNCHANGED workVars
      BY <2>1 DEF PostProcess
    <2>3. Phases'
      BY <1>7, <1>10, <1>12, <1>15, <2>2 DEF PInv, Phases, workVars, clientVars
    <2>4. Entered' = Entered
      BY <1>12, <2>2, EnteredSame DEF workVars, clientVars
    <2>5. QED BY <1>9, <1>11, <1>12, <1>13, <1>14, <2>2, <2>3, <2>4, QueueOnlyStep
  <1>16. CASE ~last
    <2>1. wstep'[w] = "idle"
      BY <1>7, <1>10, <1>16
    <2>2. /\ wpc' = [wpc EXCEPT ![w] = "dequeue"]
          /\ slice' = [slice EXCEPT ![w] = EmptySlice]
          /\ wreset' = [wreset EXCEPT ![w] = FALSE]
      BY <2>1 DEF PostProcess
    <2>3. /\ wpc'[w] = "dequeue"
          /\ \A v \in Workers \ {w} : /\ wpc'[v] = wpc[v] /\ slice'[v] = slice[v]
                                      /\ wstep'[v] = wstep[v] /\ wenv'[v] = wenv[v]
                                      /\ wrow'[v] = wrow[v]
      BY <1>7, <1>10, <1>16, <2>2 DEF PInv, Typed
    <2>4. Phases'
      BY <2>1, <2>3 DEF PInv, Phases
    <2>5. QED BY <1>9, <1>11, <1>12, <1>13, <1>14, <2>2, <2>4, LeaveStep
  <1>17. QED BY <1>15, <1>16

(* The last worker of a batch signals its buffer and leaves.               *)
LEMMA SignalStep ==
  ASSUME PInv, Q!IInv, NEW w \in Workers, PostProcess(w), SBQ!SignalReady(w)
  PROVE  PInv' /\ Q!SignalReady(w) /\ Entered' = Entered
  <1>1. PICK j \in SBQ!Indices : /\ j = SBQ!Offset(SBQ!WorkerBlock(w))
                                 /\ j = Q!Offset(Q!WorkerBlock(w))
    BY WorkerSlot, Shared
  <1>2. QueueTyped
    BY DEF PInv, Typed
  <1>3. RowsKept /\ EnvQueue' = [EnvQueue EXCEPT ![j].ready = @ + 1]
    BY <1>1, <1>2, CounterStep DEF SBQ!SignalReady
  <1>4. UNCHANGED <<alloc_count, done_ptr, stock, quit, cstep, rstep, rpos, radd, ret>>
    BY DEF SBQ!SignalReady, SBQ!stockVars, SBQ!readerVars
  <1>5. /\ wstep[w] = "signal" /\ wstep' = [wstep EXCEPT ![w] = "idle"]
        /\ wenv' = [wenv EXCEPT ![w] = NoRow]
        /\ wpos' = [wpos EXCEPT ![w] = 0]
        /\ wrow' = [wrow EXCEPT ![w] = 0]
    BY DEF SBQ!SignalReady, SBQ!MoveWorker
  <1>6. EnvRet' = EnvRet
    BY <1>4 DEF EnvRet, EnvOf
  <1>7. Q!SignalReady(w)
    BY <1>1, <1>3, <1>4, <1>5, <1>6 DEF Q!SignalReady, Q!MoveWorker, Q!stockVars, Q!readerVars
  <1>8. /\ wstep \in [Workers -> Q!WorkerSteps]
        /\ wenv \in [Workers -> Envs \cup {NoRow}] /\ wrow \in [Workers -> Nat]
    BY DEF Q!IInv, Q!Layout, Q!TypeOK
  <1>9. QueueTyped'
    BY <1>2, <1>3, <1>4 DEF QueueTyped, RowsKept
  <1>10. /\ UNCHANGED <<actions, stop, stepping_env_num, envVars, clientVars>>
         /\ wpc[w] = "write" /\ wstep'[w] = "idle"
    BY <1>5, <1>8 DEF PostProcess, PInv, Phases
  <1>11. Reading'
    BY <1>4, <1>10 DEF PInv, Reading, clientVars
  <1>12. Filled'
    BY <1>3, <1>4, <1>10, RowsSameStep DEF RowsKept, clientVars
  <1>13. /\ wpc' = [wpc EXCEPT ![w] = "dequeue"]
         /\ slice' = [slice EXCEPT ![w] = EmptySlice]
         /\ wreset' = [wreset EXCEPT ![w] = FALSE]
    BY <1>10 DEF PostProcess
  <1>14. /\ wpc'[w] = "dequeue"
         /\ \A v \in Workers \ {w} : /\ wpc'[v] = wpc[v] /\ slice'[v] = slice[v]
                                     /\ wstep'[v] = wstep[v] /\ wenv'[v] = wenv[v]
                                     /\ wrow'[v] = wrow[v]
    BY <1>5, <1>8, <1>13 DEF PInv, Typed
  <1>15. Phases'
    BY <1>10, <1>14 DEF PInv, Phases
  <1>16. QED BY <1>7, <1>9, <1>10, <1>11, <1>12, <1>13, <1>15, LeaveStep

(* The background threads and the pool have nothing to do with each other. *)
LEMMA CreatorsStep ==
  ASSUME PInv, Q!IInv, NEW c \in Creators, CreatorStep(c)
  PROVE  PInv' /\ Q!CreatorStep(c) /\ Entered' = Entered
  <1>1. /\ UNCHANGED <<alloc_count, done_ptr, queue, quit, wstep, wenv, wpos, wrow,
                       rstep, rpos, radd, ret>>
        /\ UNCHANGED <<actions, workVars, stop, stepping_env_num, envVars, clientVars>>
    BY DEF CreatorStep, SBQ!CreatorStep, SBQ!PutStock, SBQ!TestQuit, SBQ!bufferVars,
       SBQ!workerVars, SBQ!readerVars
  <1>2. EnvQueue' = EnvQueue /\ EnvRet' = EnvRet
    BY <1>1 DEF EnvQueue, EnvBuffer, EnvRows, EnvRet, EnvOf
  <1>3. Q!CreatorStep(c)
    BY <1>1, <1>2 DEF CreatorStep, SBQ!CreatorStep, SBQ!PutStock, SBQ!TestQuit, Q!CreatorStep,
       Q!PutStock, Q!TestQuit, Q!bufferVars, Q!workerVars, Q!readerVars
  <1>4. QueueTyped'
    BY <1>1 DEF PInv, Typed, QueueTyped
  <1>5. Phases' /\ Reading'
    BY <1>1 DEF PInv, Phases, Reading, workVars, clientVars
  <1>6. Filled'
    BY <1>1, RowsSameStep DEF clientVars
  <1>7. Entered' = Entered
    BY <1>1, EnteredSame DEF workVars, clientVars
  <1>8. QED BY <1>1, <1>3, <1>4, <1>5, <1>6, <1>7, QueueOnlyStep

-----------------------------------------------------------------------------
(* The rows given out are those of the request.                            *)
LEMMA GivenBound ==
  ASSUME PInv, Q!IInv, IsSync, NEW i \in SBQ!Indices, NEW r \in Q!GivenRows(i)
  PROVE  r + 1 \in DOMAIN request /\ r \in SBQ!Rows
  <1>1. r \in SBQ!Rows
    BY Shared DEF Q!GivenRows
  <1>2. CASE EnvQueue[i].rows[r] # NoRow
    <2>1. PICK row \in State \cup {NoRow} : row = queue[i].rows[r]
      BY <1>1 DEF PInv, Typed, QueueTyped, PoolBuffer
    <2>2. row # NoRow
      BY <1>1, <1>2, <2>1, QueueView, BufferView, RowEnv
    <2>3. QED BY <1>1, <2>1, <2>2 DEF PInv, Filled, Fits
  <1>3. ASSUME NEW w \in Workers, wstep[w] = "fill", wrow[w] = r
        PROVE  r + 1 \in DOMAIN request
    <2>1. wpc[w] = "write" /\ slice[w].order = r
      BY <1>3 DEF PInv, Phases
    <2>2. QED BY <2>1, WriterSlice
  <1>4. QED BY <1>1, <1>2, <1>3 DEF Q!GivenRows

(* Recv asks for what the request leaves out.                              *)
LEMMA CallRecvStep ==
  ASSUME PInv, Q!IInv, CallRecv
  PROVE  PInv' /\ (\E additional \in 0 .. Batch : Q!Receive(additional)) /\ Entered' = Entered
  <1>1. PICK a \in Nat : a = AdditionalWait /\ a <= Batch /\ (a > 0 => IsSync)
                         /\ (IsSync => a = Batch - Len(request))
    <2>1. IsSync => stepping_env_num = Len(request)
      BY DEF PInv, Ordered
    <2>2. IsSync => Len(request) \in Nat /\ Len(request) <= Batch
      BY RequestBound, PoolSizes
    <2>3. /\ AdditionalWait \in Nat /\ AdditionalWait <= Batch
          /\ AdditionalWait > 0 => IsSync
          /\ IsSync => AdditionalWait = Batch - Len(request)
      BY <2>1, <2>2, PoolSizes DEF AdditionalWait
    <2>4. QED BY <2>3
  <1>2. /\ done_ptr < MaxBlocks /\ rstep = "idle" /\ rstep' = "stock" /\ radd' = a
        /\ UNCHANGED <<alloc_count, done_ptr, queue, stock, quit, cstep, wstep, wenv, wpos, wrow,
                       rpos, ret>>
        /\ UNCHANGED <<actions, workVars, stop, stepping_env_num, envVars, clientVars>>
    BY <1>1 DEF CallRecv, SBQ!CallWait, SBQ!MoveReader, SBQ!bufferVars, SBQ!stockVars,
       SBQ!workerVars
  <1>3. EnvQueue' = EnvQueue /\ EnvRet' = EnvRet
    BY <1>2 DEF EnvQueue, EnvBuffer, EnvRows, EnvRet, EnvOf
  <1>4. Entered' = Entered
    BY <1>2, EnteredSame DEF workVars, clientVars
  <1>5. IsSync => Q!Cardinality(Entered) + a <= Batch
    <2>1. IsFiniteSet(in_flight) /\ Entered \subseteq in_flight
      BY PoolAssumption, FS_Subset DEF PInv, Typed, Entered
    <2>2. /\ Cardinality(Entered) \in Nat /\ Cardinality(in_flight) \in Nat
          /\ Cardinality(Entered) <= Cardinality(in_flight)
      BY <2>1, FS_Subset, FS_CardinalityType
    <2>3. QED BY <1>1, <2>2, SameCardinality, RequestBound, PoolSizes
  <1>6. IsSync => \A i \in Q!Indices : Q!GivenRows(i) \subseteq 0 .. Batch - a - 1
    <2>1. SUFFICES ASSUME IsSync, NEW i \in SBQ!Indices, NEW r \in Q!GivenRows(i)
                   PROVE  r \in 0 .. Batch - a - 1
      BY Shared
    <2>2. r + 1 \in DOMAIN request /\ r \in 0 .. Batch - 1
      BY <2>1, GivenBound, PoolSizes
    <2>3. QED BY <1>1, <2>1, <2>2, RequestBound, PoolSizes
  <1>7. Q!Receive(a)
    BY <1>1, <1>2, <1>3, <1>4, <1>5, <1>6, Shared
       DEF Q!Receive, Q!CallWait, Q!MoveReader, Q!bufferVars, Q!stockVars, Q!workerVars
  <1>8. a \in 0 .. Batch
    BY <1>1, PoolSizes
  <1>9. QueueTyped'
    BY <1>2 DEF PInv, Typed, QueueTyped
  <1>10. Phases'
    BY <1>2 DEF PInv, Phases, workVars
  <1>11. Reading'
    <2>1. ~IsSync => a = 0
      BY <1>1
    <2>2. QED BY <1>1, <1>2, <2>1 DEF PInv, Reading, Collected, clientVars
  <1>12. Filled'
    BY <1>2, RowsSameStep DEF clientVars
  <1>13. QED BY <1>2, <1>4, <1>7, <1>8, <1>9, <1>10, <1>11, <1>12, QueueOnlyStep

(* The reader's slot of the ring.                                          *)
LEMMA ReaderSlot ==
  ASSUME Q!IInv
  PROVE  /\ rpos \in Nat /\ SBQ!Offset(rpos) \in SBQ!Indices
         /\ rstep \in Q!ReaderSteps /\ radd \in Nat
  BY PoolSizes DEF Q!IInv, Q!Layout, Q!TypeOK

(* A step of Wait that leaves the rows as they are, and what it leaves     *)
(* alone.                                                                  *)
LEMMA WaitQuiet ==
  ASSUME PInv, RowsKept, rstep # "idle", rstep' \notin {"idle", "destroy", "destroyed"},
         rstep \in Collected => rstep' \in Collected,
         UNCHANGED <<wstep, wenv, wrow, radd, ret>>,
         UNCHANGED <<actions, workVars, stop, stepping_env_num, envVars, clientVars>>
  PROVE  PInv' /\ Entered' = Entered /\ EnvRet' = EnvRet
  <1>1. QueueTyped'
    BY DEF PInv, Typed, QueueTyped, RowsKept
  <1>2. Phases'
    BY DEF PInv, Phases, workVars
  <1>3. Reading'
    BY DEF PInv, Reading, clientVars
  <1>4. Filled'
    BY RowsSameStep DEF RowsKept, clientVars
  <1>5. Entered' = Entered
    BY EnteredSame DEF workVars, clientVars
  <1>6. EnvRet' = EnvRet
    BY DEF EnvRet, EnvOf
  <1>7. QED BY <1>1, <1>2, <1>3, <1>4, <1>5, <1>6, QueueOnlyStep

(* The steps of Wait that touch no buffer.                                 *)
LEMMA WaitPositionSteps ==
  ASSUME PInv, Q!IInv, WaitStep, SBQ!GetStock \/ SBQ!AdvanceBlock
  PROVE  PInv' /\ Q!ReaderStep /\ Entered' = Entered
  <1>1. /\ UNCHANGED <<queue, quit, cstep, wstep, wenv, wpos, wrow, radd, ret>>
        /\ UNCHANGED <<actions, workVars, stop, stepping_env_num, envVars, clientVars>>
        /\ rstep \in {"stock", "advance"} /\ rstep' \in {"add", "swap"}
        /\ rstep \in Collected => rstep' \in Collected
    BY DEF Collected, WaitStep, SBQ!GetStock, SBQ!AdvanceBlock, SBQ!MoveReader, SBQ!workerVars,
       SBQ!bufferVars, SBQ!stockVars
  <1>2. RowsKept
    BY <1>1 DEF RowsKept, PInv, Typed, QueueTyped
  <1>3. PInv' /\ Entered' = Entered /\ EnvRet' = EnvRet
    BY <1>1, <1>2, WaitQuiet
  <1>4. EnvQueue' = EnvQueue
    BY <1>1 DEF EnvQueue, EnvBuffer, EnvRows, EnvOf
  <1>5. CASE SBQ!GetStock
    BY <1>1, <1>3, <1>4, <1>5 DEF SBQ!GetStock, SBQ!MoveReader, Q!ReaderStep, Q!GetStock,
       Q!MoveReader, Q!workerVars
  <1>6. CASE SBQ!AdvanceBlock
    BY <1>1, <1>3, <1>4, <1>6 DEF SBQ!AdvanceBlock, SBQ!MoveReader, SBQ!stockVars, Q!ReaderStep,
       Q!AdvanceBlock, Q!MoveReader, Q!workerVars, Q!stockVars
  <1>7. QED BY <1>3, <1>5, <1>6

(* Done(additional), and its signal.                                       *)
LEMMA AddDoneStep ==
  ASSUME PInv, Q!IInv, WaitStep, SBQ!AddDone
  PROVE  PInv' /\ Q!ReaderStep /\ Entered' = Entered
  <1>1. PICK j \in SBQ!Indices : j = SBQ!Offset(rpos) /\ j = Q!Offset(rpos)
    BY ReaderSlot, Shared
  <1>2. PICK b \in PoolBuffer : b = queue[j]
    BY DEF PInv, Typed, QueueTyped
  <1>3. EnvQueue[j] = EnvBuffer(b)
    BY <1>2 DEF EnvQueue
  <1>4. PICK n \in Nat, m \in Nat : n = b.dones + radd /\ m = IF n = Batch THEN b.ready + 1 ELSE b.ready
    <2>1. b.dones + radd \in Nat /\ b.ready \in Nat
      BY ReaderSlot DEF PoolBuffer
    <2>2. QED BY <2>1
  <1>5. /\ queue' = IF radd = 0 THEN queue
                    ELSE [queue EXCEPT ![j].dones = n,
                                       ![j].ready = IF n = Batch THEN @ + 1 ELSE @]
        /\ rstep = "add" /\ rstep' = "wait"
        /\ UNCHANGED <<alloc_count, done_ptr, stock, quit, cstep, wstep, wenv, wpos, wrow,
                       rpos, radd, ret>>
        /\ UNCHANGED <<actions, workVars, stop, stepping_env_num, envVars, clientVars>>
    BY <1>1, <1>2, <1>4 DEF WaitStep, SBQ!AddDone, SBQ!MoveReader, SBQ!Buffer, SBQ!stockVars,
       SBQ!workerVars
  <1>6. RowsKept /\ EnvQueue' = IF radd = 0 THEN EnvQueue
                                ELSE [EnvQueue EXCEPT ![j].dones = n,
                                        ![j].ready = IF n = Batch THEN @ + 1 ELSE @]
    <2>1. CASE radd = 0
      BY <1>5, <2>1 DEF RowsKept, PInv, Typed, QueueTyped, EnvQueue, EnvBuffer, EnvRows, EnvOf
    <2>2. CASE radd # 0
      <3>1. PICK c \in PoolBuffer : /\ c = [b EXCEPT !.dones = n] /\ c.rows = b.rows
                                    /\ EnvBuffer(c) = [EnvBuffer(b) EXCEPT !.dones = n]
        <4>1. /\ [b EXCEPT !.dones = n] \in PoolBuffer /\ [b EXCEPT !.dones = n].rows = b.rows
              /\ EnvBuffer([b EXCEPT !.dones = n]) = [EnvBuffer(b) EXCEPT !.dones = n]
          BY FieldViews, Zenon
        <4>2. QED BY <4>1, Zenon
      <3>2. PICK d \in PoolBuffer : /\ d = [c EXCEPT !.ready = m] /\ d.rows = c.rows
                                    /\ EnvBuffer(d) = [EnvBuffer(c) EXCEPT !.ready = m]
        <4>1. /\ [c EXCEPT !.ready = m] \in PoolBuffer /\ [c EXCEPT !.ready = m].rows = c.rows
              /\ EnvBuffer([c EXCEPT !.ready = m]) = [EnvBuffer(c) EXCEPT !.ready = m]
          BY FieldViews, Zenon
        <4>2. QED BY <4>1, Zenon
      <3>3. c.ready = b.ready /\ EnvBuffer(b).ready = b.ready /\ EnvBuffer(c).ready = b.ready
        BY <3>1, BufferView DEF PoolBuffer
      <3>4. queue' = [queue EXCEPT ![j] = d]
        BY <1>2, <1>4, <1>5, <2>2, <3>1, <3>2, <3>3 DEF PInv, Typed, QueueTyped
      <3>5. d.rows = queue[j].rows /\ QueueTyped
        BY <1>2, <3>1, <3>2 DEF PInv, Typed
      <3>6. RowsKept /\ EnvQueue' = [EnvQueue EXCEPT ![j] = EnvBuffer(d)]
        BY <3>4, <3>5, ChangedBuffer
      <3>7. EnvQueue' = [EnvQueue EXCEPT ![j].dones = n,
                                         ![j].ready = IF n = Batch THEN @ + 1 ELSE @]
        <4>1. EnvQueue \in [SBQ!Indices -> Q!BufferType]
          BY Shared DEF Q!IInv, Q!Layout, Q!TypeOK
        <4>2. PICK e \in Q!BufferType : e = EnvQueue[j] /\ e.ready = b.ready
          BY <1>3, <3>3, <4>1
        <4>3. EnvBuffer(d) = [e EXCEPT !.dones = n, !.ready = m]
          BY <1>3, <3>1, <3>2, <4>2 DEF Q!BufferType
        <4>4. m = IF n = Batch THEN e.ready + 1 ELSE e.ready
          BY <1>4, <4>2
        <4>5. QED BY <3>6, <4>1, <4>2, <4>3, <4>4 DEF Q!BufferType
      <3>8. QED BY <2>2, <3>6, <3>7
    <2>3. QED BY <2>1, <2>2
  <1>7. PInv' /\ Entered' = Entered /\ EnvRet' = EnvRet
    BY <1>5, <1>6, WaitQuiet DEF Collected
  <1>8. Q!Buffer(rpos).dones + radd = n
    BY <1>1, <1>3, <1>4, BufferView DEF Q!Buffer
  <1>9. Q!AddDone
    BY <1>1, <1>5, <1>6, <1>7, <1>8 DEF Q!AddDone, Q!MoveReader, Q!stockVars, Q!workerVars
  <1>10. QED BY <1>7, <1>9 DEF Q!ReaderStep

(* The reader takes the signal.                                            *)
LEMMA WaitReadyStep ==
  ASSUME PInv, Q!IInv, WaitStep, SBQ!WaitReady
  PROVE  PInv' /\ Q!ReaderStep /\ Entered' = Entered
  <1>1. PICK j \in SBQ!Indices : j = SBQ!Offset(rpos) /\ j = Q!Offset(rpos)
    BY ReaderSlot, Shared
  <1>2. PICK b \in PoolBuffer : b = queue[j]
    BY DEF PInv, Typed, QueueTyped
  <1>3. EnvQueue[j] = EnvBuffer(b) /\ EnvBuffer(b).ready = b.ready
    BY <1>2, BufferView DEF EnvQueue
  <1>4. /\ queue[j].ready > 0 /\ queue' = [queue EXCEPT ![j].ready = @ - 1]
        /\ rstep = "wait" /\ rstep' = "collect"
        /\ UNCHANGED <<alloc_count, done_ptr, stock, quit, cstep, wstep, wenv, wpos, wrow,
                       rpos, radd, ret>>
        /\ UNCHANGED <<actions, workVars, stop, stepping_env_num, envVars, clientVars>>
    BY <1>1 DEF WaitStep, SBQ!WaitReady, SBQ!MoveReader, SBQ!Buffer, SBQ!stockVars, SBQ!workerVars
  <1>5. PICK n \in Nat : n = b.ready - 1
    <2>1. b.ready - 1 \in Nat
      BY <1>2, <1>4 DEF PoolBuffer
    <2>2. QED BY <2>1
  <1>6. PICK c \in PoolBuffer : /\ c = [b EXCEPT !.ready = n] /\ c.rows = b.rows
                                /\ EnvBuffer(c) = [EnvBuffer(b) EXCEPT !.ready = n]
    <2>1. /\ [b EXCEPT !.ready = n] \in PoolBuffer /\ [b EXCEPT !.ready = n].rows = b.rows
          /\ EnvBuffer([b EXCEPT !.ready = n]) = [EnvBuffer(b) EXCEPT !.ready = n]
      BY FieldViews, Zenon
    <2>2. QED BY <2>1, Zenon
  <1>7. queue' = [queue EXCEPT ![j] = c]
    BY <1>2, <1>4, <1>5, <1>6
  <1>8. c.rows = queue[j].rows /\ QueueTyped
    BY <1>2, <1>6 DEF PInv, Typed
  <1>9. RowsKept /\ EnvQueue' = [EnvQueue EXCEPT ![j] = EnvBuffer(c)]
    BY <1>7, <1>8, ChangedBuffer
  <1>10. EnvQueue' = [EnvQueue EXCEPT ![j].ready = @ - 1]
    BY <1>3, <1>5, <1>6, <1>9
  <1>11. PInv' /\ Entered' = Entered /\ EnvRet' = EnvRet
    BY <1>4, <1>9, WaitQuiet DEF Collected
  <1>12. Q!Buffer(rpos).ready > 0
    BY <1>1, <1>2, <1>3, <1>4 DEF Q!Buffer
  <1>13. Q!WaitReady
    BY <1>1, <1>4, <1>10, <1>11, <1>12 DEF Q!WaitReady, Q!MoveReader, Q!stockVars, Q!workerVars
  <1>14. QED BY <1>11, <1>13 DEF Q!ReaderStep

(* The reader collects the rows handed out.                                *)
LEMMA CollectStep ==
  ASSUME PInv, Q!IInv, WaitStep, SBQ!Collect
  PROVE  PInv' /\ Q!ReaderStep /\ Entered' = Entered
  <1>1. PICK j \in SBQ!Indices : j = SBQ!Offset(rpos) /\ j = Q!Offset(rpos)
    BY ReaderSlot, Shared
  <1>2. PICK b \in PoolBuffer : b = queue[j]
    BY DEF PInv, Typed, QueueTyped
  <1>3. PICK m \in 0 .. Batch : m = b.offsets /\ EnvQueue[j].offsets = m
    BY <1>2, Shared, QueueAssumed, Q!OffsetsBound, QueueView, BufferView
  <1>4. /\ ret' = [r \in 1 .. m |-> b.rows[r - 1]]
        /\ rstep = "collect" /\ rstep' = "advance"
        /\ UNCHANGED <<alloc_count, done_ptr, queue, stock, quit, cstep, wstep, wenv, wpos, wrow,
                       rpos, radd>>
        /\ UNCHANGED <<actions, workVars, stop, stepping_env_num, envVars, clientVars>>
    BY <1>1, <1>2, <1>3 DEF WaitStep, SBQ!Collect, SBQ!MoveReader, SBQ!Buffer, SBQ!stockVars,
       SBQ!workerVars, SBQ!bufferVars
  <1>5. \A r \in 1 .. m : /\ r - 1 \in SBQ!Rows /\ r - 1 + 1 = r
                          /\ b.rows[r - 1] \in State \cup {NoRow}
    <2>1. \A r \in 1 .. m : r - 1 \in SBQ!Rows /\ r - 1 + 1 = r
      BY PoolSizes
    <2>2. QED BY <2>1 DEF PoolBuffer
  <1>6. /\ DOMAIN ret' = 1 .. m
        /\ \A r \in 1 .. m : ret'[r] = b.rows[r - 1] /\ EnvQueue[j].rows[r - 1] = EnvOf(ret'[r])
    <2>1. DOMAIN ret' = 1 .. m /\ \A r \in 1 .. m : ret'[r] = b.rows[r - 1]
      BY <1>4
    <2>2. \A q \in SBQ!Rows : EnvQueue[j].rows[q] = EnvOf(b.rows[q])
      BY <1>2, QueueView, BufferView
    <2>3. QED BY <1>5, <2>1, <2>2
  <1>7. EnvRet' = [r \in 1 .. m |-> EnvQueue[j].rows[r - 1]]
    <2>1. EnvRet' = [r \in DOMAIN ret' |-> EnvOf(ret'[r])]
      BY DEF EnvRet, EnvOf
    <2>2. QED BY <1>6, <2>1
  <1>8. EnvQueue' = EnvQueue
    BY <1>4 DEF EnvQueue, EnvBuffer, EnvRows, EnvOf
  <1>9. Q!Collect
    BY <1>1, <1>3, <1>4, <1>7, <1>8
       DEF Q!Collect, Q!MoveReader, Q!Buffer, Q!stockVars, Q!workerVars, Q!bufferVars
  <1>10. QueueTyped'
    <2>1. ret' \in [1 .. m -> State \cup {NoRow}] /\ m \in Nat
      BY <1>4, <1>5, PoolSizes
    <2>2. ret' \in Seq(State \cup {NoRow})
      BY <2>1, SeqDef
    <2>3. QED BY <1>4, <2>2 DEF PInv, Typed, QueueTyped
  <1>11. Phases'
    BY <1>4 DEF PInv, Phases, workVars
  <1>12. Reading'
    BY <1>4 DEF PInv, Reading, Collected, clientVars
  <1>13. Filled'
    <2>1. \A row, n : Fits(row, n)' = Fits(row, n)
      BY <1>4, FitsSame DEF clientVars
    <2>2. ASSUME NEW n \in DOMAIN ret', ret'[n] # NoRow PROVE Fits(ret'[n], n)
      <3>1. n \in 1 .. m /\ n - 1 \in SBQ!Rows /\ n - 1 + 1 = n /\ ret'[n] = queue[j].rows[n - 1]
        BY <1>2, <1>5, <1>6, <2>2
      <3>2. Fits(queue[j].rows[n - 1], n - 1 + 1)
        BY <2>2, <3>1 DEF PInv, Filled
      <3>3. QED BY <3>1, <3>2
    <2>3. QED BY <1>4, <2>1, <2>2 DEF PInv, Filled
  <1>14. Entered' = Entered
    BY <1>4, EnteredSame DEF workVars, clientVars
  <1>15. QED BY <1>4, <1>9, <1>10, <1>11, <1>12, <1>13, <1>14, QueueOnlyStep DEF Q!ReaderStep

(* A fresh buffer takes the place of the one received.                     *)
LEMMA SwapBufferStep ==
  ASSUME PInv, Q!IInv, WaitStep, SBQ!SwapBuffer
  PROVE  PInv' /\ Q!ReaderStep /\ Entered' = Entered
  <1>1. PICK j \in SBQ!Indices : j = SBQ!Offset(rpos) /\ j = Q!Offset(rpos)
    BY ReaderSlot, Shared
  <1>2. PICK k \in Nat : k = rpos + SBQ!QueueSize /\ k = rpos + Q!QueueSize
    <2>1. Q!QueueSize \in Nat \ {0}
      BY QueueAssumed, Q!Sizes
    <2>2. rpos + Q!QueueSize \in Nat
      BY <2>1, ReaderSlot
    <2>3. QED BY <2>2, Shared
  <1>3. /\ queue' = [queue EXCEPT ![j] = SBQ!NewBuffer(k)]
        /\ rstep = "swap" /\ rstep' = "return"
        /\ UNCHANGED <<alloc_count, done_ptr, stock, quit, cstep, wstep, wenv, wpos, wrow,
                       rpos, radd, ret>>
        /\ UNCHANGED <<actions, workVars, stop, stepping_env_num, envVars, clientVars>>
    BY <1>1, <1>2 DEF WaitStep, SBQ!SwapBuffer, SBQ!MoveReader, SBQ!stockVars, SBQ!workerVars
  <1>4. PICK c \in PoolBuffer : /\ c = SBQ!NewBuffer(k) /\ EnvBuffer(c) = Q!NewBuffer(k)
                                /\ \A r \in SBQ!Rows : c.rows[r] = NoRow
    BY FreshView DEF SBQ!NewBuffer
  <1>5. queue \in [SBQ!Indices -> PoolBuffer] /\ queue' = [queue EXCEPT ![j] = c]
    BY <1>3, <1>4 DEF PInv, Typed, QueueTyped
  <1>6. EnvQueue' = [EnvQueue EXCEPT ![j] = Q!NewBuffer(k)]
    BY <1>4, <1>5, ViewStep
  <1>7. RowsKept
    BY <1>4, <1>5 DEF RowsKept
  <1>8. PInv' /\ Entered' = Entered /\ EnvRet' = EnvRet
    BY <1>3, <1>7, WaitQuiet DEF Collected
  <1>9. Q!SwapBuffer
    BY <1>1, <1>2, <1>3, <1>6, <1>8 DEF Q!SwapBuffer, Q!MoveReader, Q!stockVars, Q!workerVars
  <1>10. QED BY <1>8, <1>9 DEF Q!ReaderStep

-----------------------------------------------------------------------------
(* A step outside the queue leaves it as it is in both views.              *)
LEMMA OutsideStep ==
  ASSUME PInv, UNCHANGED sbqVars, UNCHANGED request
  PROVE  /\ QueueTyped' /\ Reading'
         /\ UNCHANGED envVars => Filled'
         /\ EnvQueue' = EnvQueue /\ EnvRet' = EnvRet
         /\ Entered' = Entered => UNCHANGED Q!vars
         /\ UNCHANGED <<wstep, wenv, wrow>>
  <1>1. UNCHANGED <<alloc_count, done_ptr, queue, stock, quit, cstep, wstep, wenv, wpos, wrow,
                    rstep, rpos, radd, ret>>
    BY DEF sbqVars
  <1>2. EnvQueue' = EnvQueue /\ EnvRet' = EnvRet
    BY <1>1 DEF EnvQueue, EnvBuffer, EnvRows, EnvRet, EnvOf
  <1>3. QueueTyped' /\ Reading'
    BY <1>1 DEF PInv, Typed, QueueTyped, Reading
  <1>4. UNCHANGED envVars => Filled'
    BY <1>1, FitsSame DEF PInv, Filled
  <1>5. Entered' = Entered => UNCHANGED Q!vars
    BY <1>1, <1>2 DEF Q!vars, Q!bufferVars, Q!stockVars, Q!workerVars, Q!readerVars
  <1>6. QED BY <1>1, <1>2, <1>3, <1>4, <1>5

(* A worker that has looked at its slice goes on to run it, or ends.       *)
LEMMA CheckedStep ==
  ASSUME PInv, NEW w \in Workers, Exit(w) \/ Decide(w)
  PROVE  PInv' /\ UNCHANGED Q!vars
  <1>1. PICK to \in {"run", "exited"} :
          /\ wpc[w] = "check" /\ wpc' = [wpc EXCEPT ![w] = to]
          /\ to = "run" => /\ ~stop
                           /\ wreset' = [wreset EXCEPT ![w] = slice[w].force_reset \/ done[slice[w].env]]
          /\ to = "exited" => UNCHANGED wreset
    BY DEF Exit, Decide, Goto
  <1>2. UNCHANGED <<sbqVars, actions, slice, stop, stepping_env_num, envVars, clientVars>>
    BY DEF Exit, Decide
  <1>3. UNCHANGED <<done, current_step, in_flight, request, forced, seen>>
    BY <1>2 DEF envVars, clientVars
  <1>4. /\ QueueTyped' /\ Reading' /\ Filled' /\ UNCHANGED <<wstep, wenv, wrow>>
        /\ Entered' = Entered => UNCHANGED Q!vars
    BY <1>2, <1>3, OutsideStep
  <1>5. /\ wpc'[w] = to
        /\ \A v \in Workers \ {w} : wpc'[v] = wpc[v] /\ wreset'[v] = wreset[v]
    BY <1>1 DEF PInv, Typed
  <1>6. to = "run" => slice[w].env \in Envs
    BY <1>1 DEF PInv, Typed, Single, Names
  <1>7. to = "run" => wreset'[w] = (slice[w].force_reset \/ done[slice[w].env])
    BY <1>1 DEF PInv, Typed
  <1>8. Typed'
    <2>1. to = "run" => (slice[w].force_reset \/ done[slice[w].env]) \in BOOLEAN
      OBVIOUS
    <2>2. wreset' \in [Workers -> BOOLEAN]
      BY <1>1, <2>1 DEF PInv, Typed
    <2>3. QED BY <1>1, <1>2, <1>3, <1>4, <2>2 DEF PInv, Typed
  <1>9. Phases'
    BY <1>1, <1>4, <1>5, <1>6, <1>2, BlankAssumption DEF PInv, Phases
  <1>10. \A s : Names(s)' = Names(s)
    BY <1>3 DEF Names
  <1>11. \A v \in Workers : wpc'[v] # "dequeue" <=> wpc[v] # "dequeue"
    BY <1>1, <1>5
  <1>12. Single'
    BY <1>2, <1>10, <1>11 DEF PInv, Single
  <1>13. Ordered'
    BY <1>2, <1>3 DEF PInv, Ordered
  <1>14. Entered' = Entered
    <2>1. {v \in Workers : wpc'[v] \in {"check", "run", "exited"}}
            = {v \in Workers : wpc[v] \in {"check", "run", "exited"}}
      BY <1>1, <1>5
    <2>2. Waiting' = Waiting
      BY <1>2, <2>1 DEF Waiting
    <2>3. QED BY <1>3, <2>2 DEF Entered
  <1>15. History'
    <2>1. to = "run" => (wreset'[w] <=> slice[w].env \in forced \/ done[slice[w].env])
      BY <1>1, <1>6, <1>7, BlankAssumption DEF PInv, History
    <2>2. QED BY <1>2, <1>3, <1>5, <1>14, <2>1 DEF PInv, History, Promise!Following
  <1>16. QED BY <1>4, <1>8, <1>9, <1>12, <1>13, <1>14, <1>15 DEF PInv

(* A worker takes the first slice of the queue.                            *)
LEMMA DequeueStep ==
  ASSUME PInv, NEW w \in Workers, Dequeue(w)
  PROVE  PInv' /\ UNCHANGED Q!vars
  <1>1. /\ wpc[w] = "dequeue" /\ wpc' = [wpc EXCEPT ![w] = "check"]
        /\ actions # <<>> /\ slice' = [slice EXCEPT ![w] = Head(actions)]
        /\ actions' = Tail(actions)
        /\ UNCHANGED <<sbqVars, wreset, stop, stepping_env_num, envVars, clientVars>>
    BY DEF Dequeue, Goto
  <1>2. UNCHANGED <<done, current_step, in_flight, request, forced, seen>>
    BY <1>1 DEF envVars, clientVars
  <1>3. /\ QueueTyped' /\ Reading' /\ Filled' /\ UNCHANGED <<wstep, wenv, wrow>>
        /\ Entered' = Entered => UNCHANGED Q!vars
    BY <1>1, <1>2, OutsideStep
  <1>4. PICK n \in Nat : /\ DOMAIN actions = 1 .. n + 1 /\ DOMAIN actions' = 1 .. n
                         /\ actions' \in Seq(Slice) /\ Head(actions) = actions[1]
                         /\ \A i \in 1 .. n : actions'[i] = actions[i + 1]
    <2>1. /\ actions \in Seq(Slice) /\ Len(actions) \in Nat \ {0}
          /\ DOMAIN actions = 1 .. Len(actions)
      BY <1>1, EmptySeq, LenProperties DEF PInv, Typed
    <2>2. /\ Head(actions) = actions[1] /\ Tail(actions) \in Seq(Slice)
          /\ Len(Tail(actions)) = Len(actions) - 1
          /\ DOMAIN Tail(actions) = 1 .. Len(Tail(actions))
          /\ \A i \in 1 .. Len(Tail(actions)) : Tail(actions)[i] = actions[i + 1]
      BY <1>1, <2>1, HeadTailProperties, LenProperties
    <2>3. PICK n \in Nat : n = Len(actions) - 1
      <3>1. Len(actions) - 1 \in Nat
        BY <2>1
      <3>2. QED BY <3>1
    <2>4. Len(actions) = n + 1 /\ Len(Tail(actions)) = n
      BY <2>1, <2>2, <2>3
    <2>5. QED BY <1>1, <2>1, <2>2, <2>4
  <1>5. /\ 1 \in DOMAIN actions /\ actions[1] \in Slice
        /\ \A i \in 1 .. n : /\ i + 1 \in DOMAIN actions /\ i + 1 # 1
                             /\ \A j \in 1 .. n : i + 1 = j + 1 => i = j
        /\ \A i \in DOMAIN actions : i # 1 => i - 1 \in 1 .. n /\ actions[i] = actions'[i - 1]
    <2>1. 1 \in DOMAIN actions /\ actions[1] \in Slice
      BY <1>4, ElementOfSeq, LenProperties DEF PInv, Typed
    <2>2. \A i \in DOMAIN actions : i # 1 => i - 1 \in 1 .. n /\ i - 1 + 1 = i
      BY <1>4
    <2>3. QED BY <1>4, <2>1, <2>2
  <1>6. /\ wpc'[w] = "check" /\ slice'[w] = actions[1]
        /\ \A v \in Workers \ {w} : wpc'[v] = wpc[v] /\ slice'[v] = slice[v]
    BY <1>1, <1>4 DEF PInv, Typed
  <1>7. Typed'
    <2>1. slice' \in [Workers -> Slice]
      BY <1>1, <1>4, <1>5 DEF PInv, Typed
    <2>2. QED BY <1>1, <1>2, <1>3, <1>4, <2>1 DEF PInv, Typed
  <1>8. Phases'
    BY <1>1, <1>3, <1>6 DEF PInv, Phases
  <1>9. \A s : Names(s)' = Names(s)
    BY <1>2 DEF Names
  <1>10. Single'
    <2>1. ASSUME NEW i \in DOMAIN actions'
          PROVE  /\ actions'[i].env = NoRow => stop
                 /\ actions'[i].env # NoRow => Names(actions'[i])
                 /\ \A j \in DOMAIN actions' :
                      actions'[j].env = actions'[i].env => j = i \/ actions'[i].env = NoRow
      <3>1. PICK k \in DOMAIN actions : k = i + 1 /\ actions'[i] = actions[k]
        BY <1>4, <1>5, <2>1
      <3>2. /\ actions[k].env = NoRow => stop
            /\ actions[k].env # NoRow => Names(actions[k])
            /\ \A j \in DOMAIN actions :
                 actions[j].env = actions[k].env => j = k \/ actions[k].env = NoRow
        BY DEF PInv, Single
      <3>3. \A j \in DOMAIN actions' : j + 1 = k => j = i
        BY <1>4, <1>5, <2>1, <3>1
      <3>4. QED BY <1>4, <1>5, <3>1, <3>2, <3>3
    <2>2. ASSUME NEW v \in Workers, wpc'[v] # "dequeue"
          PROVE  /\ slice'[v].env = NoRow => stop
                 /\ slice'[v].env # NoRow => Names(slice'[v])
      BY <1>5, <1>6, <2>2 DEF PInv, Single
    <2>3. ASSUME NEW v \in Workers, wpc'[v] # "dequeue",
                 NEW u \in Workers, wpc'[u] # "dequeue", slice'[u].env = slice'[v].env, u # v
          PROVE  slice'[v].env = NoRow
      BY <1>5, <1>6, <2>3 DEF PInv, Single
    <2>4. ASSUME NEW v \in Workers, wpc'[v] # "dequeue",
                 NEW i \in DOMAIN actions', actions'[i].env = slice'[v].env
          PROVE  slice'[v].env = NoRow
      <3>1. PICK k \in DOMAIN actions : k # 1 /\ actions'[i] = actions[k]
        BY <1>4, <1>5, <2>4
      <3>2. CASE v = w
        <4>1. actions[k].env = actions[1].env
          BY <1>6, <2>4, <3>1, <3>2
        <4>2. actions[1].env = NoRow
          BY <1>5, <3>1, <4>1 DEF PInv, Single
        <4>3. QED BY <1>6, <3>2, <4>2
      <3>3. CASE v # w
        BY <1>6, <2>4, <3>1, <3>3 DEF PInv, Single
      <3>4. QED BY <3>2, <3>3
    <2>5. QED BY <1>1, <1>9, <2>1, <2>2, <2>3, <2>4 DEF Single
  <1>11. Ordered'
    BY <1>1, <1>2 DEF PInv, Ordered
  <1>12. Waiting' = Waiting
    <2>1. ASSUME NEW e \in Waiting PROVE e \in Waiting'
      <3>1. CASE \E i \in DOMAIN actions : e = actions[i].env
        <4>1. PICK i \in DOMAIN actions : e = actions[i].env
          BY <3>1
        <4>2. i = 1 => e = slice'[w].env
          BY <1>6, <4>1
        <4>3. i # 1 => i - 1 \in DOMAIN actions' /\ e = actions'[i - 1].env
          BY <1>4, <1>5, <4>1
        <4>4. QED BY <1>6, <4>2, <4>3 DEF Waiting
      <3>2. CASE \E v \in Workers : wpc[v] \in {"check", "run", "exited"} /\ e = slice[v].env
        BY <1>1, <1>6, <3>2 DEF Waiting
      <3>3. QED BY <3>1, <3>2 DEF Waiting
    <2>2. ASSUME NEW e \in Waiting' PROVE e \in Waiting
      <3>1. CASE \E i \in DOMAIN actions' : e = actions'[i].env
        BY <1>4, <1>5, <3>1 DEF Waiting
      <3>2. CASE \E v \in Workers : wpc'[v] \in {"check", "run", "exited"} /\ e = slice'[v].env
        BY <1>5, <1>6, <3>2 DEF Waiting
      <3>3. QED BY <3>1, <3>2 DEF Waiting
    <2>3. QED BY <2>1, <2>2
  <1>13. Entered' = Entered
    BY <1>2, <1>12 DEF Entered
  <1>14. History'
    <2>1. \A i \in DOMAIN actions' : actions'[i].env # NoRow =>
            (actions'[i].force_reset <=> actions'[i].env \in forced)
      BY <1>4, <1>5 DEF PInv, History
    <2>2. slice'[w].env # NoRow => (slice'[w].force_reset <=> slice'[w].env \in forced)
      BY <1>5, <1>6 DEF PInv, History
    <2>3. QED BY <1>1, <1>2, <1>6, <1>13, <2>1, <2>2 DEF PInv, History, Promise!Following
  <1>15. QED BY <1>3, <1>7, <1>8, <1>10, <1>11, <1>13, <1>14 DEF PInv

(* The rows that have been written are those of environments entered.      *)
LEMMA RowsEntered ==
  ASSUME PInv, Q!IInv
  PROVE  /\ \A i \in SBQ!Indices, r \in SBQ!Rows :
              queue[i].rows[r] # NoRow =>
                queue[i].rows[r] \in State /\ queue[i].rows[r].env \in Entered
         /\ \A n \in DOMAIN ret :
              ret[n] \in State /\ ret[n].env = EnvRet[n] /\ ret[n].env \in Entered
  <1>1. ASSUME NEW i \in SBQ!Indices, NEW r \in SBQ!Rows, queue[i].rows[r] # NoRow
        PROVE  queue[i].rows[r] \in State /\ queue[i].rows[r].env \in Entered
    <2>1. PICK row \in State : row = queue[i].rows[r]
      BY <1>1 DEF PInv, Typed, QueueTyped, PoolBuffer
    <2>2. EnvQueue[i].rows[r] = row.env /\ row.env # NoRow
      BY <1>1, <2>1, QueueView, BufferView, RowEnv
    <2>3. EnvQueue[i].rows[r] \in Entered
      BY <2>2, Shared DEF Q!IInv, Q!Sent
    <2>4. QED BY <2>1, <2>2, <2>3
  <1>2. ASSUME NEW n \in DOMAIN ret
        PROVE  ret[n] \in State /\ ret[n].env = EnvRet[n] /\ ret[n].env \in Entered
    <2>1. rstep \in Collected
      BY <1>2 DEF PInv, Reading
    <2>2. Q!BatchComplete
      BY QueueAssumed, Q!CompleteWithin
    <2>3. EnvRet[n] \in Entered /\ EnvRet[n] = EnvOf(ret[n])
      BY <1>2, <2>1, <2>2 DEF Collected, Q!BatchComplete, EnvRet
    <2>4. EnvRet[n] # NoRow
      BY <2>3, BlankAssumption DEF PInv, Typed, Entered
    <2>5. PICK row \in State \cup {NoRow} : row = ret[n]
      BY <1>2, LenProperties, ElementOfSeq DEF PInv, Typed, QueueTyped
    <2>6. row \in State /\ EnvOf(row) = row.env
      BY <2>3, <2>4, <2>5, RowEnv
    <2>7. QED BY <2>3, <2>5, <2>6
  <1>3. QED BY <1>1, <1>2

(* A worker runs its environment and claims a position in the queue.       *)
LEMMA RunStep ==
  ASSUME PInv, Q!IInv, NEW w \in Workers, Run(w)
  PROVE  PInv' /\ Q!Allocate(w, slice[w].env)
  <1>1. PICK e \in Envs : e = slice[w].env /\ e \in in_flight /\ e # NoRow
    BY BlankAssumption DEF Run, Goto, PInv, Phases, Typed, Single, Names
  <1>2. PICK d \in BOOLEAN :
          /\ wpc[w] = "run" /\ wpc' = [wpc EXCEPT ![w] = "write"]
          /\ current_step' = [current_step EXCEPT ![e] = IF wreset[w] THEN 0 ELSE @ + 1]
          /\ done' = [done EXCEPT ![e] = d]
          /\ UNCHANGED <<actions, slice, wreset, stop, stepping_env_num, clientVars>>
    BY <1>1 DEF Run, Goto
  <1>3. /\ wstep[w] = "idle" /\ wstep' = [wstep EXCEPT ![w] = "count"]
        /\ wenv' = [wenv EXCEPT ![w] = e]
        /\ wpos' = [wpos EXCEPT ![w] = alloc_count]
        /\ alloc_count' = alloc_count + 1
        /\ UNCHANGED <<done_ptr, queue, stock, quit, cstep, wrow, rstep, rpos, radd, ret>>
    BY <1>1 DEF Run, SBQ!ClaimPos, SBQ!MoveWorker, SBQ!stockVars, SBQ!readerVars
  <1>4. UNCHANGED <<in_flight, request, forced, seen>>
    BY <1>2 DEF clientVars
  <1>5. EnvQueue' = EnvQueue /\ EnvRet' = EnvRet
    BY <1>3 DEF EnvQueue, EnvBuffer, EnvRows, EnvRet, EnvOf
  <1>6. /\ wstep \in [Workers -> Q!WorkerSteps]
        /\ wenv \in [Workers -> Envs \cup {NoRow}] /\ wrow \in [Workers -> Nat]
    BY DEF Q!IInv, Q!Layout, Q!TypeOK
  <1>7. /\ wpc'[w] = "write" /\ wstep'[w] = "count" /\ wenv'[w] = e
        /\ \A v \in Workers \ {w} : /\ wpc'[v] = wpc[v] /\ wstep'[v] = wstep[v]
                                    /\ wenv'[v] = wenv[v]
    BY <1>2, <1>3, <1>6 DEF PInv, Typed
  <1>8. Waiting' = Waiting \ {e} /\ e \in Waiting
    <2>1. e \in Waiting
      BY <1>1, <1>2 DEF Waiting
    <2>2. \A i \in DOMAIN actions : actions[i].env # e
      BY <1>1, <1>2 DEF PInv, Single
    <2>3. \A v \in Workers \ {w} : wpc[v] # "dequeue" => slice[v].env # e
      BY <1>1, <1>2 DEF PInv, Single
    <2>4. Waiting' = {actions[i].env : i \in DOMAIN actions}
             \cup {slice[v].env : v \in {u \in Workers : wpc'[u] \in {"check", "run", "exited"}}}
      BY <1>2 DEF Waiting
    <2>5. {u \in Workers : wpc'[u] \in {"check", "run", "exited"}}
             = {u \in Workers : wpc[u] \in {"check", "run", "exited"}} \ {w}
      BY <1>7
    <2>6. ASSUME NEW x \in Waiting' PROVE x \in Waiting \ {e}
      BY <2>2, <2>3, <2>4, <2>5, <2>6 DEF Waiting
    <2>7. ASSUME NEW x \in Waiting, x # e PROVE x \in Waiting'
      BY <1>1, <2>4, <2>5, <2>7 DEF Waiting
    <2>8. QED BY <2>1, <2>6, <2>7
  <1>9. Entered' = Entered \cup {e} /\ e \notin Entered
    BY <1>1, <1>4, <1>8 DEF Entered
  <1>10. Q!Allocate(w, e)
    <2>1. radd > 0 => Q!Cardinality(Entered) + radd < Batch
      <3>1. SUFFICES ASSUME radd > 0 PROVE Q!Cardinality(Entered) + radd < Batch
        OBVIOUS
      <3>2. IsSync /\ radd \in Nat
        BY <3>1, ReaderSlot DEF PInv, Reading
      <3>3. Cardinality(in_flight) \in Nat /\ Cardinality(in_flight) + radd <= Batch
        BY <3>2, RequestBound
      <3>4. IsFiniteSet(in_flight) /\ Entered \subseteq in_flight \ {e}
        BY <1>9, PoolAssumption, FS_Subset DEF PInv, Typed, Entered
      <3>5. IsFiniteSet(in_flight \ {e}) /\ Cardinality(in_flight \ {e}) = Cardinality(in_flight) - 1
        BY <1>1, <3>4, FS_RemoveElement
      <3>6. Cardinality(Entered) \in Nat /\ Cardinality(Entered) <= Cardinality(in_flight) - 1
        BY <3>4, <3>5, FS_Subset, FS_CardinalityType
      <3>7. QED BY <3>2, <3>3, <3>6, SameCardinality, PoolSizes
    <2>2. Q!ClaimPos(w, e)
      BY <1>3, <1>5 DEF Q!ClaimPos, Q!MoveWorker, Q!stockVars, Q!readerVars
    <2>3. rstep \notin {"destroy", "destroyed"}
      BY DEF PInv, Reading
    <2>4. QED BY <1>9, <2>1, <2>2, <2>3 DEF Q!Allocate
  <1>11. Typed'
    <2>1. current_step' \in [Envs -> Int] /\ done' \in [Envs -> BOOLEAN]
      BY <1>2 DEF PInv, Typed
    <2>2. wpc' \in [Workers -> {"dequeue", "check", "run", "write", "exited"}]
      BY <1>2 DEF PInv, Typed
    <2>3. QED BY <1>2, <1>3, <1>4, <2>1, <2>2 DEF PInv, Typed, QueueTyped
  <1>12. Phases'
    <2>1. wrow'[w] = wrow[w] /\ slice'[w] = slice[w]
      BY <1>2, <1>3
    <2>2. QED BY <1>1, <1>2, <1>3, <1>4, <1>7 DEF PInv, Phases
  <1>13. Reading'
    BY <1>3, <1>4 DEF PInv, Reading
  <1>14. \A s : Names(s)' = Names(s)
    BY <1>4 DEF Names
  <1>15. Single'
    <2>1. \A v \in Workers : wpc'[v] # "dequeue" <=> wpc[v] # "dequeue"
      BY <1>2, <1>7
    <2>2. QED BY <1>2, <1>14, <2>1 DEF PInv, Single
  <1>16. Ordered'
    BY <1>2, <1>4 DEF PInv, Ordered
  <1>17. /\ done'[e] = d /\ current_step'[e] = IF wreset[w] THEN 0 ELSE current_step[e] + 1
         /\ \A x \in Envs \ {e} : done'[x] = done[x] /\ current_step'[x] = current_step[x]
    BY <1>2 DEF PInv, Typed
  <1>18. Filled'
    <2>1. ASSUME NEW row \in State, NEW n, row.env \in Entered, Fits(row, n) PROVE Fits(row, n)'
      <3>1. row.env \in Envs \ {e}
        BY <1>9, <2>1 DEF Entered, PInv, Typed
      <3>2. StateOf(row.env)' = StateOf(row.env)
        BY <1>17, <3>1 DEF StateOf
      <3>3. QED BY <1>4, <2>1, <3>2 DEF Fits
    <2>2. \A i \in SBQ!Indices, r \in SBQ!Rows :
            queue[i].rows[r] # NoRow => Fits(queue[i].rows[r], r + 1)'
      BY <1>3, <2>1, RowsEntered DEF PInv, Filled
    <2>3. \A n \in DOMAIN ret : ret[n] # NoRow => Fits(ret[n], n)'
      BY <1>3, <2>1, RowsEntered DEF PInv, Filled
    <2>4. QED BY <1>3, <2>2, <2>3 DEF Filled
  <1>19. History'
    <2>1. \A x : Promise!Following(x)' = Promise!Following(x)
      BY <1>4 DEF Promise!Following
    <2>2. current_step'[e] = Promise!Following(e)
      BY <1>1, <1>2, <1>9, <1>17 DEF PInv, History, Promise!Following, Typed
    <2>3. \A v \in Workers \ {w} : wpc[v] = "run" =>
            done'[slice[v].env] = done[slice[v].env]
      <3>1. \A v \in Workers \ {w} : wpc[v] = "run" => slice[v].env # e /\ slice[v].env \in Envs
        BY <1>1, <1>2 DEF PInv, Single, Phases, Typed, Names
      <3>2. QED BY <1>17, <3>1
    <2>4. \A v \in Workers : wpc'[v] \in {"check", "run"} => v # w /\ wpc'[v] = wpc[v]
      BY <1>7
    <2>5. /\ \A x \in Entered' : current_step'[x] = Promise!Following(x)'
          /\ \A x \in Envs \ Entered' : done'[x] = seen'[x].done /\ current_step'[x] = seen'[x].step
      BY <1>4, <1>9, <1>17, <2>1, <2>2 DEF PInv, History, Entered, Typed
    <2>6. QED BY <1>2, <1>4, <2>3, <2>4, <2>5 DEF PInv, History
  <1>20. QED BY <1>1, <1>10, <1>11, <1>12, <1>13, <1>15, <1>16, <1>18, <1>19 DEF PInv

(* Where the slices of an extended queue come from.                        *)
LEMMA Appended ==
  ASSUME NEW s \in Seq(Slice), NEW new \in Seq(Slice), NEW m \in Nat, Len(new) = m
  PROVE  \E n \in Nat : /\ DOMAIN s = 1 .. n /\ s \o new \in Seq(Slice)
                        /\ DOMAIN (s \o new) = 1 .. n + m
                        /\ \A i \in 1 .. n : i \in DOMAIN (s \o new) /\ (s \o new)[i] = s[i]
                        /\ \A i \in 1 .. n + m : ~(i <= n) =>
                             i - n \in 1 .. m /\ (s \o new)[i] = new[i - n]
                        /\ \A i \in 1 .. m : n + i \in DOMAIN (s \o new) /\ (s \o new)[n + i] = new[i]
  <1>1. PICK n \in Nat : n = Len(s) /\ DOMAIN s = 1 .. n
    BY LenProperties
  <1>2. PICK t \in Seq(Slice) : /\ t = s \o new /\ Len(t) = n + m
                                /\ \A i \in 1 .. n + m : t[i] = IF i <= n THEN s[i] ELSE new[i - n]
    <2>1. /\ s \o new \in Seq(Slice) /\ Len(s \o new) = n + m
          /\ \A i \in 1 .. Len(s) + Len(new) :
               (s \o new)[i] = IF i <= Len(s) THEN s[i] ELSE new[i - Len(s)]
      BY <1>1, ConcatProperties
    <2>2. QED BY <1>1, <2>1
  <1>3. DOMAIN t = 1 .. n + m
    BY <1>2, LenProperties
  <1>4. \A i \in 1 .. n : i \in DOMAIN t /\ t[i] = s[i]
    BY <1>2, <1>3
  <1>5. \A i \in 1 .. n + m : ~(i <= n) => i - n \in 1 .. m /\ t[i] = new[i - n]
    BY <1>2
  <1>6. \A i \in 1 .. m : n + i \in DOMAIN t /\ t[n + i] = new[i]
    <2>1. SUFFICES ASSUME NEW i \in 1 .. m PROVE n + i \in DOMAIN t /\ t[n + i] = new[i]
      OBVIOUS
    <2>2. PICK k \in 1 .. n + m : k = n + i /\ ~(k <= n) /\ k - n = i
      OBVIOUS
    <2>3. t[k] = new[k - n]
      BY <1>5, <2>2
    <2>4. QED BY <1>3, <2>2, <2>3
  <1>7. QED BY <1>1, <1>2, <1>3, <1>4, <1>5, <1>6

(* Send and Reset add the slices of environments that are not in flight.   *)
LEMMA RequestStep ==
  ASSUME PInv, Q!IInv, NEW ids \in IdLists, NEW force \in BOOLEAN, Request(ids, force)
  PROVE  PInv' /\ UNCHANGED Q!vars
  <1>1. PICK m \in Nat : /\ ids \in [1 .. m -> Envs] /\ ids \in Seq(Envs)
                         /\ DOMAIN ids = 1 .. m /\ Len(ids) = m
                         /\ \A i, j \in DOMAIN ids : ids[i] = ids[j] => i = j
    <2>1. PICK m \in 1 .. MaxIds : ids \in [1 .. m -> Envs]
      BY DEF IdLists
    <2>2. m \in Nat
      BY PoolAssumption
    <2>3. ids \in Seq(Envs)
      BY <2>1, <2>2, SeqDef
    <2>4. Len(ids) \in Nat /\ DOMAIN ids = 1 .. m /\ 1 .. Len(ids) = 1 .. m
      BY <2>1, <2>3, LenProperties
    <2>5. Len(ids) = m
      BY <2>2, <2>4
    <2>6. QED BY <2>1, <2>2, <2>3, <2>4, <2>5 DEF IdLists
  <1>2. /\ ~stop /\ IdsOf(ids) \cap in_flight = {}
        /\ IsSync => rstep = "idle" /\ in_flight = {}
        /\ stepping_env_num' = IF IsSync THEN stepping_env_num + Len(ids) ELSE stepping_env_num
        /\ in_flight' = in_flight \cup IdsOf(ids)
        /\ forced' = IF force THEN forced \cup IdsOf(ids) ELSE forced
        /\ request' = ids
        /\ UNCHANGED <<sbqVars, workVars, stop, envVars, seen>>
    BY DEF Request, MayRequest
  <1>3. PICK new \in Seq(Slice) :
          /\ actions' = actions \o new
          /\ Len(new) = m
          /\ \A i \in 1 .. m : new[i] = [env |-> ids[i], order |-> Order(i), force_reset |-> force]
    <2>1. \A i \in 1 .. m : /\ ids[i] \in Envs /\ Order(i) \in Int
      BY <1>1 DEF Order, SBQ!Unordered
    <2>2. \A i \in 1 .. m : [env |-> ids[i], order |-> Order(i), force_reset |-> force] \in Slice
      BY <2>1 DEF Slice
    <2>3. PICK new : new = [i \in 1 .. m |-> [env |-> ids[i], order |-> Order(i), force_reset |-> force]]
      OBVIOUS
    <2>4. new \in [1 .. m -> Slice]
      BY <2>2, <2>3
    <2>5. new \in Seq(Slice)
      BY <2>4, SeqDef
    <2>6. Len(new) \in Nat /\ 1 .. Len(new) = 1 .. m
      BY <2>4, <2>5, LenProperties
    <2>7. Len(new) = m
      BY <2>6
    <2>8. actions' = actions \o new
      BY <1>1, <2>3 DEF Request
    <2>9. QED BY <2>3, <2>5, <2>7, <2>8
  <1>4. PICK n \in Nat : /\ DOMAIN actions = 1 .. n /\ actions' \in Seq(Slice)
                         /\ DOMAIN actions' = 1 .. n + m
                         /\ \A i \in 1 .. n : i \in DOMAIN actions' /\ actions'[i] = actions[i]
                         /\ \A i \in 1 .. n + m : ~(i <= n) =>
                              i - n \in 1 .. m /\ actions'[i] = new[i - n]
                         /\ \A i \in 1 .. m : n + i \in DOMAIN actions' /\ actions'[n + i] = new[i]
    <2>1. actions \in Seq(Slice)
      BY DEF PInv, Typed
    <2>2. \E n \in Nat : /\ DOMAIN actions = 1 .. n /\ actions \o new \in Seq(Slice)
                         /\ DOMAIN (actions \o new) = 1 .. n + m
                         /\ \A i \in 1 .. n : i \in DOMAIN (actions \o new) /\ (actions \o new)[i] = actions[i]
                         /\ \A i \in 1 .. n + m : ~(i <= n) =>
                              i - n \in 1 .. m /\ (actions \o new)[i] = new[i - n]
                         /\ \A i \in 1 .. m : n + i \in DOMAIN (actions \o new) /\ (actions \o new)[n + i] = new[i]
      BY <1>3, <2>1, Appended, Zenon
    <2>3. QED BY <1>3, <2>2
  <1>5. \A i \in 1 .. m : /\ ids[i] \in Envs /\ ids[i] # NoRow /\ ids[i] \in IdsOf(ids)
                          /\ ids[i] \notin in_flight /\ ids[i] \in in_flight'
    BY <1>1, <1>2, BlankAssumption DEF IdsOf
  <1>6. \A i \in DOMAIN actions' :
          \/ i \in DOMAIN actions /\ actions'[i] = actions[i]
          \/ \E k \in 1 .. m : /\ i = n + k /\ actions'[i].env = ids[k]
                               /\ actions'[i].order = Order(k) /\ actions'[i].force_reset = force
    <2>1. SUFFICES ASSUME NEW i \in 1 .. n + m
                   PROVE  \/ i \in DOMAIN actions /\ actions'[i] = actions[i]
                          \/ \E k \in 1 .. m : /\ i = n + k /\ actions'[i].env = ids[k]
                                               /\ actions'[i].order = Order(k)
                                               /\ actions'[i].force_reset = force
      BY <1>4
    <2>2. i <= n => i \in DOMAIN actions /\ actions'[i] = actions[i]
      BY <1>4
    <2>3. ASSUME ~(i <= n)
          PROVE  \E k \in 1 .. m : /\ i = n + k /\ actions'[i].env = ids[k]
                                   /\ actions'[i].order = Order(k)
                                   /\ actions'[i].force_reset = force
      <3>1. PICK k \in 1 .. m : k = i - n /\ i = n + k
        BY <2>3
      <3>2. actions'[i] = new[k]
        BY <1>4, <2>3, <3>1
      <3>3. new[k].env = ids[k] /\ new[k].order = Order(k) /\ new[k].force_reset = force
        BY <1>3
      <3>4. QED BY <3>1, <3>2, <3>3
    <2>4. QED BY <2>2, <2>3
  <1>7. UNCHANGED <<wpc, slice, wreset, done, current_step, wstep, wenv, wrow, queue,
                    rstep, radd, ret>>
    BY <1>2 DEF workVars, envVars, sbqVars
  <1>8. Typed'
    <2>1. IdsOf(ids) \subseteq Envs
      BY <1>1 DEF IdsOf
    <2>2. in_flight' \subseteq Envs /\ forced' \subseteq in_flight'
      BY <1>2, <2>1 DEF PInv, Typed
    <2>3. stepping_env_num' \in Nat
      BY <1>1, <1>2 DEF PInv, Typed
    <2>4. QED BY <1>1, <1>2, <1>4, <1>7, <2>2, <2>3 DEF PInv, Typed, QueueTyped
  <1>9. Phases'
    BY <1>7 DEF PInv, Phases
  <1>10. Reading'
    BY <1>2, <1>7 DEF PInv, Reading
  (* In synchronous mode nothing else is in flight. *)
  <1>11. ASSUME NEW s, Names(s) PROVE Names(s)' /\ s.env \in in_flight /\ s.env \notin IdsOf(ids)
    BY <1>2, <1>11 DEF Names
  <1>12. ASSUME NEW s, NEW k \in 1 .. m, s.env = ids[k], s.order = Order(k)
         PROVE  Names(s)'
    <2>1. s.env \in in_flight'
      BY <1>5, <1>12
    <2>2. IsSync => s.order + 1 = k
      <3>1. k - 1 + 1 = k
        OBVIOUS
      <3>2. QED BY <1>12, <3>1 DEF Order
    <2>3. ~IsSync => s.order = SBQ!Unordered
      BY <1>12 DEF Order
    <2>4. QED BY <1>1, <1>2, <1>12, <2>1, <2>2, <2>3 DEF Names
  <1>13. \A i \in DOMAIN actions : actions[i].env # NoRow /\ Names(actions[i])
    BY <1>2 DEF PInv, Single
  <1>14. \A v \in Workers : wpc[v] # "dequeue" => slice[v].env # NoRow /\ Names(slice[v])
    BY <1>2 DEF PInv, Single
  <1>15. Single'
    <2>1. ASSUME NEW i \in DOMAIN actions'
          PROVE  actions'[i].env # NoRow /\ Names(actions[i])'
      <3>1. CASE i \in DOMAIN actions /\ actions'[i] = actions[i]
        BY <1>11, <1>13, <3>1
      <3>2. CASE ~(i \in DOMAIN actions /\ actions'[i] = actions[i])
        <4>1. PICK k \in 1 .. m : actions'[i].env = ids[k] /\ actions'[i].order = Order(k)
          BY <1>6, <3>2
        <4>2. QED BY <1>5, <1>12, <4>1
      <3>3. QED BY <3>1, <3>2
    <2>2. ASSUME NEW i \in DOMAIN actions', NEW j \in DOMAIN actions',
                 actions'[j].env = actions'[i].env
          PROVE  j = i
      <3>1. ASSUME NEW k \in DOMAIN actions PROVE actions[k].env \notin IdsOf(ids)
        BY <1>11, <1>13
      <3>2. CASE i \in DOMAIN actions /\ actions'[i] = actions[i]
        <4>1. j \in DOMAIN actions /\ actions'[j] = actions[j]
          BY <1>5, <1>6, <2>2, <3>1, <3>2
        <4>2. QED BY <1>13, <2>2, <3>2, <4>1 DEF PInv, Single
      <3>3. CASE ~(i \in DOMAIN actions /\ actions'[i] = actions[i])
        <4>1. PICK k \in 1 .. m : i = n + k /\ actions'[i].env = ids[k]
          BY <1>6, <3>3
        <4>2. ~(j \in DOMAIN actions /\ actions'[j] = actions[j])
          BY <1>5, <2>2, <3>1, <4>1
        <4>3. PICK l \in 1 .. m : j = n + l /\ actions'[j].env = ids[l]
          BY <1>6, <4>2
        <4>4. k = l
          BY <1>1, <2>2, <4>1, <4>3
        <4>5. QED BY <4>1, <4>3, <4>4
      <3>4. QED BY <3>2, <3>3
    <2>3. ASSUME NEW v \in Workers, wpc'[v] # "dequeue"
          PROVE  /\ slice'[v].env # NoRow /\ Names(slice[v])'
                 /\ \A u \in Workers :
                      wpc'[u] # "dequeue" /\ slice'[u].env = slice'[v].env => u = v
      BY <1>7, <1>11, <1>14, <2>3 DEF PInv, Single
    <2>4. ASSUME NEW v \in Workers, wpc'[v] # "dequeue", NEW i \in DOMAIN actions'
          PROVE  actions'[i].env # slice'[v].env
      <3>1. slice[v].env \notin IdsOf(ids)
        BY <1>7, <1>11, <1>14, <2>4
      <3>2. CASE i \in DOMAIN actions /\ actions'[i] = actions[i]
        BY <1>7, <1>14, <2>4, <3>2 DEF PInv, Single
      <3>3. CASE ~(i \in DOMAIN actions /\ actions'[i] = actions[i])
        BY <1>5, <1>6, <1>7, <3>1, <3>3
      <3>4. QED BY <3>2, <3>3
    <2>5. QED BY <2>1, <2>2, <2>3, <2>4 DEF Single
  <1>16. Ordered'
    <2>1. IsSync => stepping_env_num = 0 /\ in_flight' = IdsOf(ids)
      <3>1. IsSync => Cardinality(in_flight) = 0
        BY <1>2, FS_EmptySet
      <3>2. QED BY <1>2, <3>1, RequestBound DEF PInv, Ordered
    <2>2. QED BY <1>1, <1>2, <2>1 DEF PInv, Ordered
  <1>17. Filled'
    <2>1. IsSync => Entered = {}
      BY <1>2 DEF Entered
    <2>2. ASSUME NEW row \in State, NEW k, row.env \in Entered, Fits(row, k) PROVE Fits(row, k)'
      BY <1>7, <2>1, <2>2 DEF Fits, StateOf
    <2>3. \A i \in SBQ!Indices, r \in SBQ!Rows :
            queue[i].rows[r] # NoRow => Fits(queue[i].rows[r], r + 1)'
      BY <1>7, <2>2, RowsEntered DEF PInv, Filled
    <2>4. \A k \in DOMAIN ret : ret[k] # NoRow => Fits(ret[k], k)'
      BY <1>7, <2>2, RowsEntered DEF PInv, Filled
    <2>5. QED BY <1>7, <2>3, <2>4 DEF Filled
  <1>18. Entered' = Entered
    <2>1. Waiting' = Waiting \cup IdsOf(ids)
      <3>1. \A i \in DOMAIN actions : i \in DOMAIN actions' /\ actions'[i] = actions[i]
        BY <1>4
      <3>2. \A k \in 1 .. m : n + k \in DOMAIN actions' /\ actions'[n + k].env = ids[k]
        BY <1>3, <1>4
      <3>3. ASSUME NEW x \in Waiting PROVE x \in Waiting'
        BY <1>7, <3>1 DEF Waiting
      <3>4. ASSUME NEW x \in IdsOf(ids) PROVE x \in Waiting'
        BY <1>1, <3>2 DEF Waiting, IdsOf
      <3>5. ASSUME NEW x \in Waiting' PROVE x \in Waiting \cup IdsOf(ids)
        <4>1. CASE \E i \in DOMAIN actions' : x = actions'[i].env
          BY <1>5, <1>6, <4>1 DEF Waiting
        <4>2. CASE \E v \in Workers : wpc[v] \in {"check", "run", "exited"} /\ x = slice[v].env
          BY <4>2 DEF Waiting
        <4>3. QED BY <1>7, <4>1, <4>2 DEF Waiting
      <3>6. QED BY <3>3, <3>4, <3>5
    <2>2. QED BY <1>2, <2>1 DEF Entered
  <1>19. History'
    <2>1. \A x \in in_flight : x \in forced' <=> x \in forced
      BY <1>2
    <2>2. \A x \in Entered : Promise!Following(x)' = Promise!Following(x)
      BY <1>2, <2>1 DEF Entered, Promise!Following
    <2>3. ASSUME NEW i \in DOMAIN actions', actions'[i].env # NoRow
          PROVE  actions'[i].force_reset <=> actions'[i].env \in forced'
      <3>1. CASE i \in DOMAIN actions /\ actions'[i] = actions[i]
        BY <1>11, <1>13, <2>1, <3>1 DEF PInv, History
      <3>2. CASE ~(i \in DOMAIN actions /\ actions'[i] = actions[i])
        <4>1. PICK k \in 1 .. m : actions'[i].env = ids[k] /\ actions'[i].force_reset = force
          BY <1>6, <3>2
        <4>2. ids[k] \in forced' <=> force
          BY <1>2, <1>5 DEF PInv, Typed
        <4>3. QED BY <4>1, <4>2
      <3>3. QED BY <3>1, <3>2
    <2>4. \A v \in Workers : wpc[v] # "dequeue" =>
            (slice[v].env \in forced' <=> slice[v].env \in forced)
      BY <1>11, <1>14, <2>1
    <2>5. QED BY <1>2, <1>7, <1>18, <2>2, <2>3, <2>4 DEF PInv, History
  <1>20. UNCHANGED Q!vars
    <2>1. EnvQueue' = EnvQueue /\ EnvRet' = EnvRet
      BY <1>7 DEF EnvQueue, EnvBuffer, EnvRows, EnvRet, EnvOf
    <2>2. QED BY <1>2, <1>18, <2>1 DEF sbqVars, Q!vars, Q!bufferVars, Q!stockVars, Q!workerVars,
                 Q!readerVars
  <1>21. QED BY <1>8, <1>9, <1>10, <1>15, <1>16, <1>17, <1>19, <1>20 DEF PInv

(* The destructor adds empty slices, which are for no environment.         *)
LEMMA DestroyStep ==
  ASSUME PInv, Destroy
  PROVE  PInv' /\ UNCHANGED Q!vars
  <1>1. /\ ~stop /\ rstep = "idle" /\ stop'
        /\ actions' = actions \o [i \in 1 .. Cardinality(Workers) |-> EmptySlice]
        /\ UNCHANGED <<sbqVars, workVars, stepping_env_num, envVars, clientVars>>
    BY DEF Destroy
  <1>2. PICK m \in Nat : m = Cardinality(Workers)
    BY PoolAssumption, FS_CardinalityType
  <1>3. PICK new \in Seq(Slice) : /\ actions' = actions \o new /\ Len(new) = m
                                  /\ \A i \in 1 .. m : new[i].env = NoRow
    <2>1. EmptySlice \in Slice /\ EmptySlice.env = NoRow
      BY DEF EmptySlice, Slice
    <2>2. PICK new : new = [i \in 1 .. m |-> EmptySlice]
      OBVIOUS
    <2>3. new \in [1 .. m -> Slice]
      BY <2>1, <2>2
    <2>4. new \in Seq(Slice)
      BY <2>3, SeqDef
    <2>5. Len(new) \in Nat /\ 1 .. Len(new) = 1 .. m
      BY <2>3, <2>4, LenProperties
    <2>6. Len(new) = m
      BY <2>5
    <2>7. QED BY <1>1, <1>2, <2>1, <2>2, <2>4, <2>6
  <1>4. PICK n \in Nat : /\ DOMAIN actions = 1 .. n /\ actions' \in Seq(Slice)
                         /\ DOMAIN actions' = 1 .. n + m
                         /\ \A i \in 1 .. n : i \in DOMAIN actions' /\ actions'[i] = actions[i]
                         /\ \A i \in 1 .. n + m : ~(i <= n) =>
                              i - n \in 1 .. m /\ actions'[i] = new[i - n]
    <2>1. actions \in Seq(Slice)
      BY DEF PInv, Typed
    <2>2. \E n \in Nat : /\ DOMAIN actions = 1 .. n /\ actions \o new \in Seq(Slice)
                         /\ DOMAIN (actions \o new) = 1 .. n + m
                         /\ \A i \in 1 .. n : i \in DOMAIN (actions \o new) /\ (actions \o new)[i] = actions[i]
                         /\ \A i \in 1 .. n + m : ~(i <= n) =>
                              i - n \in 1 .. m /\ (actions \o new)[i] = new[i - n]
                         /\ \A i \in 1 .. m : n + i \in DOMAIN (actions \o new) /\ (actions \o new)[n + i] = new[i]
      BY <1>3, <2>1, Appended, Zenon
    <2>3. QED BY <1>3, <2>2
  <1>5. \A i \in DOMAIN actions' :
          \/ i \in DOMAIN actions /\ actions'[i] = actions[i]
          \/ i \notin DOMAIN actions /\ actions'[i].env = NoRow
    <2>1. SUFFICES ASSUME NEW i \in 1 .. n + m
                   PROVE  \/ i \in DOMAIN actions /\ actions'[i] = actions[i]
                          \/ i \notin DOMAIN actions /\ actions'[i].env = NoRow
      BY <1>4
    <2>2. i <= n => i \in DOMAIN actions /\ actions'[i] = actions[i]
      BY <1>4
    <2>3. ~(i <= n) => i \notin DOMAIN actions /\ actions'[i].env = NoRow
      BY <1>3, <1>4
    <2>4. QED BY <2>2, <2>3
  <1>6. /\ UNCHANGED <<wpc, slice, wreset, done, current_step, wstep, wenv, wrow>>
        /\ UNCHANGED <<in_flight, request, forced, seen, stepping_env_num>>
    BY <1>1 DEF workVars, envVars, clientVars, sbqVars
  <1>7. Waiting' \subseteq Waiting \cup {NoRow} /\ Waiting \subseteq Waiting'
    <2>1. \A i \in DOMAIN actions : i \in DOMAIN actions' /\ actions'[i] = actions[i]
      BY <1>4
    <2>2. Waiting \subseteq Waiting'
      BY <1>6, <2>1 DEF Waiting
    <2>3. Waiting' \subseteq Waiting \cup {NoRow}
      BY <1>5, <1>6 DEF Waiting
    <2>4. QED BY <2>2, <2>3
  <1>8. Entered' = Entered
    <2>1. NoRow \notin in_flight
      BY BlankAssumption DEF PInv, Typed
    <2>2. QED BY <1>6, <1>7, <2>1 DEF Entered
  <1>9. QueueTyped' /\ Reading' /\ Filled' /\ UNCHANGED Q!vars
    BY <1>1, <1>6, <1>8, OutsideStep
  <1>10. Typed'
    BY <1>1, <1>4, <1>6, <1>9 DEF PInv, Typed
  <1>11. Phases'
    BY <1>6 DEF PInv, Phases
  <1>12. \A s : Names(s)' = Names(s)
    BY <1>6 DEF Names
  <1>13. Single'
    <2>1. ASSUME NEW i \in DOMAIN actions'
          PROVE  /\ actions'[i].env # NoRow => Names(actions'[i])
                 /\ \A j \in DOMAIN actions' :
                      actions'[j].env = actions'[i].env => j = i \/ actions'[i].env = NoRow
      BY <1>5 DEF PInv, Single
    <2>2. ASSUME NEW v \in Workers, wpc'[v] # "dequeue"
          PROVE  /\ slice'[v].env # NoRow => Names(slice'[v])
                 /\ \A u \in Workers :
                      wpc'[u] # "dequeue" /\ slice'[u].env = slice'[v].env
                        => u = v \/ slice'[v].env = NoRow
                 /\ \A i \in DOMAIN actions' :
                      actions'[i].env = slice'[v].env => slice'[v].env = NoRow
      BY <1>5, <1>6, <2>2 DEF PInv, Single
    <2>3. QED BY <1>1, <1>12, <2>1, <2>2 DEF Single
  <1>14. Ordered'
    BY <1>6 DEF PInv, Ordered
  <1>15. History'
    <2>1. \A i \in DOMAIN actions' : actions'[i].env # NoRow =>
            (actions'[i].force_reset <=> actions'[i].env \in forced)
      BY <1>5 DEF PInv, History
    <2>2. QED BY <1>6, <1>8, <2>1 DEF PInv, History, Promise!Following
  <1>16. QED BY <1>9, <1>10, <1>11, <1>13, <1>14, <1>15 DEF PInv

(* What Wait has collected when it returns: as many environments as rows,  *)
(* in synchronous mode all those requested, which nobody else works on.    *)
LEMMA ReceivedFacts ==
  ASSUME PInv, Q!IInv, rstep = "return"
  PROVE  /\ Received \subseteq Entered /\ Received \subseteq in_flight /\ in_flight \subseteq Envs
         /\ Received = {EnvRet[n] : n \in DOMAIN EnvRet}
         /\ Len(ret) \in Nat /\ DOMAIN ret = 1 .. Len(ret)
         /\ Len(ret) = Batch - radd
         /\ Cardinality(Received) = Len(ret)
         /\ \A i, j \in DOMAIN ret : ret[i].env = ret[j].env => i = j
         /\ IsSync => Received = in_flight /\ Len(ret) = Len(request)
         /\ \A w \in Workers : wpc[w] = "write" => slice[w].env \notin Received
         /\ \A i \in SBQ!Indices, r \in SBQ!Rows :
              queue[i].rows[r] # NoRow => queue[i].rows[r].env \notin Received
  <1>1. \A n \in DOMAIN ret : ret[n] \in State /\ ret[n].env = EnvRet[n] /\ ret[n].env \in Entered
    BY RowsEntered
  <1>2. DOMAIN EnvRet = DOMAIN ret
    BY DEF EnvRet
  <1>3. Received = {EnvRet[n] : n \in DOMAIN EnvRet}
    BY <1>1, <1>2 DEF Received
  <1>4. Received \subseteq Entered /\ Entered \subseteq in_flight /\ in_flight \subseteq Envs
    BY <1>1 DEF Received, Entered, PInv, Typed
  <1>5. /\ DOMAIN EnvRet = 1 .. Batch - radd
        /\ \A n, m \in 1 .. Batch - radd : EnvRet[m] = EnvRet[n] => m = n
        /\ \A n \in 1 .. Batch - radd : \A i \in Q!Indices, r \in Q!Rows :
             EnvQueue[i].rows[r] # EnvRet[n]
    BY DEF Q!IInv, Q!Taken
  <1>6. Len(ret) \in Nat /\ DOMAIN ret = 1 .. Len(ret)
    BY LenProperties DEF PInv, Typed, QueueTyped
  <1>7. \A i, j \in DOMAIN ret : ret[i].env = ret[j].env => i = j
    BY <1>1, <1>2, <1>5
  <1>8. EnvRet \in Seq(Envs) /\ Len(EnvRet) = Len(ret)
    <2>1. \A n \in 1 .. Len(ret) : EnvRet[n] \in Envs
      BY <1>1, <1>4, <1>6
    <2>2. EnvRet = [n \in 1 .. Len(ret) |-> EnvRet[n]]
      BY <1>6 DEF EnvRet
    <2>3. EnvRet \in [1 .. Len(ret) -> Envs]
      BY <2>1, <2>2
    <2>4. EnvRet \in Seq(Envs)
      BY <1>6, <2>3, SeqDef
    <2>5. Len(EnvRet) \in Nat /\ 1 .. Len(EnvRet) = 1 .. Len(ret)
      BY <2>3, <2>4, LenProperties
    <2>6. Len(EnvRet) = Len(ret)
      BY <1>6, <2>5
    <2>7. QED BY <2>4, <2>6
  <1>9. Cardinality(Received) = Len(ret) /\ IsFiniteSet(Received)
    <2>1. \A i, j \in DOMAIN EnvRet : EnvRet[i] = EnvRet[j] => i = j
      BY <1>5
    <2>2. Received = IdsOf(EnvRet)
      BY <1>3 DEF IdsOf
    <2>3. QED BY <1>8, <2>1, <2>2, IdsCount
  <1>10. radd \in Nat /\ Batch - radd \in Nat
    <2>1. radd \in Nat /\ (radd > 0 => IsSync)
      BY Shared DEF Q!IInv, Q!Layout, Q!TypeOK, Q!Reader, Q!MadeUp
    <2>2. IsSync => radd <= Batch
      BY RequestBound, PoolSizes
    <2>3. QED BY <2>1, <2>2, PoolSizes
  <1>11. Len(ret) = Batch - radd
    <2>1. 1 .. Len(ret) = 1 .. Batch - radd
      BY <1>2, <1>5, <1>6
    <2>2. QED BY <1>6, <1>10, <2>1
  <1>12. IsSync => Received = in_flight /\ Len(ret) = Len(request)
    <2>1. SUFFICES ASSUME IsSync PROVE Received = in_flight /\ Len(ret) = Len(request)
      OBVIOUS
    <2>2. Len(ret) = Len(request) /\ Cardinality(in_flight) = Len(request)
      BY <1>10, <1>11, <2>1, RequestBound, PoolSizes
    <2>3. IsFiniteSet(in_flight)
      BY <1>4, PoolAssumption, FS_Subset
    <2>4. Received = in_flight
      BY <1>4, <1>9, <2>2, <2>3, FS_Subset
    <2>5. QED BY <2>2, <2>4
  <1>13. ASSUME NEW w \in Workers, wpc[w] = "write" PROVE slice[w].env \notin Received
    <2>1. wstep[w] # "idle" /\ wenv[w] = slice[w].env
      BY <1>13 DEF PInv, Phases
    <2>2. \A n \in DOMAIN EnvRet : EnvRet[n] # slice[w].env
      BY <2>1, QueueAssumed, Q!WorkerInFlight
    <2>3. QED BY <1>3, <2>2
  <1>14. ASSUME NEW i \in SBQ!Indices, NEW r \in SBQ!Rows, queue[i].rows[r] # NoRow
         PROVE  queue[i].rows[r].env \notin Received
    <2>1. PICK row \in State : row = queue[i].rows[r]
      BY <1>14 DEF PInv, Typed, QueueTyped, PoolBuffer
    <2>2. EnvQueue[i].rows[r] = row.env
      BY <1>14, <2>1, QueueView, BufferView, RowEnv
    <2>3. \A n \in DOMAIN EnvRet : EnvRet[n] # row.env
      BY <1>5, <2>2, Shared
    <2>4. QED BY <1>3, <2>1, <2>3
  <1>15. QED BY <1>3, <1>4, <1>6, <1>7, <1>9, <1>11, <1>12, <1>13, <1>14

(* What the client learns of an environment is its present state.          *)
LEMMA SeenAfter ==
  ASSUME PInv, Q!IInv, ReturnRecv
  PROVE  seen' = [e \in Envs |-> IF e \in Received
                                 THEN [done |-> done[e], step |-> current_step[e]]
                                 ELSE seen[e]]
  <1>1. \A n \in DOMAIN ret : ret[n] = StateOf(ret[n].env)
    <2>1. \A n \in DOMAIN ret : ret[n] \in State /\ ret[n] # NoRow
      BY RowsEntered, BlankAssumption
    <2>2. QED BY <2>1 DEF PInv, Filled, Fits
  <1>2. ASSUME NEW e \in Received, NEW k, k = CHOOSE i \in DOMAIN ret : ret[i].env = e
        PROVE  ret[k].done = done[e] /\ ret[k].step = current_step[e]
    <2>1. \E i \in DOMAIN ret : ret[i].env = e
      BY DEF Received
    <2>2. k \in DOMAIN ret /\ ret[k].env = e
      BY <1>2, <2>1
    <2>3. ret[k] = StateOf(e)
      BY <1>1, <2>2
    <2>4. QED BY <2>3 DEF StateOf
  <1>3. QED BY <1>2 DEF ReturnRecv

(* The client receives the batch.                                          *)
LEMMA ReturnRecvStep ==
  ASSUME PInv, Q!IInv, ReturnRecv
  PROVE  PInv' /\ Q!Received
  <1>1. /\ rstep = "return" /\ rstep' = "idle" /\ rpos' = 0 /\ radd' = 0 /\ ret' = <<>>
        /\ UNCHANGED <<alloc_count, done_ptr, queue, stock, quit, cstep, wstep, wenv, wpos, wrow>>
        /\ stepping_env_num' = IF IsSync THEN stepping_env_num - Len(ret) ELSE stepping_env_num
        /\ in_flight' = in_flight \ Received /\ forced' = forced \ Received /\ request' = <<>>
        /\ UNCHANGED <<actions, wpc, slice, wreset, stop, done, current_step>>
    BY DEF ReturnRecv, SBQ!ReturnWait, SBQ!MoveReader, SBQ!bufferVars, SBQ!stockVars,
       SBQ!workerVars, workVars, envVars
  <1>2. /\ Received \subseteq Entered /\ Received \subseteq in_flight /\ in_flight \subseteq Envs
        /\ Received = {EnvRet[n] : n \in DOMAIN EnvRet} /\ Len(ret) \in Nat
        /\ IsSync => Received = in_flight /\ Len(ret) = Len(request)
        /\ \A w \in Workers : wpc[w] = "write" => slice[w].env \notin Received
        /\ \A i \in SBQ!Indices, r \in SBQ!Rows :
             queue[i].rows[r] # NoRow => queue[i].rows[r].env \notin Received
    BY <1>1, ReceivedFacts
  <1>3. seen' = [e \in Envs |-> IF e \in Received
                                THEN [done |-> done[e], step |-> current_step[e]]
                                ELSE seen[e]]
    BY SeenAfter
  <1>4. Waiting' = Waiting /\ Entered' = Entered \ Received
    <2>1. Waiting' = Waiting
      BY <1>1 DEF Waiting
    <2>2. QED BY <1>1, <2>1 DEF Entered
  <1>5. EnvQueue' = EnvQueue /\ EnvRet' = <<>>
    <2>1. DOMAIN ret' = {}
      BY <1>1, EmptySeq, LenProperties
    <2>2. EnvRet' = [n \in {} |-> EnvOf(ret'[n])]
      BY <2>1 DEF EnvRet, EnvOf
    <2>3. QED BY <1>1, <2>2 DEF EnvQueue, EnvBuffer, EnvRows, EnvOf
  <1>6. Q!Received
    BY <1>1, <1>2, <1>4, <1>5 DEF Q!Received, Q!ReturnWait, Q!MoveReader, Q!bufferVars,
       Q!stockVars, Q!workerVars
  <1>7. /\ DOMAIN ret' = {} /\ ret' \in Seq(State \cup {NoRow}) /\ request' \in Seq(Envs)
        /\ Len(request') = 0 /\ DOMAIN request' = {} /\ IdsOf(request') = {}
    <2>1. request' \in Seq(Envs) /\ Len(request') = 0 /\ DOMAIN request' = {}
      BY <1>1, EmptySeq, LenProperties
    <2>2. DOMAIN ret' = {} /\ ret' \in Seq(State \cup {NoRow})
      BY <1>1, EmptySeq, LenProperties
    <2>3. QED BY <2>1, <2>2 DEF IdsOf
  <1>8. stepping_env_num' = 0
    BY <1>1, <1>2 DEF PInv, Ordered, Typed
  <1>9. Typed'
    <2>1. \A e \in Envs : seen'[e] \in [done: BOOLEAN, step: Int]
      BY <1>3 DEF PInv, Typed
    <2>2. seen' \in [Envs -> [done: BOOLEAN, step: Int]]
      BY <1>3, <2>1
    <2>3. in_flight' \subseteq Envs /\ forced' \subseteq in_flight'
      BY <1>1, <1>2 DEF PInv, Typed
    <2>4. QED BY <1>1, <1>7, <1>8, <2>2, <2>3 DEF PInv, Typed, QueueTyped
  <1>10. Phases'
    BY <1>1 DEF PInv, Phases
  <1>11. Reading'
    BY <1>1, <1>7 DEF Reading, Collected
  <1>12. ASSUME NEW s, Names(s), s.env \notin Received PROVE Names(s)'
    BY <1>1, <1>2, <1>12 DEF Names
  <1>13. \A i \in DOMAIN actions : actions[i].env \notin Received
    BY <1>2 DEF Waiting, Entered
  <1>14. \A v \in Workers : wpc[v] # "dequeue" => slice[v].env \notin Received
    <2>1. SUFFICES ASSUME NEW v \in Workers, wpc[v] \in {"check", "run", "exited"}
                   PROVE  slice[v].env \notin Received
      BY <1>2 DEF PInv, Typed
    <2>2. slice[v].env \in Waiting
      BY <2>1 DEF Waiting
    <2>3. QED BY <1>2, <2>2 DEF Entered
  <1>15. Single'
    BY <1>1, <1>12, <1>13, <1>14 DEF PInv, Single
  <1>16. Ordered'
    BY <1>1, <1>2, <1>7, <1>8 DEF Ordered
  <1>17. Filled'
    <2>1. ASSUME NEW i \in SBQ!Indices, NEW r \in SBQ!Rows, queue[i].rows[r] # NoRow
          PROVE  Fits(queue[i].rows[r], r + 1)'
      <3>1. queue[i].rows[r].env \in in_flight /\ queue[i].rows[r].env \notin Received
        BY <1>2, <2>1, RowsEntered DEF Entered
      <3>2. ~IsSync
        BY <1>2, <3>1
      <3>3. queue[i].rows[r] = StateOf(queue[i].rows[r].env)
        BY <2>1 DEF PInv, Filled, Fits
      <3>4. QED BY <1>1, <3>2, <3>3 DEF Fits, StateOf
    <2>2. QED BY <1>1, <1>7, <2>1 DEF Filled
  <1>18. History'
    <2>1. ASSUME NEW e \in Entered' PROVE current_step'[e] = Promise!Following(e)'
      <3>1. e \in Entered /\ e \notin Received /\ e \in Envs
        BY <1>2, <1>4 DEF Entered
      <3>2. seen'[e] = seen[e] /\ (e \in forced' <=> e \in forced)
        BY <1>1, <1>3, <3>1
      <3>3. current_step[e] = Promise!Following(e)
        BY <3>1 DEF PInv, History
      <3>4. QED BY <1>1, <3>2, <3>3 DEF Promise!Following
    <2>2. ASSUME NEW e \in Envs, e \notin Entered'
          PROVE  done'[e] = seen'[e].done /\ current_step'[e] = seen'[e].step
      <3>1. CASE e \in Received
        BY <1>1, <1>3, <3>1
      <3>2. CASE e \notin Received
        <4>1. e \notin Entered /\ seen'[e] = seen[e]
          BY <1>3, <1>4, <2>2, <3>2
        <4>2. QED BY <1>1, <4>1 DEF PInv, History
      <3>3. QED BY <3>1, <3>2
    <2>3. \A i \in DOMAIN actions : actions[i].env # NoRow =>
            (actions[i].force_reset <=> actions[i].env \in forced')
      BY <1>1, <1>13 DEF PInv, History
    <2>4. \A v \in Workers :
            /\ wpc[v] = "check" /\ slice[v].env # NoRow =>
                 (slice[v].force_reset <=> slice[v].env \in forced')
            /\ wpc[v] = "run" => (wreset[v] <=> slice[v].env \in forced' \/ done[slice[v].env])
      BY <1>1, <1>14 DEF PInv, History
    <2>5. QED BY <1>1, <2>1, <2>2, <2>3, <2>4 DEF History
  <1>19. QED BY <1>6, <1>9, <1>10, <1>11, <1>15, <1>16, <1>17, <1>18 DEF PInv

-----------------------------------------------------------------------------
(* The pool at its construction.                                           *)
LEMMA InitPInv == Init => PInv /\ Q!Init
  <1>1. SUFFICES ASSUME Init PROVE PInv /\ Q!Init
    OBVIOUS
  <1>2. /\ SBQ!Init /\ actions = <<>> /\ in_flight = {} /\ request = <<>> /\ forced = {}
        /\ wpc = [w \in Workers |-> "dequeue"] /\ slice = [w \in Workers |-> EmptySlice]
        /\ wreset = [w \in Workers |-> FALSE] /\ stop = FALSE /\ stepping_env_num = 0
        /\ done = [e \in Envs |-> TRUE] /\ current_step = [e \in Envs |-> -1]
        /\ seen = [e \in Envs |-> [done |-> TRUE, step |-> -1]]
    BY <1>1, Zenon DEF Init, SBQ!Init
  <1>3. /\ alloc_count = 0 /\ done_ptr = 0 /\ queue = [i \in SBQ!Indices |-> SBQ!NewBuffer(i)]
        /\ stock = 0 /\ quit = FALSE /\ cstep = [c \in Creators |-> "put"]
        /\ wstep = [w \in Workers |-> "idle"] /\ wenv = [w \in Workers |-> NoRow]
        /\ wpos = [w \in Workers |-> 0] /\ wrow = [w \in Workers |-> 0]
        /\ rstep = "idle" /\ rpos = 0 /\ radd = 0 /\ ret = <<>>
    BY <1>2 DEF SBQ!Init
  <1>4. /\ DOMAIN actions = {} /\ actions \in Seq(Slice) /\ DOMAIN ret = {}
        /\ ret \in Seq(State \cup {NoRow}) /\ request \in Seq(Envs) /\ DOMAIN request = {}
        /\ Len(request) = 0 /\ IdsOf(request) = {}
    <2>1. /\ <<>> \in Seq(Slice) /\ <<>> \in Seq(State \cup {NoRow}) /\ <<>> \in Seq(Envs)
          /\ Len(<<>>) = 0 /\ DOMAIN <<>> = {}
      BY EmptySeq, LenProperties
    <2>2. QED BY <1>2, <1>3, <2>1 DEF IdsOf
  <1>5. \A i \in SBQ!Indices : i \in Nat
    BY DEF SBQ!Indices
  <1>6. EnvQueue = [i \in Q!Indices |-> Q!NewBuffer(i)]
    BY <1>3, <1>5, FreshView, Shared DEF EnvQueue
  <1>7. EnvRet = <<>>
    BY <1>3, <1>4 DEF EnvRet
  <1>8. Entered = {}
    BY <1>2 DEF Entered
  <1>9. Q!Init
    BY <1>3, <1>6, <1>7, <1>8 DEF Q!Init
  <1>10. Typed
    <2>1. queue \in [SBQ!Indices -> PoolBuffer]
      BY <1>3, <1>5, FreshView
    <2>2. /\ slice \in [Workers -> Slice] /\ seen \in [Envs -> [done: BOOLEAN, step: Int]]
          /\ current_step \in [Envs -> Int]
      BY <1>2 DEF EmptySlice, Slice
    <2>3. QED BY <1>2, <1>4, <2>1, <2>2 DEF Typed, QueueTyped
  <1>11. Phases
    BY <1>2, <1>3 DEF Phases
  <1>12. Reading
    BY <1>3, <1>4 DEF Reading
  <1>13. Single
    BY <1>2, <1>4 DEF Single
  <1>14. Ordered
    BY <1>2, <1>4 DEF Ordered
  <1>15. Filled
    <2>1. \A i \in SBQ!Indices, r \in SBQ!Rows : queue[i].rows[r] = NoRow
      BY <1>3 DEF SBQ!NewBuffer
    <2>2. QED BY <1>4, <2>1 DEF Filled
  <1>16. History
    <2>1. \A e \in Envs : /\ done[e] = TRUE /\ seen[e].done = TRUE
                          /\ current_step[e] = -1 /\ seen[e].step = -1
      BY <1>2
    <2>2. \A w \in Workers : wpc[w] = "dequeue"
      BY <1>2
    <2>3. QED BY <1>4, <1>8, <2>1, <2>2 DEF History
  <1>17. QED BY <1>9, <1>10, <1>11, <1>12, <1>13, <1>14, <1>15, <1>16 DEF PInv

(* A worker counts itself in, or takes its row.                            *)
LEMMA AllocateStepStep ==
  ASSUME PInv, Q!IInv, NEW w \in Workers, AllocateStep(w)
  PROVE  PInv' /\ Q!WorkerStep(w) /\ Entered' = Entered
  <1>1. /\ wpc[w] = "write"
        /\ UNCHANGED <<actions, workVars, stop, stepping_env_num, envVars, clientVars>>
    BY DEF AllocateStep
  <1>2. Entered' = Entered
    BY <1>1, EnteredSame DEF workVars, clientVars
  <1>3. CASE SBQ!CountAlloc(w)
    BY <1>1, <1>2, <1>3, CountAllocStep DEF Q!WorkerStep
  <1>4. CASE SBQ!TakeRow(w, slice[w].order)
    BY <1>1, <1>2, <1>4, TakeRowStep DEF Q!WorkerStep
  <1>5. QED BY <1>3, <1>4 DEF AllocateStep

(* A worker's step is one of its queue, or leaves that as it is.           *)
LEMMA WorkersStep ==
  ASSUME PInv, Q!IInv, NEW w \in Workers, WorkerStep(w)
  PROVE  PInv' /\ [Q!Next]_(Q!vars)
  <1>1. CASE Dequeue(w)
    BY <1>1, DequeueStep
  <1>2. CASE Exit(w) \/ Decide(w)
    BY <1>2, CheckedStep
  <1>3. CASE Run(w)
    <2>1. PInv' /\ Q!Allocate(w, slice[w].env)
      BY <1>3, RunStep
    <2>2. slice[w].env \in Envs
      BY <1>3 DEF PInv, Typed, Slice, Phases, Run, Goto
    <2>3. QED BY <2>1, <2>2 DEF Q!Next
  <1>4. CASE AllocateStep(w)
    BY <1>4, AllocateStepStep DEF Q!Next
  <1>5. CASE WriteState(w)
    BY <1>5, WriteStateStep DEF Q!Next, Q!WorkerStep
  <1>6. CASE PostProcess(w)
    <2>1. PInv' /\ (Q!Done(w) \/ Q!SignalReady(w)) /\ Entered' = Entered
      BY <1>6, DoneStep, SignalStep DEF PostProcess
    <2>2. QED BY <2>1 DEF Q!Next, Q!WorkerStep
  <1>7. QED BY <1>1, <1>2, <1>3, <1>4, <1>5, <1>6 DEF WorkerStep

(* Every step of the pool keeps the invariant, and is a step of its queue  *)
(* of states or leaves that as it is.                                      *)
LEMMA NextPInv ==
  ASSUME PInv, Q!IInv, [Next]_vars
  PROVE  PInv' /\ [Q!Next]_(Q!vars)
  <1>1. ASSUME NEW ids \in IdLists, Send(ids) \/ Reset(ids)
        PROVE  PInv' /\ [Q!Next]_(Q!vars)
    BY <1>1, RequestStep DEF Send, Reset
  <1>2. CASE CallRecv
    BY <1>2, CallRecvStep DEF Q!Next
  <1>3. CASE WaitStep
    <2>1. PInv' /\ Q!ReaderStep /\ Entered' = Entered
      BY <1>3, WaitPositionSteps, AddDoneStep, WaitReadyStep, CollectStep, SwapBufferStep
         DEF WaitStep, SBQ!ReaderStep
    <2>2. QED BY <2>1 DEF Q!Next
  <1>4. CASE ReturnRecv
    BY <1>4, ReturnRecvStep DEF Q!Next
  <1>5. CASE Destroy
    BY <1>5, DestroyStep
  <1>6. ASSUME NEW w \in Workers, WorkerStep(w) PROVE PInv' /\ [Q!Next]_(Q!vars)
    BY <1>6, WorkersStep
  <1>7. ASSUME NEW c \in Creators, CreatorStep(c) PROVE PInv' /\ [Q!Next]_(Q!vars)
    BY <1>7, CreatorsStep DEF Q!Next
  <1>8. CASE UNCHANGED vars
    <2>1. UNCHANGED <<sbqVars, actions, workVars, stop, stepping_env_num, envVars, clientVars>>
      BY <1>8 DEF vars
    <2>2. UNCHANGED <<in_flight, request>>
      BY <2>1 DEF clientVars
    <2>3. Entered' = Entered
      BY <2>1, <2>2, EnteredSame DEF workVars
    <2>4. QueueTyped' /\ Reading' /\ Filled' /\ UNCHANGED Q!vars /\ UNCHANGED <<wstep, wenv, wrow>>
      BY <2>1, <2>2, <2>3, OutsideStep
    <2>5. Phases'
      BY <2>1, <2>4 DEF PInv, Phases, workVars
    <2>6. QED BY <2>1, <2>4, <2>5, QueueOnlyStep
  <1>9. QED BY <1>1, <1>2, <1>3, <1>4, <1>5, <1>6, <1>7, <1>8 DEF Next

(* The strengthening is an invariant of the pool, and the invariant of the *)
(* queue of states holds of the queue in it.                               *)
THEOREM PoolInvariant == Spec => [](PInv /\ Q!IInv)
  <1>1. Init => PInv /\ Q!IInv
    BY InitPInv, QueueAssumed, Q!InitIInv
  <1>2. PInv /\ Q!IInv /\ [Next]_vars => (PInv /\ Q!IInv)'
    <2>1. SUFFICES ASSUME PInv, Q!IInv, [Next]_vars PROVE (PInv /\ Q!IInv)'
      OBVIOUS
    <2>2. PInv' /\ [Q!Next]_(Q!vars)
      BY <2>1, NextPInv
    <2>3. Q!IInv'
      BY <2>1, <2>2, QueueAssumed, Q!NextIInv
    <2>4. QED BY <2>2, <2>3
  <1>3. QED BY <1>1, <1>2, PTL DEF Spec

(* The pool uses its queue of states by the rules that StateBufferQueue    *)
(* assumes of its callers (AsyncEnvPool::Send, Recv and the workers, with  *)
(* Env::Allocate): whatever is proved of that specification, for callers   *)
(* that follow the rules, holds of the queue in the pool.                  *)
THEOREM UsesQueue == Spec => Q!Spec
  <1>1. Init => Q!Init
    BY InitPInv
  <1>2. PInv /\ Q!IInv /\ [Next]_vars => [Q!Next]_(Q!vars)
    BY NextPInv
  <1>3. QED BY <1>1, <1>2, PoolInvariant, PTL DEF Spec, Q!Spec

(* Type correctness; in particular the counter of environments that are    *)
(* stepping never goes below zero.                                         *)
THEOREM TypeCorrect == Spec => []TypeOK
  <1>1. PInv => TypeOK
    <2>1. SUFFICES ASSUME PInv PROVE TypeOK
      OBVIOUS
    <2>2. actions \in Seq(Slice) /\ ret \in Seq(State \cup {NoRow})
      BY <2>1 DEF PInv, Typed, QueueTyped
    <2>3. \A i \in DOMAIN actions : actions[i] \in Slice
      BY <2>2, LenProperties, ElementOfSeq
    <2>4. \A i \in DOMAIN ret : ret[i] \in State \cup {NoRow}
      BY <2>2, LenProperties, ElementOfSeq
    <2>5. /\ wpc \in [Workers -> {"dequeue", "check", "run", "write", "exited"}]
          /\ slice \in [Workers -> Slice] /\ wreset \in [Workers -> BOOLEAN]
          /\ stop \in BOOLEAN /\ stepping_env_num \in Nat /\ done \in [Envs -> BOOLEAN]
          /\ current_step \in [Envs -> Int] /\ in_flight \subseteq Envs
      BY <2>1 DEF PInv, Typed
    <2>6. QED BY <2>3, <2>4, <2>5 DEF TypeOK
  <1>2. QED BY <1>1, PoolInvariant, PTL

(* No environment is with two workers, queued while it is with one, or     *)
(* queued twice, for any number of workers, as long as the client sends    *)
(* actions only for environments it has the state of (AsyncEnvPool's       *)
(* workers): so nothing but its own worker touches an environment.         *)
THEOREM OneWorker == Spec => []OneWorkerPerEnv
  <1>1. PInv => OneWorkerPerEnv
    BY DEF PInv, Single, OneWorkerPerEnv
  <1>2. QED BY <1>1, PoolInvariant, PTL

(* While the pool runs, at most as many slices are queued as there are     *)
(* environments.                                                           *)
LEMMA FewActions ==
  ASSUME PInv, ~stop
  PROVE  Len(actions) \in Nat /\ Len(actions) <= NumEnvs
  <1>1. /\ Len(actions) \in Nat /\ DOMAIN actions = 1 .. Len(actions)
        /\ \A i \in DOMAIN actions : actions[i].env \in Envs
        /\ \A i, j \in DOMAIN actions : actions[i].env = actions[j].env => i = j
    BY LenProperties DEF PInv, Typed, Single, Names
  <1>2. PICK s \in Seq(Envs) : s = [i \in 1 .. Len(actions) |-> actions[i].env]
    <2>1. [i \in 1 .. Len(actions) |-> actions[i].env] \in [1 .. Len(actions) -> Envs]
      BY <1>1
    <2>2. [i \in 1 .. Len(actions) |-> actions[i].env] \in Seq(Envs)
      BY <1>1, <2>1, SeqDef
    <2>3. QED BY <2>2
  <1>3. /\ DOMAIN s = 1 .. Len(actions)
        /\ \A i, j \in DOMAIN s : s[i] = s[j] => i = j
    BY <1>1, <1>2
  <1>4. Len(s) \in Nat /\ Len(s) <= NumEnvs /\ DOMAIN s = 1 .. Len(s)
    BY <1>3, IdsCount
  <1>5. Len(s) = Len(actions)
    BY <1>1, <1>3, <1>4
  <1>6. QED BY <1>1, <1>4, <1>5

(* The action buffer queue is a FIFO while it holds no more slices than    *)
(* twice the environments; the pool needs room for one slice for each      *)
(* environment and, once it stops, one more for each worker.               *)
ActionsBounded ==
  Len(actions) <= NumEnvs + (IF stop THEN Cardinality(Workers) ELSE 0)

THEOREM ActionRoom == Spec => []ActionsBounded
  <1>1. Init => ActionsBounded
    BY PoolSizes, FS_CardinalityType, PoolAssumption, EmptySeq DEF Init, ActionsBounded
  <1>2. PInv /\ PInv' /\ ActionsBounded /\ [Next]_vars => ActionsBounded'
    <2>1. SUFFICES ASSUME PInv, PInv', ActionsBounded, [Next]_vars, stop'
                   PROVE  Len(actions') <= NumEnvs + Cardinality(Workers)
      <3>1. PInv /\ ~stop => Len(actions) <= NumEnvs
        BY FewActions
      <3>2. (PInv /\ ~stop => Len(actions) <= NumEnvs)'
        BY <3>1, PTL
      <3>3. QED BY <3>2, PoolSizes DEF ActionsBounded
    <2>2. /\ actions \in Seq(Slice) /\ Len(actions) \in Nat /\ Cardinality(Workers) \in Nat
          /\ NumEnvs \in Nat
      <3>1. actions \in Seq(Slice)
        BY <2>1 DEF PInv, Typed
      <3>2. QED BY <3>1, LenProperties, PoolAssumption, FS_CardinalityType, PoolSizes
    <2>3. CASE Destroy
      <3>1. [i \in 1 .. Cardinality(Workers) |-> EmptySlice] \in Seq(Slice)
        <4>1. EmptySlice \in Slice
          BY DEF EmptySlice, Slice
        <4>2. [i \in 1 .. Cardinality(Workers) |-> EmptySlice] \in [1 .. Cardinality(Workers) -> Slice]
          BY <4>1
        <4>3. QED BY <2>2, <4>2, SeqDef
      <3>2. Len([i \in 1 .. Cardinality(Workers) |-> EmptySlice]) = Cardinality(Workers)
        BY <2>2
      <3>3. Len(actions') = Len(actions) + Cardinality(Workers)
        BY <2>2, <2>3, <3>1, <3>2, ConcatProperties DEF Destroy
      <3>4. Len(actions) <= NumEnvs
        BY <2>1, <2>3, FewActions DEF Destroy
      <3>5. QED BY <2>2, <3>3, <3>4
    <2>4. CASE \E w \in Workers : Dequeue(w)
      <3>1. stop /\ actions # <<>> /\ actions' = Tail(actions)
        BY <2>1, <2>4 DEF Dequeue
      <3>2. Len(actions') = Len(actions) - 1
        BY <2>2, <3>1, HeadTailProperties
      <3>3. QED BY <2>1, <2>2, <3>1, <3>2 DEF ActionsBounded
    <2>5. CASE UNCHANGED <<actions, stop>>
      BY <2>1, <2>5 DEF ActionsBounded
    <2>6. Destroy \/ (\E w \in Workers : Dequeue(w)) \/ UNCHANGED <<actions, stop>>
      BY <2>1 DEF Next, Send, Reset, Request, MayRequest, CallRecv, WaitStep, ReturnRecv, WorkerStep, Exit,
         Decide, Run, AllocateStep, WriteState, PostProcess, CreatorStep, vars
    <2>7. QED BY <2>3, <2>4, <2>5, <2>6
  <1>3. QED BY <1>1, <1>2, PoolInvariant, PTL DEF Spec

(* The ring of state buffers is safe in the pool, in both modes: a worker  *)
(* finds its batch's buffer, with room, and a row that it alone writes     *)
(* (StateBufferQueue::Allocate under Env::Allocate).                       *)
THEOREM PoolStorageSafe == Spec => []StorageSafe
  <1>1. PInv /\ Q!IInv => StorageSafe
    <2>1. SUFFICES ASSUME PInv, Q!IInv PROVE SBQ!StorageSafe
      BY DEF StorageSafe
    <2>2. Q!StorageSafe
      BY <2>1, QueueAssumed, Q!SafeWithin
    <2>3. ASSUME NEW w \in Workers
          PROVE  /\ EnvQueue[Q!Offset(Q!WorkerBlock(w))].block
                      = queue[SBQ!Offset(SBQ!WorkerBlock(w))].block
                 /\ \A r \in SBQ!Rows :
                      EnvQueue[Q!Offset(Q!WorkerBlock(w))].rows[r] = NoRow
                        => queue[SBQ!Offset(SBQ!WorkerBlock(w))].rows[r] = NoRow
      <3>1. PICK j \in SBQ!Indices : /\ j = SBQ!Offset(SBQ!WorkerBlock(w))
                                     /\ j = Q!Offset(Q!WorkerBlock(w))
        BY <2>1, WorkerSlot, Shared
      <3>2. PICK b \in PoolBuffer : b = queue[j]
        BY <2>1 DEF PInv, Typed, QueueTyped
      <3>3. \A r \in SBQ!Rows : b.rows[r] \in State \cup {NoRow}
        BY DEF PoolBuffer
      <3>4. EnvQueue[j].block = b.block
        BY <3>2, QueueView, BufferView
      <3>5. \A r \in SBQ!Rows : EnvQueue[j].rows[r] = EnvOf(b.rows[r])
        BY <3>2, QueueView, BufferView
      <3>6. QED BY <3>1, <3>2, <3>3, <3>4, <3>5, RowEnv
    <2>4. SBQ!BufferAlive
      BY <2>2, <2>3, Shared DEF Q!StorageSafe, Q!BufferAlive, Q!Buffer, SBQ!BufferAlive, SBQ!Buffer
    <2>5. SBQ!NeverOutOfStorage
      BY <2>2 DEF Q!StorageSafe, Q!NeverOutOfStorage, SBQ!NeverOutOfStorage
    <2>6. SBQ!RowsExclusive
      <3>1. SUFFICES ASSUME NEW w \in Workers, wstep[w] = "fill"
                     PROVE  /\ queue[SBQ!Offset(SBQ!WorkerBlock(w))].rows[wrow[w]] = NoRow
                            /\ \A v \in Workers \ {w} :
                                 wstep[v] \in {"fill", "done"}
                                   /\ SBQ!WorkerBlock(v) = SBQ!WorkerBlock(w)
                                   => wrow[v] # wrow[w]
        BY DEF SBQ!RowsExclusive, SBQ!Buffer
      <3>2. wrow[w] \in SBQ!Rows
        BY <2>1, <3>1, Shared DEF Q!IInv, Q!Given
      <3>3. EnvQueue[Q!Offset(Q!WorkerBlock(w))].rows[wrow[w]] = NoRow
        BY <2>2, <3>1 DEF Q!StorageSafe, Q!RowsExclusive, Q!Buffer
      <3>4. \A v \in Workers \ {w} :
              wstep[v] \in {"fill", "done"} /\ SBQ!WorkerBlock(v) = SBQ!WorkerBlock(w)
                => wrow[v] # wrow[w]
        BY <2>2, <3>1, Shared DEF Q!StorageSafe, Q!RowsExclusive
      <3>5. QED BY <2>3, <3>2, <3>3, <3>4
    <2>7. QED BY <2>4, <2>5, <2>6 DEF SBQ!StorageSafe
  <1>2. QED BY <1>1, PoolInvariant, PTL

(* In synchronous mode row i of a batch is the state of the i-th           *)
(* environment of the request, however the workers are scheduled           *)
(* (AsyncEnvPool::Send, the order of a slice).                             *)
THEOREM RequestOrder == Spec => []RowsInRequestOrder
  <1>1. PInv /\ Q!IInv => RowsInRequestOrder
    <2>1. SUFFICES ASSUME PInv, Q!IInv, IsSync, rstep = "return"
                   PROVE  /\ Len(ret) = Len(request)
                          /\ \A i \in DOMAIN request : ret[i] # NoRow /\ ret[i].env = request[i]
      BY DEF RowsInRequestOrder
    <2>2. /\ Len(ret) = Len(request) /\ DOMAIN ret = 1 .. Len(ret)
          /\ DOMAIN request = 1 .. Len(request)
      BY <2>1, ReceivedFacts, RequestBound
    <2>3. \A n \in DOMAIN ret : ret[n] # NoRow
      BY <2>1, RowsEntered, BlankAssumption
    <2>4. \A n \in DOMAIN ret : request[n] = ret[n].env
      BY <2>1, <2>3 DEF PInv, Filled, Fits
    <2>5. QED BY <2>2, <2>3, <2>4
  <1>2. QED BY <1>1, PoolInvariant, PTL

(* stepping_env_num_, from which Recv of a synchronous pool computes how   *)
(* many missing environments to make up for, is the number in flight.      *)
THEOREM CountOfStepping == Spec => []SteppingCount
  <1>1. PInv /\ Q!IInv => SteppingCount
    BY RequestBound DEF PInv, Ordered, SteppingCount
  <1>2. QED BY <1>1, PoolInvariant, PTL

-----------------------------------------------------------------------------
(* A request is one of the promise.                                        *)
LEMMA PromisedRequest ==
  ASSUME NEW ids \in IdLists, NEW force \in BOOLEAN, Request(ids, force)
  PROVE  Promise!Next
  <1>1. IdsOf(ids) \in SUBSET Envs
    BY DEF IdLists, IdsOf
  <1>2. /\ IdsOf(ids) \cap in_flight = {} /\ in_flight' = in_flight \cup IdsOf(ids)
        /\ forced' = IF force THEN forced \cup IdsOf(ids) ELSE forced
        /\ seen' = seen
    BY DEF Request, MayRequest
  <1>3. Promise!Send(IdsOf(ids)) \/ Promise!Reset(IdsOf(ids))
    BY <1>2 DEF Promise!Send, Promise!Reset
  <1>4. QED BY <1>1, <1>3 DEF Promise!Next

(* A batch received is one of the promise.                                 *)
LEMMA PromisedRecv ==
  ASSUME PInv, Q!IInv, ReturnRecv
  PROVE  Promise!Next
  <1>1. rstep = "return" /\ in_flight' = in_flight \ Received /\ forced' = forced \ Received
    BY DEF ReturnRecv, SBQ!ReturnWait, SBQ!MoveReader
  <1>2. /\ Received \subseteq Entered /\ Received \subseteq in_flight /\ in_flight \subseteq Envs
        /\ Cardinality(Received) = Batch - radd
        /\ IsSync => Received = in_flight
    BY <1>1, ReceivedFacts
  <1>3. /\ Promise!Cardinality(Received) = Cardinality(Received)
        /\ Promise!Cardinality(Envs) = NumEnvs
    BY DEF Promise!Cardinality, Cardinality, NumEnvs
  <1>4. \/ Promise!Cardinality(Received) = Batch
        \/ Batch = Promise!Cardinality(Envs) /\ Received = in_flight
    <2>1. ~IsSync => radd = 0
      BY DEF PInv, Reading
    <2>2. QED BY <1>2, <1>3, <2>1, PoolSizes DEF IsSync
  <1>5. PICK d \in [Received -> BOOLEAN] : d = [e \in Received |-> done[e]]
    BY <1>2 DEF PInv, Typed
  <1>6. \A e \in Received : d[e] = done[e] /\ current_step[e] = Promise!Following(e)
    BY <1>2, <1>5 DEF PInv, History
  <1>7. seen' = [e \in Envs |-> IF e \in Received
                                THEN [done |-> d[e], step |-> Promise!Following(e)]
                                ELSE seen[e]]
    BY <1>6, SeenAfter
  <1>8. Promise!Recv(Received)
    BY <1>1, <1>4, <1>7 DEF Promise!Recv
  <1>9. QED BY <1>2, <1>8 DEF Promise!Next

(* The pool keeps the promise of EnvPool in both modes, for every number   *)
(* of environments and workers: each Recv returns a batch of different     *)
(* environments in flight, each with the state that follows the one the    *)
(* client saw last (AsyncEnvPool::Send, Recv, Reset, Env::EnvStep).        *)
THEOREM KeepsPromise == Spec => ImplementsEnvPool
  <1>1. Init => Promise!Init
    BY DEF Init, SBQ!Init, Promise!Init
  <1>2. PInv /\ Q!IInv /\ [Next]_vars => [Promise!Next]_(Promise!vars)
    <2>1. SUFFICES ASSUME PInv, Q!IInv, [Next]_vars PROVE [Promise!Next]_(Promise!vars)
      OBVIOUS
    <2>2. ASSUME NEW ids \in IdLists, Send(ids) \/ Reset(ids) PROVE Promise!Next
      BY <2>2, PromisedRequest DEF Send, Reset
    <2>3. CASE ReturnRecv
      BY <2>1, <2>3, PromisedRecv
    <2>4. ASSUME ~ReturnRecv, ~(\E ids \in IdLists : Send(ids) \/ Reset(ids))
          PROVE  UNCHANGED <<in_flight, forced, seen>>
      BY <2>1, <2>4 DEF Next, CallRecv, WaitStep, Destroy, WorkerStep, Dequeue, Exit, Decide,
         Run, AllocateStep, WriteState, PostProcess, CreatorStep, vars, clientVars
    <2>5. QED BY <2>2, <2>3, <2>4 DEF Promise!vars
  <1>3. QED BY <1>1, <1>2, PoolInvariant, PTL DEF Spec, ImplementsEnvPool, Promise!Spec
=============================================================================
