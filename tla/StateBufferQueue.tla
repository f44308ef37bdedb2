--------------------------- MODULE StateBufferQueue ---------------------------
(***************************************************************************)
(* The state buffer queue of the asynchronous environment pool             *)
(* (envs/envpool/core/state_buffer_queue.h, state_buffer.h): a ring of     *)
(* StateBuffers, each with room for one batch.  Worker threads allocate    *)
(* a row, fill it and report it done without any lock; one reader thread   *)
(* waits for the buffers in order and replaces each by a fresh one taken   *)
(* from a stock that background threads refill.                            *)
(*                                                                         *)
(* One action per atomic step.  Environments are single-player             *)
(* (max_num_players = 1), so the two halves of the packed offsets_ word    *)
(* move together and are one counter.  The stock (circular_buffer.h) is    *)
(* represented by the number of buffers in it; CircularBuffer models it.   *)
(***************************************************************************)
EXTENDS Integers, Sequences, FiniteSets

CONSTANTS
  Workers,   \* threads that run environments
  Creators,  \* background threads that refill the stock
  Envs,      \* the environments, whose identity stands for the row's content
  NoRow,     \* the content of a row that was never filled
  Batch,     \* batch_env
  StockSize, \* bound: the capacity of the stock (the code's is queue_size_)
  MaxBlocks  \* bound: the number of batches received in one behaviour

NumEnvs == Cardinality(Envs)

ASSUME BatchAssumption ==
  /\ IsFiniteSet(Envs)
  /\ Batch \in 1 .. NumEnvs
  /\ MaxBlocks \in Nat
  /\ StockSize \in Nat \ {0}

ASSUME RowAssumption == NoRow \notin Envs

VARIABLES
  alloc_count,  \* rows handed out over the life of the queue
  done_ptr,     \* buffers claimed by the reader
  queue,        \* the ring of StateBuffers
  stock,        \* fresh buffers waiting in stock_buffer_
  quit,         \* quit_
  cstep,        \* what each creator is about to do
  wstep,        \* the step of Allocate or done_write each worker is at
  wenv,         \* the environment it steps
  wpos,         \* its local pos
  wrow,         \* the row it was given
  rstep,        \* the step of Wait the reader is at
  rpos,         \* its local pos
  radd,         \* its argument additional_done_count
  ret,          \* the rows it has collected
  in_flight     \* environments sent whose state has not been received

bufferVars == <<alloc_count, done_ptr, queue>>
stockVars  == <<stock, quit, cstep>>
workerVars == <<wstep, wenv, wpos, wrow>>
readerVars == <<rstep, rpos, radd, ret>>
vars == <<bufferVars, stockVars, workerVars, readerVars, in_flight>>

QueueSize  == (NumEnvs \div Batch + 2) * 2
Indices    == 0 .. QueueSize - 1
Rows       == 0 .. Batch - 1
Unordered  == -1

(* A StateBuffer.  "block" is not in the code: it numbers the batches the  *)
(* reader will receive and tells the buffer object that serves batch k     *)
(* from the one that takes its place in the ring.                          *)
NewBuffer(k) == [block   |-> k,
                 allocs  |-> 0,   \* alloc_count_
                 offsets |-> 0,   \* offsets_
                 dones   |-> 0,   \* done_count_
                 ready   |-> 0,   \* sem_
                 rows    |-> [r \in Rows |-> NoRow]]

BlockOf(p)    == p \div Batch
Offset(k)     == k % QueueSize
Buffer(k)     == queue[Offset(k)]
WorkerBlock(w) == BlockOf(wpos[w])

Init ==
  /\ alloc_count = 0
  /\ done_ptr = 0
  /\ queue = [i \in Indices |-> NewBuffer(i)]
  /\ stock = 0
  /\ quit = FALSE
  /\ cstep = [c \in Creators |-> "put"]
  /\ wstep = [w \in Workers |-> "idle"]
  /\ wenv = [w \in Workers |-> NoRow]
  /\ wpos = [w \in Workers |-> 0]
  /\ wrow = [w \in Workers |-> 0]
  /\ rstep = "idle"
  /\ rpos = 0
  /\ radd = 0
  /\ ret = <<>>
  /\ in_flight = {}

-----------------------------------------------------------------------------
(* StateBufferQueue::Allocate and StateBuffer::Allocate, on worker threads *)

MoveWorker(w, from, to) ==
  /\ wstep[w] = from
  /\ wstep' = [wstep EXCEPT ![w] = to]

ClaimPos(w, e) ==
  /\ MoveWorker(w, "idle", "count")
  /\ wenv' = [wenv EXCEPT ![w] = e]
  /\ wpos' = [wpos EXCEPT ![w] = alloc_count]
  /\ alloc_count' = alloc_count + 1
  /\ UNCHANGED <<done_ptr, queue, stockVars, wrow, readerVars>>

(* More than batch_ calls on one buffer: out_of_range is thrown, and as no *)
(* worker catches it the program ends.                                     *)
CountAlloc(w) ==
  LET k == WorkerBlock(w) IN
  /\ MoveWorker(w, "count", IF Buffer(k).allocs < Batch THEN "take" ELSE "thrown")
  /\ queue' = [queue EXCEPT ![Offset(k)].allocs = @ + 1]
  /\ UNCHANGED <<alloc_count, done_ptr, stockVars, wenv, wpos, wrow, readerVars>>

TakeRow(w, order) ==
  LET k == WorkerBlock(w) IN
  /\ MoveWorker(w, "take", "fill")
  /\ wrow' = [wrow EXCEPT ![w] = IF order = Unordered THEN Buffer(k).offsets ELSE order]
  /\ queue' = [queue EXCEPT ![Offset(k)].offsets = @ + 1]
  /\ UNCHANGED <<alloc_count, done_ptr, stockVars, wenv, wpos, readerVars>>

(* The environment writes its state into the arrays of the slice. *)
FillRow(w, content) ==
  /\ MoveWorker(w, "fill", "done")
  /\ queue' = [queue EXCEPT ![Offset(WorkerBlock(w))].rows[wrow[w]] = content]
  /\ UNCHANGED <<alloc_count, done_ptr, stockVars, wenv, wpos, wrow, readerVars>>

(* Back in its loop the worker has no use for its locals. *)
Leave(w, last) ==
  /\ MoveWorker(w, "done", IF last THEN "signal" ELSE "idle")
  /\ wenv' = IF last THEN wenv ELSE [wenv EXCEPT ![w] = NoRow]
  /\ wpos' = IF last THEN wpos ELSE [wpos EXCEPT ![w] = 0]
  /\ wrow' = IF last THEN wrow ELSE [wrow EXCEPT ![w] = 0]

\* Mutant: the last done is recognised one row early.
DoneEarly(w) ==
  LET k == WorkerBlock(w) IN
  /\ Leave(w, Buffer(k).dones + 2 = Batch)
  /\ queue' = [queue EXCEPT ![Offset(k)].dones = @ + 1]
  /\ UNCHANGED <<alloc_count, done_ptr, stockVars, readerVars>>

Done(w) ==
  LET k == WorkerBlock(w) IN
  /\ Leave(w, Buffer(k).dones + 1 = Batch)
  /\ queue' = [queue EXCEPT ![Offset(k)].dones = @ + 1]
  /\ UNCHANGED <<alloc_count, done_ptr, stockVars, readerVars>>

SignalReady(w) ==
  /\ MoveWorker(w, "signal", "idle")
  /\ queue' = [queue EXCEPT ![Offset(WorkerBlock(w))].ready = @ + 1]
  /\ wenv' = [wenv EXCEPT ![w] = NoRow]
  /\ wpos' = [wpos EXCEPT ![w] = 0]
  /\ wrow' = [wrow EXCEPT ![w] = 0]
  /\ UNCHANGED <<alloc_count, done_ptr, stockVars, readerVars>>

-----------------------------------------------------------------------------
(* Wait, on the one reader thread *)

MoveReader(from, to) ==
  /\ rstep = from
  /\ rstep' = to

CallWait(additional) ==
  /\ MoveReader("idle", "stock")
  /\ radd' = additional
  /\ UNCHANGED <<bufferVars, stockVars, workerVars, rpos, ret>>

(* The two steps of taking a fresh buffer and the next position are one    *)
(* here: only this thread touches done_ptr_.                               *)
GetStock ==
  /\ MoveReader("stock", "add")
  /\ stock > 0
  /\ stock' = stock - 1
  /\ rpos' = done_ptr
  /\ done_ptr' = done_ptr + 1
  /\ UNCHANGED <<alloc_count, queue, quit, cstep, workerVars, radd, ret>>

(* Done(additional), whose signal only this thread is waiting for. *)
AddDone ==
  /\ MoveReader("add", "wait")
  /\ LET all == Buffer(rpos).dones + radd IN
       queue' = IF radd = 0 THEN queue
                ELSE [queue EXCEPT ![Offset(rpos)].dones = all,
                                   ![Offset(rpos)].ready = IF all = Batch THEN @ + 1 ELSE @]
  /\ UNCHANGED <<alloc_count, done_ptr, stockVars, workerVars, rpos, radd, ret>>

WaitReady ==
  /\ MoveReader("wait", "collect")
  /\ Buffer(rpos).ready > 0
  /\ queue' = [queue EXCEPT ![Offset(rpos)].ready = @ - 1]
  /\ UNCHANGED <<alloc_count, done_ptr, stockVars, workerVars, rpos, radd, ret>>

(* The arrays are truncated to the rows handed out. *)
Collect ==
  /\ MoveReader("collect", "advance")
  /\ ret' = [r \in 1 .. Buffer(rpos).offsets |-> Buffer(rpos).rows[r - 1]]
  /\ UNCHANGED <<bufferVars, stockVars, workerVars, rpos, radd>>

\* Mutant: the rows made up for keep their positions.
AdvanceNone ==
  /\ MoveReader("advance", "swap")
  /\ UNCHANGED <<bufferVars, stockVars, workerVars, rpos, radd, ret>>

AdvanceBlock ==
  /\ MoveReader("advance", "swap")
  /\ alloc_count' = alloc_count + radd
  /\ UNCHANGED <<done_ptr, queue, stockVars, workerVars, rpos, radd, ret>>

\* Mutant: the fresh buffer is put in the place done_ptr_ points to by now.
SwapNext ==
  /\ MoveReader("swap", "return")
  /\ queue' = [queue EXCEPT ![Offset(done_ptr)] = NewBuffer(rpos + QueueSize)]
  /\ UNCHANGED <<alloc_count, done_ptr, stockVars, workerVars, rpos, radd, ret>>

SwapBuffer ==
  /\ MoveReader("swap", "return")
  /\ queue' = [queue EXCEPT ![Offset(rpos)] = NewBuffer(rpos + QueueSize)]
  /\ UNCHANGED <<alloc_count, done_ptr, stockVars, workerVars, rpos, radd, ret>>

ReturnWait ==
  /\ MoveReader("return", "idle")
  /\ rpos' = 0
  /\ radd' = 0
  /\ ret' = <<>>
  /\ UNCHANGED <<bufferVars, stockVars, workerVars>>

ReaderStep ==
  \/ GetStock
  \/ AddDone
  \/ WaitReady
  \/ Collect
  \/ AdvanceBlock
  \/ SwapBuffer

-----------------------------------------------------------------------------
(* The background threads, and ~StateBufferQueue on the reader's thread *)

PutStock(c) ==
  /\ cstep[c] = "put"
  /\ stock < StockSize
  /\ stock' = stock + 1
  /\ cstep' = [cstep EXCEPT ![c] = "test"]
  /\ UNCHANGED <<bufferVars, quit, workerVars, readerVars>>

\* Mutant: a background thread leaves its loop unless told to quit.
TestQuitInverted(c) ==
  /\ cstep[c] = "test"
  /\ cstep' = [cstep EXCEPT ![c] = IF quit THEN "put" ELSE "exited"]
  /\ UNCHANGED <<bufferVars, stock, quit, workerVars, readerVars>>

TestQuit(c) ==
  /\ cstep[c] = "test"
  /\ cstep' = [cstep EXCEPT ![c] = IF quit THEN "exited" ELSE "put"]
  /\ UNCHANGED <<bufferVars, stock, quit, workerVars, readerVars>>

CreatorStep(c) == PutStock(c) \/ TestQuit(c)

\* Mutant: no buffer is taken for the background threads to go on.
SetQuitOnly ==
  /\ MoveReader("idle", "destroy")
  /\ \A w \in Workers : wstep[w] = "idle"
  /\ quit' = TRUE
  /\ radd' = Cardinality(Creators)
  /\ UNCHANGED <<bufferVars, stock, cstep, workerVars, rpos, ret>>

SetQuit ==
  /\ MoveReader("idle", "destroy")
  /\ \A w \in Workers : wstep[w] = "idle"
  /\ quit' = TRUE
  /\ radd' = 0
  /\ UNCHANGED <<bufferVars, stock, cstep, workerVars, rpos, ret>>

(* One stock_buffer_.Get() per background thread; radd counts them here.   *)
DrainStock ==
  /\ rstep = "destroy"
  /\ radd < Cardinality(Creators)
  /\ stock > 0
  /\ stock' = stock - 1
  /\ radd' = radd + 1
  /\ UNCHANGED <<bufferVars, quit, cstep, workerVars, rstep, rpos, ret>>

JoinCreators ==
  /\ MoveReader("destroy", "destroyed")
  /\ radd = Cardinality(Creators)
  /\ \A c \in Creators : cstep[c] = "exited"
  /\ UNCHANGED <<bufferVars, stockVars, workerVars, rpos, radd, ret>>

DestroyStep == DrainStock \/ JoinCreators

-----------------------------------------------------------------------------
(* The queue on its own, as the pool uses it.  An environment whose state  *)
(* is in flight is not stepped again before the batch that holds its state *)
(* has been received.  Synchronous requests give each environment of a     *)
(* batch its own row, counted from 0, and a batch waited for with          *)
(* "additional" is that of a request so much smaller than Batch.           *)

IsSync == Batch = NumEnvs

(* The rows of the buffer in slot i that workers have been given.          *)
GivenRows(i) ==
  {r \in Rows : \/ queue[i].rows[r] # NoRow
                \/ \E w \in Workers : /\ wstep[w] = "fill" /\ wrow[w] = r
                                      /\ Offset(WorkerBlock(w)) = i}

Orders(w) ==
  IF IsSync THEN (0 .. Batch - radd - 1) \ GivenRows(Offset(WorkerBlock(w)))
  ELSE {Unordered}

WorkerStep(w) ==
  \/ CountAlloc(w)
  \/ \E order \in Orders(w) : TakeRow(w, order)
  \/ FillRow(w, wenv[w])
  \/ Done(w)
  \/ SignalReady(w)

Allocate(w, e) ==
  /\ e \notin in_flight
  /\ radd > 0 => Cardinality(in_flight) + radd < Batch
  /\ rstep \notin {"destroy", "destroyed"}
  /\ ClaimPos(w, e)
  /\ in_flight' = in_flight \cup {e}

Receive(additional) ==
  /\ done_ptr < MaxBlocks
  /\ additional > 0 =>
       /\ IsSync
       /\ Cardinality(in_flight) + additional <= Batch
       /\ \A i \in Indices : GivenRows(i) \subseteq 0 .. Batch - additional - 1
  /\ CallWait(additional)
  /\ UNCHANGED in_flight

Received ==
  /\ ReturnWait
  /\ in_flight' = in_flight \ {ret[i] : i \in DOMAIN ret}

Next ==
  \/ \E w \in Workers, e \in Envs : Allocate(w, e)
  \/ \E w \in Workers : WorkerStep(w) /\ UNCHANGED in_flight
  \/ \E additional \in 0 .. Batch : Receive(additional)
  \/ ReaderStep /\ UNCHANGED in_flight
  \/ Received
  \/ \E c \in Creators : CreatorStep(c) /\ UNCHANGED in_flight
  \/ SetQuit /\ UNCHANGED in_flight
  \/ DestroyStep /\ UNCHANGED in_flight

Spec == Init /\ [][Next]_vars

(* Every thread inside a call runs on; no call has to be made.             *)
Fairness ==
  /\ \A w \in Workers : WF_vars(WorkerStep(w) /\ UNCHANGED in_flight)
  /\ \A c \in Creators : WF_vars(CreatorStep(c) /\ UNCHANGED in_flight)
  /\ WF_vars(ReaderStep /\ UNCHANGED in_flight)
  /\ WF_vars(Received)
  /\ WF_vars(DestroyStep /\ UNCHANGED in_flight)

FairSpec == Spec /\ Fairness

-----------------------------------------------------------------------------

WorkerSteps == {"idle", "count", "take", "fill", "done", "signal", "thrown"}
ReaderSteps == {"idle", "stock", "add", "wait", "collect", "advance",
                "swap", "return", "destroy", "destroyed"}

BufferType == [block: Nat, allocs: Nat, offsets: Nat, dones: Nat,
               ready: Nat, rows: [Rows -> Envs \cup {NoRow}]]

(* Each variable keeps its type; the stock never exceeds its capacity.     *)
TypeOK ==
  /\ alloc_count \in Nat
  /\ done_ptr \in Nat
  /\ queue \in [Indices -> BufferType]
  /\ stock \in 0 .. StockSize
  /\ quit \in BOOLEAN
  /\ cstep \in [Creators -> {"put", "test", "exited"}]
  /\ wstep \in [Workers -> WorkerSteps]
  /\ wenv \in [Workers -> Envs \cup {NoRow}]
  /\ wpos \in [Workers -> Nat]
  /\ wrow \in [Workers -> Nat]
  /\ rstep \in ReaderSteps
  /\ rpos \in Nat
  /\ radd \in Nat
  /\ DOMAIN ret \subseteq 1 .. Batch
  /\ \A i \in DOMAIN ret : ret[i] \in Envs \cup {NoRow}
  /\ in_flight \subseteq Envs

(* A worker between claiming its position and its last access to the       *)
(* buffer always finds in the ring the buffer of its own batch: never one  *)
(* the reader has already taken away, nor one of an earlier round of the   *)
(* ring.                                                                   *)
BufferAlive ==
  \A w \in Workers : wstep[w] \notin {"idle", "thrown"} =>
    Buffer(WorkerBlock(w)).block = WorkerBlock(w)

(* The out_of_range of StateBuffer::Allocate, which nobody catches, is     *)
(* never thrown.                                                           *)
NeverOutOfStorage == \A w \in Workers : wstep[w] # "thrown"

(* No row is filled twice: two workers of one batch hold different rows,   *)
(* and the row a worker is about to fill is still blank.                   *)
RowsExclusive ==
  \A w \in Workers : wstep[w] = "fill" =>
    /\ Buffer(WorkerBlock(w)).rows[wrow[w]] = NoRow
    /\ \A v \in Workers \ {w} :
         wstep[v] \in {"fill", "done"} /\ WorkerBlock(v) = WorkerBlock(w)
           => wrow[v] # wrow[w]

(* The ring is safe without a lock: what a worker finds under its position *)
(* is its own batch's buffer, with room, and a row that is its alone.      *)
StorageSafe == BufferAlive /\ NeverOutOfStorage /\ RowsExclusive

(* What Wait returns is a full batch of states, less the additional ones,  *)
(* of as many different environments, each sent and not received yet.      *)
BatchComplete ==
  rstep \in {"advance", "swap", "return"} =>
    /\ Len(ret) = Batch - radd
    /\ \A i \in DOMAIN ret : ret[i] \in in_flight
    /\ \A i, j \in DOMAIN ret : ret[i] = ret[j] => i = j

(* Wait returns once a batch of environments is in flight, from whichever  *)
(* of its three waits it is at: the background threads refill the stock    *)
(* it takes its fresh buffer from, and each row's worker reports it done.  *)
WaitReturns ==
  (rstep \in {"stock", "add", "wait"} /\ Cardinality(in_flight) >= Batch)
    ~> rstep = "idle"

(* The destructor takes one buffer per background thread, and a thread     *)
(* that has just put one sees quit_ and leaves without another: it returns *)
(* exactly when the buffers in stock and those of the threads about to put *)
(* are enough.  Each buffer it takes lets a thread blocked on a full stock *)
(* go on, so that all of them can be joined.                               *)
AboutToPut == {c \in Creators : cstep[c] = "put"}

DestructorDrains ==
  (rstep = "destroy" /\ radd + stock + Cardinality(AboutToPut) >= Cardinality(Creators))
    ~> rstep = "destroyed"

=============================================================================
