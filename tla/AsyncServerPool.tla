---------------------------- MODULE AsyncServerPool ----------------------------
(***************************************************************************)
(* AsyncDRLServerPool and its BlockingQueue                                *)
(* (GzDRL/include/async_rl_server.hh): one thread and one queue of         *)
(* commands per server, Python threads that call batch operations (one     *)
(* command per environment named, then one future awaited after another,   *)
(* as GzDRL/python/async_rl_server.cc does without the interpreter lock),  *)
(* and one thread that closes the pool, at any time.                       *)
(*                                                                         *)
(* A command is a task: who called, which of its calls, at which place of  *)
(* the list of environments.  What a server does with it is DRLServer; here *)
(* it ends well or with an exception.  A condition variable is modelled by *)
(* the wait of its only waiter, so that a lost wake-up would be seen;      *)
(* spurious wake-ups, which only repeat the test, are left out.            *)
(***************************************************************************)
EXTENDS Integers, Sequences, FiniteSets

CONSTANTS
  NumServers,   \* the servers the pool is made of
  Callers,      \* the threads that use the pool
  Requests,     \* the lists of environments their calls name
  MaxCalls      \* bound: the number of calls of all of them together

ASSUME SizeAssumption == NumServers \in Nat \ {0}
ASSUME RequestsAssumption ==
  \A r \in Requests : r \in Seq(Nat) /\ r # <<>>

Servers == 0 .. NumServers - 1

VARIABLES
  num_servers,  \* num_servers_
  alive,        \* the servers_ are still there
  closed, q,    \* the two fields of each BlockingQueue
  wpc, cur,     \* each worker thread, and the command it has taken
  cpc, cat,     \* each caller, and the place in its list it has come to
  request,      \* the list of environments of its last call
  outcome,      \* how that call ended
  got,          \* the results it has collected, as places in ran
  calls,        \* how many calls it has made
  kpc, kat,     \* the closing thread, and the queue or thread it has come to
  accepted,     \* history: the tasks push() took
  ran           \* history: what each server has run, with how it ended

queueVars  == <<closed, q>>
workerVars == <<wpc, cur>>
callerVars == <<cpc, cat, request, outcome, got, calls>>
closeVars  == <<kpc, kat>>
poolVars   == <<num_servers, alive>>
vars == <<poolVars, queueVars, workerVars, callerVars, closeVars, accepted, ran>>

Task(c, i) == [by |-> c, call |-> calls[c], at |-> i, env |-> request[c][i]]
NoTask == [by |-> "none"]

Init ==
  /\ num_servers = NumServers
  /\ alive = TRUE
  /\ closed = [s \in Servers |-> FALSE]
  /\ q = [s \in Servers |-> <<>>]
  /\ wpc = [s \in Servers |-> "pop"]
  /\ cur = [s \in Servers |-> NoTask]
  /\ cpc = [c \in Callers |-> "idle"]
  /\ cat = [c \in Callers |-> 1]
  /\ request = [c \in Callers |-> <<>>]
  /\ outcome = [c \in Callers |-> "none"]
  /\ got = [c \in Callers |-> <<>>]
  /\ calls = [c \in Callers |-> 0]
  /\ kpc = "open"
  /\ kat = 0
  /\ accepted = {}
  /\ ran = [s \in Servers |-> <<>>]

-----------------------------------------------------------------------------
(* A batch operation *)

CallsMade == Cardinality({n \in Callers \X (1 .. MaxCalls) : n[2] <= calls[n[1]]})

Call(c, r) ==
  /\ cpc[c] = "idle"
  /\ CallsMade < MaxCalls
  /\ cpc' = [cpc EXCEPT ![c] = "check"]
  /\ cat' = [cat EXCEPT ![c] = 1]
  /\ request' = [request EXCEPT ![c] = r]
  /\ outcome' = [outcome EXCEPT ![c] = "none"]
  /\ got' = [got EXCEPT ![c] = <<>>]
  /\ calls' = [calls EXCEPT ![c] = @ + 1]
  /\ UNCHANGED <<poolVars, queueVars, workerVars, closeVars, accepted, ran>>

End(c, how) ==
  /\ cpc' = [cpc EXCEPT ![c] = "idle"]
  /\ outcome' = [outcome EXCEPT ![c] = how]

(* check_env: std::out_of_range for an id the pool does not have, or has   *)
(* no longer.  What the call has already submitted stays in the queues.    *)
CheckEnv(c) ==
  /\ cpc[c] = "check"
  /\ IF request[c][cat[c]] < num_servers
     THEN cpc' = [cpc EXCEPT ![c] = "push"] /\ UNCHANGED outcome
     ELSE End(c, "raised")
  /\ UNCHANGED <<cat, request, got, calls, poolVars, queueVars, workerVars,
                 closeVars, accepted, ran>>

(* The lock of push: the command is refused once the queue is closed.      *)
Push(c) ==
  LET s == request[c][cat[c]] IN
  /\ cpc[c] = "push"
  /\ IF closed[s]
     THEN End(c, "raised") /\ UNCHANGED <<q, accepted>>
     ELSE /\ q' = [q EXCEPT ![s] = Append(@, Task(c, cat[c]))]
          /\ accepted' = accepted \cup {Task(c, cat[c])}
          /\ cpc' = [cpc EXCEPT ![c] = "notify"]
          /\ UNCHANGED outcome
  /\ UNCHANGED <<cat, request, got, calls, poolVars, closed, workerVars,
                 closeVars, ran>>

Wake(s) == [wpc EXCEPT ![s] = IF @ = "wait" THEN "pop" ELSE @]

\* Mutant: only the first command of a call wakes a worker.
NotifyFirst(c) ==
  /\ cpc[c] = "notify"
  /\ wpc' = IF cat[c] = 1 THEN Wake(request[c][cat[c]]) ELSE wpc
  /\ IF cat[c] < Len(request[c])
     THEN /\ cpc' = [cpc EXCEPT ![c] = "check"]
          /\ cat' = [cat EXCEPT ![c] = @ + 1]
     ELSE /\ cpc' = [cpc EXCEPT ![c] = "get"]
          /\ cat' = [cat EXCEPT ![c] = 1]
  /\ UNCHANGED <<request, outcome, got, calls, poolVars, queueVars, cur,
                 closeVars, accepted, ran>>

(* notify_one, after the lock; then the next environment, or the futures.  *)
Notify(c) ==
  /\ cpc[c] = "notify"
  /\ wpc' = Wake(request[c][cat[c]])
  /\ IF cat[c] < Len(request[c])
     THEN /\ cpc' = [cpc EXCEPT ![c] = "check"]
          /\ cat' = [cat EXCEPT ![c] = @ + 1]
     ELSE /\ cpc' = [cpc EXCEPT ![c] = "get"]
          /\ cat' = [cat EXCEPT ![c] = 1]
  /\ UNCHANGED <<request, outcome, got, calls, poolVars, queueVars, cur,
                 closeVars, accepted, ran>>

\* Mutant: the results are taken as they become ready.
GetReady(c) ==
  /\ cpc[c] = "get"
  /\ \E i \in DOMAIN request[c] :
     \E j \in DOMAIN ran[request[c][i]] :
       /\ ran[request[c][i]][j].task = Task(c, i)
       /\ j \notin {got[c][k] : k \in {k \in DOMAIN got[c] : request[c][k] = request[c][i]}}
       /\ IF ran[request[c][i]][j].ok
          THEN /\ got' = [got EXCEPT ![c] = Append(@, j)]
               /\ IF cat[c] < Len(request[c])
                  THEN cat' = [cat EXCEPT ![c] = @ + 1] /\ UNCHANGED <<cpc, outcome>>
                  ELSE End(c, "returned") /\ UNCHANGED cat
          ELSE End(c, "raised") /\ UNCHANGED <<cat, got>>
  /\ UNCHANGED <<request, calls, poolVars, queueVars, workerVars, closeVars,
                 accepted, ran>>

(* f.get() of one future after another: the first exception ends the call  *)
(* and leaves the other futures, and their servers, to themselves.         *)
Get(c) ==
  LET s == request[c][cat[c]] IN
  /\ cpc[c] = "get"
  /\ \E j \in DOMAIN ran[s] :
       /\ ran[s][j].task = Task(c, cat[c])
       /\ IF ran[s][j].ok
          THEN /\ got' = [got EXCEPT ![c] = Append(@, j)]
               /\ IF cat[c] < Len(request[c])
                  THEN cat' = [cat EXCEPT ![c] = @ + 1] /\ UNCHANGED <<cpc, outcome>>
                  ELSE End(c, "returned") /\ UNCHANGED cat
          ELSE End(c, "raised") /\ UNCHANGED <<cat, got>>
  /\ UNCHANGED <<request, calls, poolVars, queueVars, workerVars, closeVars,
                 accepted, ran>>

CallerStep(c) == CheckEnv(c) \/ Push(c) \/ Notify(c) \/ Get(c)

-----------------------------------------------------------------------------
(* worker_loop *)

\* Mutant: pop gives up as soon as the queue is closed.
PopGivesUp(s) ==
  /\ wpc[s] = "pop"
  /\ IF closed[s]
     THEN wpc' = [wpc EXCEPT ![s] = "exit"] /\ UNCHANGED <<q, cur>>
     ELSE IF q[s] # <<>>
     THEN /\ cur' = [cur EXCEPT ![s] = Head(q[s])]
          /\ q' = [q EXCEPT ![s] = Tail(@)]
          /\ wpc' = [wpc EXCEPT ![s] = "run"]
     ELSE wpc' = [wpc EXCEPT ![s] = "wait"] /\ UNCHANGED <<q, cur>>
  /\ UNCHANGED <<poolVars, closed, callerVars, closeVars, accepted, ran>>

\* Mutant: pop takes the newest command.
PopLast(s) ==
  /\ wpc[s] = "pop"
  /\ IF q[s] # <<>>
     THEN /\ cur' = [cur EXCEPT ![s] = q[s][Len(q[s])]]
          /\ q' = [q EXCEPT ![s] = SubSeq(@, 1, Len(@) - 1)]
          /\ wpc' = [wpc EXCEPT ![s] = "run"]
     ELSE /\ wpc' = [wpc EXCEPT ![s] = IF closed[s] THEN "exit" ELSE "wait"]
          /\ UNCHANGED <<q, cur>>
  /\ UNCHANGED <<poolVars, closed, callerVars, closeVars, accepted, ran>>

(* pop under the lock: what is queued is taken even when closed_; with     *)
(* nothing queued the thread waits, or ends.                               *)
Pop(s) ==
  /\ wpc[s] = "pop"
  /\ IF q[s] # <<>>
     THEN /\ cur' = [cur EXCEPT ![s] = Head(q[s])]
          /\ q' = [q EXCEPT ![s] = Tail(@)]
          /\ wpc' = [wpc EXCEPT ![s] = "run"]
     ELSE /\ wpc' = [wpc EXCEPT ![s] = IF closed[s] THEN "exit" ELSE "wait"]
          /\ UNCHANGED <<q, cur>>
  /\ UNCHANGED <<poolVars, closed, callerVars, closeVars, accepted, ran>>

(* The packaged task keeps an exception for its future; the loop goes on.  *)
Execute(s) ==
  /\ wpc[s] = "run"
  /\ \E ok \in BOOLEAN :
       ran' = [ran EXCEPT ![s] = Append(@, [task |-> cur[s], ok |-> ok])]
  /\ cur' = [cur EXCEPT ![s] = NoTask]
  /\ wpc' = [wpc EXCEPT ![s] = "pop"]
  /\ UNCHANGED <<poolVars, queueVars, callerVars, closeVars, accepted>>

WorkerStep(s) == Pop(s) \/ Execute(s)

-----------------------------------------------------------------------------
(* close() *)

Close ==
  /\ kpc = "open"
  /\ kpc' = "close"
  /\ kat' = 0
  /\ UNCHANGED <<poolVars, queueVars, workerVars, callerVars, accepted, ran>>

CloseQueue ==
  /\ kpc = "close"
  /\ closed' = [closed EXCEPT ![kat] = TRUE]
  /\ kpc' = "notify"
  /\ UNCHANGED <<kat, poolVars, q, workerVars, callerVars, accepted, ran>>

\* Mutant: closing a queue wakes nobody.
NotifyNobody ==
  /\ kpc = "notify"
  /\ IF kat + 1 < NumServers
     THEN kpc' = "close" /\ kat' = kat + 1
     ELSE kpc' = "join" /\ kat' = 0
  /\ UNCHANGED <<poolVars, queueVars, workerVars, callerVars, accepted, ran>>

(* notify_all, after the lock: the only waiter is the queue's worker.      *)
NotifyAll ==
  /\ kpc = "notify"
  /\ wpc' = Wake(kat)
  /\ IF kat + 1 < NumServers
     THEN kpc' = "close" /\ kat' = kat + 1
     ELSE kpc' = "join" /\ kat' = 0
  /\ UNCHANGED <<poolVars, queueVars, cur, callerVars, accepted, ran>>

\* Mutant: only the first thread is joined.
JoinFirst ==
  /\ kpc = "join"
  /\ wpc[kat] = "exit"
  /\ kpc' = "clear" /\ kat' = kat
  /\ UNCHANGED <<poolVars, queueVars, workerVars, callerVars, accepted, ran>>

Join ==
  /\ kpc = "join"
  /\ wpc[kat] = "exit"
  /\ IF kat + 1 < NumServers
     THEN kpc' = kpc /\ kat' = kat + 1
     ELSE kpc' = "clear" /\ kat' = kat
  /\ UNCHANGED <<poolVars, queueVars, workerVars, callerVars, accepted, ran>>

ClearServers ==
  /\ kpc = "clear"
  /\ alive' = FALSE
  /\ kpc' = "zero"
  /\ UNCHANGED <<kat, num_servers, queueVars, workerVars, callerVars, accepted, ran>>

ZeroServers ==
  /\ kpc = "zero"
  /\ num_servers' = 0
  /\ kpc' = "closed"
  /\ UNCHANGED <<kat, alive, queueVars, workerVars, callerVars, accepted, ran>>

CloseStep == CloseQueue \/ NotifyAll \/ Join \/ ClearServers \/ ZeroServers

-----------------------------------------------------------------------------

(* Everyone has finished: the only place where the system may stop.        *)
Finished ==
  /\ kpc = "closed"
  /\ CallsMade = MaxCalls
  /\ \A c \in Callers : cpc[c] = "idle"
  /\ UNCHANGED vars

Next ==
  \/ \E c \in Callers : (\E r \in Requests : Call(c, r)) \/ CallerStep(c)
  \/ \E s \in Servers : WorkerStep(s)
  \/ Close \/ CloseStep
  \/ Finished

Spec == Init /\ [][Next]_vars

(* A thread that can take a step takes it; nobody has to make another call *)
(* or to close the pool.                                                   *)
Fairness ==
  /\ \A c \in Callers : WF_vars(CallerStep(c))
  /\ \A s \in Servers : WF_vars(WorkerStep(s))
  /\ WF_vars(CloseStep)

FairSpec == Spec /\ Fairness

-----------------------------------------------------------------------------
(* Properties *)

SeqRange(f) == {f[i] : i \in DOMAIN f}
TaskSet == [by : Callers, call : 1 .. MaxCalls, at : Nat, env : Servers]

(* Each variable keeps its type; no place is outside of what it indexes.   *)
TypeOK ==
  /\ num_servers \in {0, NumServers}
  /\ alive \in BOOLEAN
  /\ closed \in [Servers -> BOOLEAN]
  /\ \A s \in Servers : SeqRange(q[s]) \subseteq TaskSet
  /\ wpc \in [Servers -> {"pop", "wait", "run", "exit"}]
  /\ \A s \in Servers : cur[s] \in IF wpc[s] = "run" THEN TaskSet ELSE {NoTask}
  /\ cpc \in [Callers -> {"idle", "check", "push", "notify", "get"}]
  /\ request \in [Callers -> Requests \cup {<<>>}]
  /\ \A c \in Callers : cpc[c] # "idle" => cat[c] \in DOMAIN request[c]
  /\ outcome \in [Callers -> {"none", "returned", "raised"}]
  /\ calls \in [Callers -> 0 .. MaxCalls]
  /\ kpc \in {"open", "close", "notify", "join", "clear", "zero", "closed"}
  /\ kat \in Servers
  /\ accepted \subseteq TaskSet
  /\ \A s \in Servers : \A j \in DOMAIN ran[s] : ran[s][j].task \in TaskSet

(* A command push() accepted is in its queue, in the hands of its worker   *)
(* or has been run, and a worker that has ended has left none of them,     *)
(* however close() races the submission: none is silently dropped.         *)
NothingDropped ==
  \A t \in accepted :
    LET s == t.env IN
    \/ t \in SeqRange(q[s]) /\ wpc[s] # "exit"
    \/ cur[s] = t
    \/ \E j \in DOMAIN ran[s] : ran[s][j].task = t

Before(t, u) == t.call < u.call \/ (t.call = u.call /\ t.at < u.at)

(* A server runs the commands of one caller in the order of its calls and  *)
(* each once, also those an earlier call abandoned when it raised.         *)
ProgramOrder ==
  \A s \in Servers : \A i, j \in DOMAIN ran[s] :
    i < j /\ ran[s][i].task.by = ran[s][j].task.by
      => Before(ran[s][i].task, ran[s][j].task)

(* A call that returned has one result per environment it named, in that   *)
(* order and from this very call, so all of its commands have been run     *)
(* ("Blocks until all selected environments have completed the step").     *)
ResultsInRequestOrder ==
  \A c \in Callers : outcome[c] = "returned" =>
    /\ Len(got[c]) = Len(request[c])
    /\ \A i \in DOMAIN got[c] :
         /\ got[c][i] \in DOMAIN ran[request[c][i]]
         /\ ran[request[c][i]][got[c][i]] = [task |-> Task(c, i), ok |-> TRUE]

(* close() lets go of the servers only when no worker can run a command on *)
(* one any more.                                                           *)
ServersOutliveWorkers ==
  ~alive => \A s \in Servers : wpc[s] = "exit" /\ q[s] = <<>>

(* Every call ends, by returning or by raising, also when the pool is      *)
(* closed in the middle of it.                                             *)
CallsEnd == \A c \in Callers : cpc[c] # "idle" ~> cpc[c] = "idle"

(* close() returns: it wakes every worker, each of which ends.             *)
CloseReturns == kpc = "close" ~> kpc = "closed"
=============================================================================
