------------------------ MODULE AsyncServerPool_proofs ------------------------
(***************************************************************************)
(* Safety of AsyncServerPool, for any number of servers, threads, calls    *)
(* and lists of environments.                                              *)
(***************************************************************************)
EXTENDS AsyncServerPool, TLAPS

Tasks == [by : Callers, call : Nat, at : Nat, env : Servers]
Runs  == [task : Tasks, ok : BOOLEAN]

Types ==
  /\ num_servers \in {0, NumServers}
  /\ closed \in [Servers -> BOOLEAN]
  /\ q \in [Servers -> Seq(Tasks)]
  /\ wpc \in [Servers -> {"pop", "wait", "run", "exit"}]
  /\ cur \in [Servers -> Tasks \cup {NoTask}]
  /\ cpc \in [Callers -> {"idle", "check", "push", "notify", "get"}]
  /\ cat \in [Callers -> Nat \ {0}]
  /\ request \in [Callers -> Seq(Nat)]
  /\ outcome \in [Callers -> {"none", "returned", "raised"}]
  /\ got \in [Callers -> Seq(Nat)]
  /\ calls \in [Callers -> Nat]
  /\ kpc \in {"open", "close", "notify", "join", "clear", "zero", "closed"}
  /\ kat \in Servers
  /\ accepted \subseteq Tasks
  /\ ran \in [Servers -> Seq(Runs)]

(* How far close() has come, in the two loops that go through the queues   *)
(* and the threads.                                                        *)
Closing ==
  /\ \A s \in Servers : wpc[s] = "exit" => closed[s] /\ q[s] = <<>>
  /\ kpc = "join" => \A s \in Servers : s < kat => wpc[s] = "exit"
  /\ kpc \in {"clear", "zero", "closed"} => \A s \in Servers : wpc[s] = "exit"
  /\ ~alive => kpc \in {"zero", "closed"}

(* The environments that a call in progress has checked are servers.       *)
Checked(c) ==
  /\ cpc[c] # "idle" => cat[c] \in DOMAIN request[c]
  /\ cpc[c] \in {"check", "push", "notify"} =>
       \A i \in DOMAIN request[c] : i < cat[c] => request[c][i] \in Servers
  /\ cpc[c] \in {"push", "notify"} => request[c][cat[c]] \in Servers
  /\ cpc[c] = "get" => \A i \in DOMAIN request[c] : request[c][i] \in Servers

(* A worker has a command just while it runs it, and everything queued,    *)
(* taken or run was accepted; with NothingDropped, nothing else was.       *)
Held ==
  /\ \A s \in Servers : IF wpc[s] = "run" THEN cur[s] \in accepted ELSE cur[s] = NoTask
  /\ \A s \in Servers : \A i \in DOMAIN q[s] : q[s][i] \in accepted
  /\ \A s \in Servers : \A j \in DOMAIN ran[s] : ran[s][j].task \in accepted

(* What a call may still submit comes after all its thread has submitted.  *)
Submitted ==
  \A t \in accepted :
    /\ t.call <= calls[t.by]
    /\ t.call = calls[t.by] => /\ cpc[t.by] \in {"check", "push"} => t.at < cat[t.by]
                               /\ cpc[t.by] = "notify" => t.at <= cat[t.by]

Follows(t, u) == t.by = u.by => Before(t, u)

(* The commands a server has run, runs and will run, in one line.          *)
InLine(s) ==
  /\ \A i, j \in DOMAIN ran[s] : i < j => Follows(ran[s][i].task, ran[s][j].task)
  /\ wpc[s] = "run" => \A i \in DOMAIN ran[s] : Follows(ran[s][i].task, cur[s])
  /\ wpc[s] = "run" => \A j \in DOMAIN q[s] : Follows(cur[s], q[s][j])
  /\ \A i \in DOMAIN ran[s], j \in DOMAIN q[s] : Follows(ran[s][i].task, q[s][j])
  /\ \A i, j \in DOMAIN q[s] : i < j => Follows(q[s][i], q[s][j])

(* The i-th result of c's call is that of its i-th command.                *)
ResultAt(c, i) ==
  /\ i \in DOMAIN request[c]
  /\ request[c][i] \in Servers
  /\ got[c][i] \in DOMAIN ran[request[c][i]]
  /\ ran[request[c][i]][got[c][i]] = [task |-> Task(c, i), ok |-> TRUE]

Collected(c) ==
  /\ cpc[c] \in {"check", "push", "notify"} => got[c] = <<>>
  /\ cpc[c] = "get" => Len(got[c]) = cat[c] - 1
  /\ cpc[c] # "idle" => outcome[c] = "none"
  /\ outcome[c] = "returned" => Len(got[c]) = Len(request[c])
  /\ \A i \in DOMAIN got[c] : ResultAt(c, i)

(* The inductive invariant: NothingDropped is a part of it, the other      *)
(* properties follow from Closing, InLine and Collected.                   *)
IInv ==
  /\ Types
  /\ Closing
  /\ \A c \in Callers : Checked(c)
  /\ Held
  /\ NothingDropped
  /\ Submitted
  /\ \A s \in Servers : InLine(s)
  /\ \A c \in Callers : Collected(c)

-----------------------------------------------------------------------------
(* Sequences *)

LEMMA AppendFacts ==
  ASSUME NEW S, NEW f \in Seq(S), NEW e \in S
  PROVE  /\ Append(f, e) \in Seq(S)
         /\ DOMAIN Append(f, e) = DOMAIN f \cup {Len(f) + 1}
         /\ \A i \in DOMAIN f : Append(f, e)[i] = f[i] /\ i < Len(f) + 1
         /\ Append(f, e)[Len(f) + 1] = e
  OBVIOUS

LEMMA PopFacts ==
  ASSUME NEW S, NEW f \in Seq(S), f # <<>>
  PROVE  /\ Tail(f) \in Seq(S)
         /\ 1 \in DOMAIN f /\ Head(f) = f[1] /\ Head(f) \in S
         /\ \A i \in DOMAIN Tail(f) : i + 1 \in DOMAIN f /\ Tail(f)[i] = f[i + 1]
                                      /\ i \in Nat /\ 1 < i + 1
         /\ \A i \in DOMAIN f : i = 1 \/ (i - 1 \in DOMAIN Tail(f) /\ Tail(f)[i - 1] = f[i])
  OBVIOUS

LEMMA TaskInTasks ==
  ASSUME Types, NEW c \in Callers, NEW i \in DOMAIN request[c], request[c][i] \in Servers
  PROVE  /\ Task(c, i) \in Tasks
         /\ Task(c, i).by = c /\ Task(c, i).call = calls[c]
         /\ Task(c, i).at = i /\ Task(c, i).env = request[c][i]
  BY DEF Types, Task, Tasks

LEMMA NoTaskIsNone == NoTask \notin Tasks
  <1> SUFFICES ASSUME NoTask \in Tasks PROVE FALSE
    OBVIOUS
  <1>1. "call" \in DOMAIN NoTask
    BY DEF Tasks
  <1> QED
    BY <1>1 DEF NoTask

-----------------------------------------------------------------------------
(* The start *)

LEMMA InitIInv == Init => IInv
  <1> SUFFICES ASSUME Init PROVE IInv
    OBVIOUS
  <1> USE DEF Init
  <1>1. Types
    BY SizeAssumption DEF Types, Servers
  <1>2. Closing /\ Held /\ NothingDropped /\ Submitted
    BY DEF Closing, Held, NothingDropped, Submitted
  <1>3. \A c \in Callers : Checked(c) /\ Collected(c)
    BY DEF Checked, Collected
  <1>4. \A s \in Servers : InLine(s)
    BY DEF InLine
  <1> QED
    BY <1>1, <1>2, <1>3, <1>4 DEF IInv

-----------------------------------------------------------------------------
(* Each part is preserved *)

LEMMA TypesNext ==
  ASSUME IInv, Next
  PROVE  Types'
  <1> USE DEF IInv
  <1>1. ASSUME NEW c \in Callers, NEW r \in Requests, Call(c, r)
        PROVE  Types'
    BY <1>1, RequestsAssumption
       DEF Types, Call, poolVars, queueVars, workerVars, closeVars
  <1>2. ASSUME NEW c \in Callers, CheckEnv(c)
        PROVE  Types'
    BY <1>2 DEF Types, CheckEnv, End, poolVars, queueVars, workerVars, closeVars
  <1>3. ASSUME NEW c \in Callers, Push(c)
        PROVE  Types'
    <2>1. /\ request[c][cat[c]] \in Servers
          /\ Task(c, cat[c]) \in Tasks
      BY <1>3, TaskInTasks DEF Push, Checked
    <2>2. CASE closed[request[c][cat[c]]]
      BY <1>3, <2>2 DEF Types, Push, End, poolVars, workerVars, closeVars
    <2>3. CASE ~closed[request[c][cat[c]]]
      <3> DEFINE e == request[c][cat[c]]
      <3>1. Append(q[e], Task(c, cat[c])) \in Seq(Tasks)
        BY <2>1, AppendFacts DEF Types
      <3>2. /\ q' = [q EXCEPT ![e] = Append(q[e], Task(c, cat[c]))]
            /\ accepted' = accepted \cup {Task(c, cat[c])}
        BY <1>3, <2>3 DEF Push
      <3>3. q' \in [Servers -> Seq(Tasks)] /\ accepted' \subseteq Tasks
        BY <2>1, <3>1, <3>2 DEF Types
      <3> QED
        BY <1>3, <2>3, <3>3 DEF Types, Push, poolVars, workerVars, closeVars
    <2> QED
      BY <2>2, <2>3
  <1>4. ASSUME NEW c \in Callers, Notify(c)
        PROVE  Types'
    <2>1. wpc' \in [Servers -> {"pop", "wait", "run", "exit"}]
      BY <1>4 DEF Types, Notify, Wake
    <2>2. /\ cpc' \in [Callers -> {"idle", "check", "push", "notify", "get"}]
          /\ cat' \in [Callers -> Nat \ {0}]
      <3>1. cat[c] + 1 \in Nat \ {0} /\ 1 \in Nat \ {0}
        BY DEF Types
      <3>2. \/ /\ cpc' = [cpc EXCEPT ![c] = "check"]
               /\ cat' = [cat EXCEPT ![c] = cat[c] + 1]
            \/ /\ cpc' = [cpc EXCEPT ![c] = "get"]
               /\ cat' = [cat EXCEPT ![c] = 1]
        BY <1>4 DEF Notify
      <3>3. cpc' \in [Callers -> {"idle", "check", "push", "notify", "get"}]
        BY <3>2 DEF Types
      <3>4. cat' \in [Callers -> Nat \ {0}]
        BY <3>1, <3>2 DEF Types
      <3> QED
        BY <3>3, <3>4
    <2> QED
      BY <1>4, <2>1, <2>2 DEF Types, Notify, poolVars, queueVars, closeVars
  <1>5. ASSUME NEW c \in Callers, Get(c)
        PROVE  Types'
    <2>1. request[c][cat[c]] \in Servers
      BY <1>5 DEF Get, Checked
    <2>2. PICK j \in DOMAIN ran[request[c][cat[c]]] :
            IF ran[request[c][cat[c]]][j].ok
            THEN /\ got' = [got EXCEPT ![c] = Append(@, j)]
                 /\ IF cat[c] < Len(request[c])
                    THEN cat' = [cat EXCEPT ![c] = @ + 1] /\ UNCHANGED <<cpc, outcome>>
                    ELSE End(c, "returned") /\ UNCHANGED cat
            ELSE End(c, "raised") /\ UNCHANGED <<cat, got>>
      BY <1>5 DEF Get
    <2>3. j \in Nat
      BY <2>1 DEF Types
    <2>4. got' \in [Callers -> Seq(Nat)]
      <3>1. Append(got[c], j) \in Seq(Nat)
        BY <2>3, AppendFacts DEF Types
      <3> QED
        BY <2>2, <3>1 DEF Types
    <2>5. /\ cpc' \in [Callers -> {"idle", "check", "push", "notify", "get"}]
          /\ cat' \in [Callers -> Nat \ {0}]
          /\ outcome' \in [Callers -> {"none", "returned", "raised"}]
      <3>1. \/ cpc' = cpc
            \/ cpc' = [cpc EXCEPT ![c] = "idle"]
        BY <2>2 DEF End
      <3>2. \/ cat' = cat
            \/ cat' = [cat EXCEPT ![c] = cat[c] + 1]
        BY <2>2
      <3>3. \/ outcome' = outcome
            \/ \E how \in {"returned", "raised"} : outcome' = [outcome EXCEPT ![c] = how]
        BY <2>2 DEF End
      <3>4. cat[c] + 1 \in Nat \ {0}
        BY DEF Types
      <3>5. cpc' \in [Callers -> {"idle", "check", "push", "notify", "get"}]
        BY <3>1 DEF Types
      <3>6. cat' \in [Callers -> Nat \ {0}]
        BY <3>2, <3>4 DEF Types
      <3>7. outcome' \in [Callers -> {"none", "returned", "raised"}]
        BY <3>3 DEF Types
      <3> QED
        BY <3>5, <3>6, <3>7
    <2> QED
      BY <1>5, <2>4, <2>5 DEF Types, Get, poolVars, queueVars, workerVars, closeVars
  <1>6. ASSUME NEW s \in Servers, Pop(s)
        PROVE  Types'
    <2>1. CASE q[s] # <<>>
      <3>1. Tail(q[s]) \in Seq(Tasks) /\ Head(q[s]) \in Tasks
        BY <2>1, PopFacts DEF Types
      <3> QED
        <4>1. /\ cur' = [cur EXCEPT ![s] = Head(q[s])]
              /\ q' = [q EXCEPT ![s] = Tail(q[s])]
              /\ wpc' = [wpc EXCEPT ![s] = "run"]
          BY <1>6, <2>1 DEF Pop
        <4>2. /\ cur' \in [Servers -> Tasks \cup {NoTask}]
              /\ q' \in [Servers -> Seq(Tasks)]
              /\ wpc' \in [Servers -> {"pop", "wait", "run", "exit"}]
          BY <3>1, <4>1 DEF Types
        <4> QED
          BY <1>6, <4>2 DEF Types, Pop, poolVars, callerVars, closeVars
    <2>2. CASE q[s] = <<>>
      BY <1>6, <2>2 DEF Types, Pop, poolVars, callerVars, closeVars
    <2> QED
      BY <2>1, <2>2
  <1>7. ASSUME NEW s \in Servers, Execute(s)
        PROVE  Types'
    <2>1. PICK ok \in BOOLEAN :
            ran' = [ran EXCEPT ![s] = Append(@, [task |-> cur[s], ok |-> ok])]
      BY <1>7 DEF Execute
    <2>2. [task |-> cur[s], ok |-> ok] \in Runs
      BY <1>7 DEF Execute, Held, Types, Runs
    <2>3. ran' \in [Servers -> Seq(Runs)]
      BY <2>1, <2>2, AppendFacts DEF Types
    <2> QED
      BY <1>7, <2>3 DEF Types, Execute, poolVars, queueVars, callerVars, closeVars
  <1>8. CASE Close \/ CloseStep
    <2> DEFINE KPCs == {"open", "close", "notify", "join", "clear", "zero", "closed"}
    <2>0. 0 \in Servers /\ (kat + 1 < NumServers => kat + 1 \in Servers)
      BY SizeAssumption DEF Types, Servers
    <2>1. CASE Close
      BY <2>0, <2>1 DEF Types, Close, poolVars, queueVars, workerVars, callerVars
    <2>2. CASE CloseQueue
      BY <2>2 DEF Types, CloseQueue, poolVars, workerVars, callerVars
    <2>3. CASE NotifyAll
      <3>1. wpc' \in [Servers -> {"pop", "wait", "run", "exit"}]
        BY <2>3 DEF NotifyAll, Wake, Types
      <3>2. kpc' \in KPCs /\ kat' \in Servers
        BY <2>0, <2>3 DEF NotifyAll
      <3> QED
        BY <2>3, <3>1, <3>2 DEF Types, NotifyAll, poolVars, queueVars, callerVars
    <2>4. CASE Join
      <3>1. kpc' \in KPCs /\ kat' \in Servers
        BY <2>0, <2>4 DEF Join, Types
      <3> QED
        BY <2>4, <3>1 DEF Types, Join, poolVars, queueVars, workerVars, callerVars
    <2>5. CASE ClearServers \/ ZeroServers
      BY <2>5 DEF Types, ClearServers, ZeroServers, queueVars, workerVars, callerVars
    <2> QED
      BY <1>8, <2>1, <2>2, <2>3, <2>4, <2>5 DEF CloseStep
  <1>9. CASE Finished
    BY <1>9 DEF Finished, Types, vars, poolVars, queueVars, workerVars, callerVars, closeVars
  <1> QED
    BY <1>1, <1>2, <1>3, <1>4, <1>5, <1>6, <1>7, <1>8, <1>9
       DEF Next, CallerStep, WorkerStep

LEMMA ClosingNext ==
  ASSUME IInv, Next
  PROVE  Closing'
  <1> USE DEF IInv
  <1>1. ASSUME UNCHANGED <<closed, q, wpc, kpc, kat, alive>>
        PROVE  Closing'
    BY <1>1 DEF Closing
  <1>2. CASE \E c \in Callers : (\E r \in Requests : Call(c, r)) \/ CheckEnv(c) \/ Get(c)
    BY <1>1, <1>2 DEF Call, CheckEnv, Get, poolVars, queueVars, workerVars, closeVars
  <1>3. ASSUME NEW c \in Callers, Push(c)
        PROVE  Closing'
    <2>1. \A s \in Servers : closed[s] => q'[s] = q[s]
      BY <1>3 DEF Push, Types
    <2> QED
      BY <1>3, <2>1 DEF Closing, Push, poolVars, workerVars, closeVars
  <1>4. ASSUME NEW c \in Callers, Notify(c)
        PROVE  Closing'
    <2>1. \A s \in Servers : wpc[s] = "exit" <=> wpc'[s] = "exit"
      BY <1>4 DEF Notify, Wake, Types
    <2> QED
      BY <1>4, <2>1 DEF Closing, Notify, poolVars, queueVars, closeVars
  <1>5. ASSUME NEW s \in Servers, Pop(s)
        PROVE  Closing'
    <2>1. wpc[s] # "exit"
      BY <1>5 DEF Pop
    <2>2. \A t \in Servers : t # s => wpc'[t] = wpc[t] /\ q'[t] = q[t]
      BY <1>5 DEF Pop, Types
    <2>3. wpc'[s] = "exit" => closed[s] /\ q'[s] = <<>>
      BY <1>5 DEF Pop, Types
    <2> QED
      BY <1>5, <2>1, <2>2, <2>3 DEF Closing, Pop, poolVars, closeVars
  <1>6. ASSUME NEW s \in Servers, Execute(s)
        PROVE  Closing'
    BY <1>6 DEF Closing, Types, Execute, poolVars, queueVars, closeVars
  <1>7. CASE Close
    BY <1>7 DEF Closing, Close, poolVars, queueVars, workerVars
  <1>8. CASE CloseQueue
    BY <1>8 DEF Closing, Types, CloseQueue, poolVars, workerVars
  <1>9. CASE NotifyAll
    <2>1. \A s \in Servers : wpc[s] = "exit" <=> wpc'[s] = "exit"
      BY <1>9 DEF NotifyAll, Wake, Types
    <2>2. kat' = 0 \/ kpc' # "join"
      BY <1>9 DEF NotifyAll
    <2> QED
      BY <1>9, <2>1, <2>2 DEF Closing, NotifyAll, poolVars, queueVars, Servers
  <1>10. CASE Join
    <2>1. \A s \in Servers : s < kat + 1 => wpc[s] = "exit"
      BY <1>10 DEF Join, Closing, Types, Servers
    <2> QED
      <3>1. UNCHANGED <<alive, closed, q, wpc>> /\ alive
        BY <1>10 DEF Join, Closing, poolVars, queueVars, workerVars
      <3>2. CASE kat + 1 < NumServers
        BY <1>10, <2>1, <3>1, <3>2 DEF Join, Closing
      <3>3. CASE ~(kat + 1 < NumServers)
        <4>1. \A s \in Servers : wpc[s] = "exit"
          BY <2>1, <3>3, SizeAssumption DEF Types, Servers
        <4>2. kpc' = "clear"
          BY <1>10, <3>3 DEF Join
        <4> QED
          BY <3>1, <4>1, <4>2 DEF Closing
      <3> QED
        BY <3>2, <3>3
  <1>11. CASE ClearServers \/ ZeroServers
    BY <1>11 DEF Closing, ClearServers, ZeroServers, queueVars, workerVars
  <1>12. CASE Finished
    BY <1>1, <1>12 DEF Finished, vars, poolVars, queueVars, workerVars, closeVars
  <1> QED
    BY <1>2, <1>3, <1>4, <1>5, <1>6, <1>7, <1>8, <1>9, <1>10, <1>11, <1>12
       DEF Next, CallerStep, WorkerStep, CloseStep

LEMMA CheckedNext ==
  ASSUME IInv, Next, NEW c \in Callers
  PROVE  Checked(c)'
  <1> USE DEF IInv
  <1>1. ASSUME cpc'[c] = cpc[c], cat'[c] = cat[c], request'[c] = request[c]
        PROVE  Checked(c)'
    BY <1>1 DEF Checked
  <1>2. ASSUME NEW d \in Callers, NEW r \in Requests, Call(d, r)
        PROVE  Checked(c)'
    <2>1. CASE d = c
      <3>1. cpc'[c] = "check" /\ cat'[c] = 1 /\ request'[c] = r
        BY <1>2, <2>1 DEF Call, Types
      <3>2. r \in Seq(Nat) /\ 1 \in DOMAIN r /\ \A i \in DOMAIN r : ~(i < 1)
        BY RequestsAssumption
      <3> QED
        BY <3>1, <3>2 DEF Checked
    <2> QED
      BY <1>1, <1>2, <2>1 DEF Call, Types
  <1>3. ASSUME NEW d \in Callers, CheckEnv(d)
        PROVE  Checked(c)'
    <2>1. CASE d = c
      <3>1. request[c][cat[c]] < num_servers => request[c][cat[c]] \in Servers
        <4>1. cat[c] \in DOMAIN request[c]
          BY <1>3, <2>1 DEF CheckEnv, Checked
        <4>2. request[c][cat[c]] \in Nat
          BY <4>1 DEF Types
        <4>3. num_servers <= NumServers /\ num_servers \in Nat
          BY SizeAssumption DEF Types
        <4> QED
          BY <4>2, <4>3, SizeAssumption DEF Servers
      <3>2. /\ cpc[c] = "check" /\ cat'[c] = cat[c] /\ request'[c] = request[c]
            /\ \/ cpc'[c] = "push" /\ request[c][cat[c]] < num_servers
               \/ cpc'[c] = "idle"
        BY <1>3, <2>1 DEF CheckEnv, Types, End
      <3> QED
        BY <3>1, <3>2 DEF Checked
    <2> QED
      BY <1>1, <1>3, <2>1 DEF CheckEnv, Types, End
  <1>4. ASSUME NEW d \in Callers, Push(d)
        PROVE  Checked(c)'
    <2>1. CASE d = c
      <3>1. /\ cpc[c] = "push" /\ cpc'[c] \in {"notify", "idle"}
            /\ cat'[c] = cat[c] /\ request'[c] = request[c]
        BY <1>4, <2>1 DEF Push, Types, End
      <3> QED
        BY <3>1 DEF Checked
    <2> QED
      BY <1>1, <1>4, <2>1 DEF Push, Types, End
  <1>5. ASSUME NEW d \in Callers, Notify(d)
        PROVE  Checked(c)'
    <2>1. CASE d = c
      <3>1. \A i \in DOMAIN request[c] : i < cat[c] + 1 => request[c][i] \in Servers
        BY <1>5, <2>1 DEF Notify, Checked, Types
      <3>2. CASE cat[c] < Len(request[c])
        <4>1. cpc'[c] = "check" /\ cat'[c] = cat[c] + 1 /\ request'[c] = request[c]
          BY <1>5, <2>1, <3>2 DEF Notify, Types
        <4>2. cat[c] + 1 \in DOMAIN request[c]
          BY <3>2 DEF Types
        <4> QED
          BY <3>1, <4>1, <4>2 DEF Checked
      <3>3. CASE ~(cat[c] < Len(request[c]))
        <4>1. cpc'[c] = "get" /\ cat'[c] = 1 /\ request'[c] = request[c]
          BY <1>5, <2>1, <3>3 DEF Notify, Types
        <4>2. 1 \in DOMAIN request[c] /\ \A i \in DOMAIN request[c] : i < cat[c] + 1
          BY <1>5, <2>1, <3>3 DEF Notify, Checked, Types
        <4> QED
          BY <3>1, <4>1, <4>2 DEF Checked
      <3> QED
        BY <3>2, <3>3
    <2> QED
      BY <1>1, <1>5, <2>1 DEF Notify, Types
  <1>6. ASSUME NEW d \in Callers, Get(d)
        PROVE  Checked(c)'
    <2>1. CASE d = c
      <3>1. cpc[c] = "get" /\ request'[c] = request[c]
        BY <1>6, <2>1 DEF Get
      <3>2. \/ cpc'[c] = "idle"
            \/ cpc'[c] = "get" /\ cat'[c] = cat[c] + 1 /\ cat[c] < Len(request[c])
        BY <1>6, <2>1 DEF Get, End, Types
      <3>3. cat[c] < Len(request[c]) => cat[c] + 1 \in DOMAIN request[c]
        BY DEF Types
      <3> QED
        BY <3>1, <3>2, <3>3 DEF Checked
    <2> QED
      BY <1>1, <1>6, <2>1 DEF Get, Types, End
  <1>7. CASE \E s \in Servers : WorkerStep(s)
    BY <1>1, <1>7 DEF WorkerStep, Pop, Execute, callerVars
  <1>8. CASE Close \/ CloseStep
    BY <1>1, <1>8 DEF Close, CloseStep, CloseQueue, NotifyAll, Join, ClearServers,
                      ZeroServers, callerVars
  <1>9. CASE Finished
    BY <1>1, <1>9 DEF Finished, vars, callerVars
  <1> QED
    BY <1>2, <1>3, <1>4, <1>5, <1>6, <1>7, <1>8, <1>9 DEF Next, CallerStep

LEMMA HeldNext ==
  ASSUME IInv, Next
  PROVE  Held'
  <1> USE DEF IInv
  <1>1. ASSUME UNCHANGED <<q, cur, ran, accepted>>,
               \A s \in Servers : wpc'[s] = "run" <=> wpc[s] = "run"
        PROVE  Held'
    BY <1>1 DEF Held
  <1>2. CASE \E c \in Callers : (\E r \in Requests : Call(c, r)) \/ CheckEnv(c) \/ Get(c)
    BY <1>1, <1>2 DEF Call, CheckEnv, Get, queueVars, workerVars
  <1>3. ASSUME NEW c \in Callers, Push(c)
        PROVE  Held'
    <2> DEFINE e == request[c][cat[c]]
    <2>1. e \in Servers /\ Task(c, cat[c]) \in Tasks
      BY <1>3, TaskInTasks DEF Push, Checked
    <2>2. CASE closed[e]
      BY <1>1, <1>3, <2>2 DEF Push, workerVars
    <2>3. CASE ~closed[e]
      <3>1. /\ q'[e] = Append(q[e], Task(c, cat[c]))
            /\ \A s \in Servers : s # e => q'[s] = q[s]
            /\ accepted' = accepted \cup {Task(c, cat[c])}
        BY <1>3, <2>1, <2>3 DEF Push, Types
      <3>2. \A i \in DOMAIN q'[e] : q'[e][i] \in accepted'
        BY <2>1, <3>1, AppendFacts DEF Held, Types
      <3> QED
        BY <1>3, <3>1, <3>2 DEF Held, Push, workerVars
    <2> QED
      BY <2>2, <2>3
  <1>4. ASSUME NEW c \in Callers, Notify(c)
        PROVE  Held'
    BY <1>1, <1>4 DEF Notify, Wake, Types, queueVars
  <1>5. ASSUME NEW s \in Servers, Pop(s)
        PROVE  Held'
    <2>1. CASE q[s] # <<>>
      <3>1. Head(q[s]) \in accepted /\ \A i \in DOMAIN Tail(q[s]) : Tail(q[s])[i] \in accepted
        BY <2>1, PopFacts DEF Held, Types
      <3> QED
        BY <1>5, <2>1, <3>1 DEF Held, Pop, Types
    <2>2. CASE q[s] = <<>>
      BY <1>5, <2>2 DEF Held, Pop, Types
    <2> QED
      BY <2>1, <2>2
  <1>6. ASSUME NEW s \in Servers, Execute(s)
        PROVE  Held'
    <2>1. PICK ok \in BOOLEAN :
            ran' = [ran EXCEPT ![s] = Append(@, [task |-> cur[s], ok |-> ok])]
      BY <1>6 DEF Execute
    <2>2. cur[s] \in accepted /\ [task |-> cur[s], ok |-> ok] \in Runs
      BY <1>6 DEF Execute, Held, Types, Runs
    <2>3. \A j \in DOMAIN ran'[s] : ran'[s][j].task \in accepted
      BY <2>1, <2>2, AppendFacts DEF Held, Types
    <2> QED
      BY <1>6, <2>1, <2>3 DEF Held, Execute, Types, queueVars
  <1>7. CASE Close \/ CloseStep
    BY <1>1, <1>7 DEF Close, CloseStep, CloseQueue, NotifyAll, Wake, Join, ClearServers,
                      ZeroServers, Types, queueVars, workerVars
  <1>8. CASE Finished
    BY <1>1, <1>8 DEF Finished, vars, queueVars, workerVars
  <1> QED
    BY <1>2, <1>3, <1>4, <1>5, <1>6, <1>7, <1>8 DEF Next, CallerStep, WorkerStep

(* Where a task may be, said of indices. *)
LEMMA InRange ==
  ASSUME NEW f, NEW t
  PROVE  t \in SeqRange(f) <=> \E i \in DOMAIN f : f[i] = t
  BY DEF SeqRange

LEMMA DroppedNext ==
  ASSUME IInv, Next
  PROVE  NothingDropped'
  <1> USE DEF IInv
  <1>1. ASSUME UNCHANGED <<q, cur, ran, accepted>>,
               \A s \in Servers : wpc'[s] = "exit" <=> wpc[s] = "exit"
        PROVE  NothingDropped'
    BY <1>1 DEF NothingDropped, Types, Tasks
  <1>2. CASE \E c \in Callers : (\E r \in Requests : Call(c, r)) \/ CheckEnv(c) \/ Get(c)
    BY <1>1, <1>2 DEF Call, CheckEnv, Get, queueVars, workerVars
  <1>3. ASSUME NEW c \in Callers, Push(c)
        PROVE  NothingDropped'
    <2> DEFINE e == request[c][cat[c]]
               u == Task(c, cat[c])
    <2>1. e \in Servers /\ u \in Tasks /\ u.env = e
      BY <1>3, TaskInTasks DEF Push, Checked
    <2>2. CASE closed[e]
      BY <1>1, <1>3, <2>2 DEF Push, workerVars
    <2>3. CASE ~closed[e]
      <3>1. /\ q'[e] = Append(q[e], u)
            /\ \A s \in Servers : s # e => q'[s] = q[s]
            /\ accepted' = accepted \cup {u}
            /\ UNCHANGED <<wpc, cur, ran>>
        BY <1>3, <2>1, <2>3 DEF Push, Types, workerVars
      <3>a. q[e] \in Seq(Tasks)
        BY <2>1 DEF Types
      <3>2. \A s \in Servers : SeqRange(q[s]) \subseteq SeqRange(q'[s])
        <4>1. \A i \in DOMAIN q[e] : i \in DOMAIN q'[e] /\ q'[e][i] = q[e][i]
          BY <2>1, <3>1, <3>a, AppendFacts
        <4> QED
          BY <3>1, <4>1 DEF SeqRange
      <3>3. u \in SeqRange(q'[e]) /\ wpc[e] # "exit"
        <4>1. \E i \in DOMAIN q'[e] : q'[e][i] = u
          <5>1. /\ Len(q[e]) + 1 \in DOMAIN q'[e]
                /\ q'[e][Len(q[e]) + 1] = u
            BY <2>1, <3>1, <3>a, AppendFacts
          <5> QED
            BY <5>1
        <4>2. wpc[e] # "exit"
          BY <2>1, <2>3 DEF Closing
        <4> QED
          BY <4>1, <4>2 DEF SeqRange
      <3>4. SUFFICES ASSUME NEW t \in accepted'
                     PROVE  \/ t \in SeqRange(q'[t.env]) /\ wpc'[t.env] # "exit"
                            \/ cur'[t.env] = t
                            \/ \E j \in DOMAIN ran'[t.env] : ran'[t.env][j].task = t
        BY DEF NothingDropped
      <3>5. CASE t = u
        BY <2>1, <3>1, <3>3, <3>5
      <3>6. CASE t \in accepted
        <4>1. t.env \in Servers
          BY <3>6 DEF Types, Tasks
        <4>2. \/ t \in SeqRange(q[t.env]) /\ wpc[t.env] # "exit"
              \/ cur[t.env] = t
              \/ \E j \in DOMAIN ran[t.env] : ran[t.env][j].task = t
          BY <3>6 DEF NothingDropped
        <4> QED
          BY <3>1, <3>2, <4>1, <4>2
      <3> QED
        BY <3>1, <3>5, <3>6
    <2> QED
      BY <2>2, <2>3
  <1>4. ASSUME NEW c \in Callers, Notify(c)
        PROVE  NothingDropped'
    BY <1>1, <1>4 DEF Notify, Wake, Types, queueVars
  <1>5. ASSUME NEW s \in Servers, Pop(s)
        PROVE  NothingDropped'
    <2>1. UNCHANGED <<ran, accepted>> /\ \A t \in Tasks : cur[s] # t
      BY <1>5, NoTaskIsNone DEF Pop, Held
    <2>2. \A r \in Servers : r # s => q'[r] = q[r] /\ wpc'[r] = wpc[r] /\ cur'[r] = cur[r]
      BY <1>5 DEF Pop, Types
    <2>3. ASSUME NEW t \in SeqRange(q[s])
          PROVE  cur'[s] = t \/ (t \in SeqRange(q'[s]) /\ wpc'[s] # "exit")
      <3>1. q[s] # <<>>
        BY <2>3, InRange DEF Types
      <3>2. cur'[s] = Head(q[s]) /\ q'[s] = Tail(q[s]) /\ wpc'[s] = "run"
        BY <1>5, <3>1 DEF Pop, Types
      <3> QED
        <4>1. PICK i \in DOMAIN q[s] : q[s][i] = t
          BY <2>3 DEF SeqRange
        <4>2. /\ Head(q[s]) = q[s][1]
              /\ i = 1 \/ (i - 1 \in DOMAIN Tail(q[s]) /\ Tail(q[s])[i - 1] = q[s][i])
          BY <3>1, <4>1, PopFacts DEF Types
        <4>3. CASE i = 1
          BY <3>2, <4>1, <4>2, <4>3
        <4>4. CASE i # 1
          <5>1. \E k \in DOMAIN q'[s] : q'[s][k] = t
            BY <3>2, <4>1, <4>2, <4>4
          <5> QED
            BY <3>2, <5>1 DEF SeqRange
        <4> QED
          BY <4>3, <4>4
    <2>4. SUFFICES ASSUME NEW t \in accepted
                   PROVE  \/ t \in SeqRange(q'[t.env]) /\ wpc'[t.env] # "exit"
                          \/ cur'[t.env] = t
                          \/ \E j \in DOMAIN ran'[t.env] : ran'[t.env][j].task = t
      BY <2>1 DEF NothingDropped
    <2>5. t \in Tasks /\ t.env \in Servers
      BY DEF Types, Tasks
    <2>6. CASE t.env = s
      BY <2>1, <2>3, <2>5, <2>6 DEF NothingDropped
    <2>7. CASE t.env # s
      BY <2>1, <2>2, <2>5, <2>7 DEF NothingDropped
    <2> QED
      BY <2>6, <2>7
  <1>6. ASSUME NEW s \in Servers, Execute(s)
        PROVE  NothingDropped'
    <2>1. PICK ok \in BOOLEAN :
            ran' = [ran EXCEPT ![s] = Append(@, [task |-> cur[s], ok |-> ok])]
      BY <1>6 DEF Execute
    <2>2. [task |-> cur[s], ok |-> ok] \in Runs
      BY <1>6 DEF Execute, Held, Types, Runs
    <2>3. \A j \in DOMAIN ran[s] : j \in DOMAIN ran'[s] /\ ran'[s][j] = ran[s][j]
      BY <2>1, <2>2, AppendFacts DEF Types
    <2>4. \E j \in DOMAIN ran'[s] : ran'[s][j].task = cur[s]
      <3>1. /\ Len(ran[s]) + 1 \in DOMAIN ran'[s]
            /\ ran'[s][Len(ran[s]) + 1] = [task |-> cur[s], ok |-> ok]
        BY <2>1, <2>2, AppendFacts DEF Types
      <3> QED
        BY <3>1
    <2>5. /\ UNCHANGED <<q, accepted>> /\ wpc[s] # "exit" /\ wpc'[s] # "exit"
          /\ \A r \in Servers : r # s => /\ wpc'[r] = wpc[r] /\ cur'[r] = cur[r]
                                         /\ ran'[r] = ran[r]
      BY <1>6 DEF Execute, Types, queueVars
    <2>6. SUFFICES ASSUME NEW t \in accepted
                   PROVE  \/ t \in SeqRange(q'[t.env]) /\ wpc'[t.env] # "exit"
                          \/ cur'[t.env] = t
                          \/ \E j \in DOMAIN ran'[t.env] : ran'[t.env][j].task = t
      BY <2>5 DEF NothingDropped
    <2>7. t.env \in Servers
      BY DEF Types, Tasks
    <2>8. CASE t.env = s
      <3>1. CASE t \in SeqRange(q[s])
        BY <2>5, <2>8, <3>1
      <3>2. CASE cur[s] = t
        BY <2>4, <2>8, <3>2
      <3>3. CASE \E j \in DOMAIN ran[s] : ran[s][j].task = t
        BY <2>3, <2>8, <3>3
      <3> QED
        BY <2>8, <3>1, <3>2, <3>3 DEF NothingDropped
    <2>9. CASE t.env # s
      BY <2>5, <2>7, <2>9 DEF NothingDropped
    <2> QED
      BY <2>8, <2>9
  <1>7. CASE Close \/ CloseStep
    BY <1>1, <1>7 DEF Close, CloseStep, CloseQueue, NotifyAll, Wake, Join, ClearServers,
                      ZeroServers, Types, queueVars, workerVars
  <1>8. CASE Finished
    BY <1>1, <1>8 DEF Finished, vars, queueVars, workerVars
  <1> QED
    BY <1>2, <1>3, <1>4, <1>5, <1>6, <1>7, <1>8 DEF Next, CallerStep, WorkerStep

LEMMA SubmittedNext ==
  ASSUME IInv, Next
  PROVE  Submitted'
  <1> USE DEF IInv
  <1>1. \A t \in accepted : t \in Tasks /\ t.by \in Callers /\ t.call \in Nat /\ t.at \in Nat
    BY DEF Types, Tasks
  <1>2. ASSUME UNCHANGED <<accepted, calls, cat, cpc>>
        PROVE  Submitted'
    BY <1>2 DEF Submitted
  <1>3. ASSUME NEW c \in Callers, NEW r \in Requests, Call(c, r)
        PROVE  Submitted'
    <2>1. /\ accepted' = accepted /\ calls'[c] = calls[c] + 1
          /\ \A d \in Callers : d # c => /\ calls'[d] = calls[d] /\ cat'[d] = cat[d]
                                         /\ cpc'[d] = cpc[d]
      BY <1>3 DEF Call, Types
    <2>2. \A t \in accepted : t.by = c => t.call < calls'[c] /\ t.call # calls'[c]
      BY <1>1, <2>1 DEF Submitted, Types
    <2>3. ASSUME NEW t \in accepted
          PROVE  /\ t.call <= calls'[t.by]
                 /\ t.call = calls'[t.by] =>
                      /\ cpc'[t.by] \in {"check", "push"} => t.at < cat'[t.by]
                      /\ cpc'[t.by] = "notify" => t.at <= cat'[t.by]
      <3>1. CASE t.by = c
        BY <1>1, <2>1, <2>2, <3>1 DEF Types
      <3>2. CASE t.by # c
        BY <1>1, <2>1, <3>2 DEF Submitted
      <3> QED
        BY <3>1, <3>2
    <2> QED
      BY <2>1, <2>3 DEF Submitted
  <1>4. ASSUME NEW c \in Callers, CheckEnv(c)
        PROVE  Submitted'
    BY <1>1, <1>4 DEF CheckEnv, End, Submitted, Types
  <1>5. ASSUME NEW c \in Callers, Push(c)
        PROVE  Submitted'
    <2> DEFINE u == Task(c, cat[c])
    <2>1. u.by = c /\ u.call = calls[c] /\ u.at = cat[c] /\ u \in Tasks
      BY <1>5, TaskInTasks DEF Push, Checked
    <2>2. CASE closed[request[c][cat[c]]]
      BY <1>1, <1>5, <2>2 DEF Push, End, Submitted, Types
    <2>3. CASE ~closed[request[c][cat[c]]]
      <3>1. /\ accepted' = accepted \cup {u} /\ cpc' = [cpc EXCEPT ![c] = "notify"]
            /\ UNCHANGED <<calls, cat>>
        BY <1>5, <2>3 DEF Push
      <3>2. \A t \in accepted : t.by = c /\ t.call = calls[c] => t.at <= cat[c]
        BY <1>1, <1>5 DEF Push, Submitted, Types
      <3> QED
        BY <1>1, <2>1, <3>1, <3>2 DEF Submitted, Types
    <2> QED
      BY <2>2, <2>3
  <1>6. ASSUME NEW c \in Callers, Notify(c)
        PROVE  Submitted'
    <2>1. UNCHANGED <<accepted, calls>>
      BY <1>6 DEF Notify
    <2>2. \A d \in Callers : d # c => cat'[d] = cat[d] /\ cpc'[d] = cpc[d]
      BY <1>6 DEF Notify, Types
    <2>3. \/ cpc'[c] = "check" /\ cat'[c] = cat[c] + 1
          \/ cpc'[c] = "get"
      BY <1>6 DEF Notify, Types
    <2>4. \A t \in accepted : t.by = c /\ t.call = calls[c] => t.at < cat[c] + 1
      BY <1>1, <1>6 DEF Notify, Submitted, Types
    <2> QED
      BY <1>1, <2>1, <2>2, <2>3, <2>4 DEF Submitted
  <1>7. ASSUME NEW c \in Callers, Get(c)
        PROVE  Submitted'
    BY <1>1, <1>7 DEF Get, End, Submitted, Types
  <1>8. CASE \E s \in Servers : WorkerStep(s)
    BY <1>2, <1>8 DEF WorkerStep, Pop, Execute, callerVars
  <1>9. CASE Close \/ CloseStep \/ Finished
    BY <1>2, <1>9 DEF Close, CloseStep, CloseQueue, NotifyAll, Join, ClearServers,
                      ZeroServers, Finished, vars, callerVars
  <1> QED
    BY <1>3, <1>4, <1>5, <1>6, <1>7, <1>8, <1>9 DEF Next, CallerStep

LEMMA InLineNext ==
  ASSUME IInv, Next, NEW s \in Servers
  PROVE  InLine(s)'
  <1> USE DEF IInv
  <1>1. ASSUME q'[s] = q[s], cur'[s] = cur[s], ran'[s] = ran[s],
               wpc'[s] = "run" <=> wpc[s] = "run"
        PROVE  InLine(s)'
    BY <1>1 DEF InLine, Follows, Before
  <1>2. CASE \E c \in Callers : (\E r \in Requests : Call(c, r)) \/ CheckEnv(c) \/ Get(c)
    BY <1>1, <1>2 DEF Call, CheckEnv, Get, queueVars, workerVars
  <1>3. ASSUME NEW c \in Callers, Push(c)
        PROVE  InLine(s)'
    <2> DEFINE e == request[c][cat[c]]
               u == Task(c, cat[c])
    <2>1. /\ e \in Servers /\ u \in Tasks
          /\ u.by = c /\ u.call = calls[c] /\ u.at = cat[c]
      BY <1>3, TaskInTasks DEF Push, Checked
    <2>2. CASE s # e \/ closed[e]
      BY <1>1, <1>3, <2>1, <2>2 DEF Push, Types, workerVars
    <2>3. CASE s = e /\ ~closed[e]
      <3>1. q'[s] = Append(q[s], u) /\ UNCHANGED <<wpc, cur, ran>>
        BY <1>3, <2>1, <2>3 DEF Push, Types, workerVars
      <3>2. \A t \in accepted : Follows(t, u)
        <4>1. cpc[c] = "push" /\ calls[c] \in Nat /\ cat[c] \in Nat
          BY <1>3 DEF Push, Types
        <4>2. ASSUME NEW t \in accepted, t.by = c
              PROVE  t.call < calls[c] \/ (t.call = calls[c] /\ t.at < cat[c])
          <5>1. t.call \in Nat /\ t.at \in Nat
            BY DEF Types, Tasks
          <5>2. t.call <= calls[c] /\ (t.call = calls[c] => t.at < cat[c])
            BY <4>1, <4>2 DEF Submitted
          <5> QED
            BY <4>1, <5>1, <5>2
        <4> QED
          BY <2>1, <4>2 DEF Follows, Before
      <3>3. /\ q[s] \in Seq(Tasks)
            /\ DOMAIN q'[s] = DOMAIN q[s] \cup {Len(q[s]) + 1}
            /\ \A i \in DOMAIN q[s] : q'[s][i] = q[s][i] /\ i < Len(q[s]) + 1
            /\ q'[s][Len(q[s]) + 1] = u
        BY <2>1, <3>1, AppendFacts DEF Types
      <3>4. \A i, j \in DOMAIN q'[s] : i < j => Follows(q'[s][i], q'[s][j])
        <4>1. \A j \in DOMAIN q[s] : ~(Len(q[s]) + 1 < j)
          BY <3>3
        <4> QED
          BY <3>2, <3>3, <4>1 DEF InLine, Held
      <3>5. /\ wpc[s] = "run" => \A j \in DOMAIN q'[s] : Follows(cur[s], q'[s][j])
            /\ \A i \in DOMAIN ran[s], j \in DOMAIN q'[s] : Follows(ran[s][i].task, q'[s][j])
        BY <3>2, <3>3 DEF InLine, Held
      <3> QED
        BY <3>1, <3>4, <3>5 DEF InLine, Follows, Before
    <2> QED
      BY <2>2, <2>3
  <1>4. ASSUME NEW c \in Callers, Notify(c)
        PROVE  InLine(s)'
    BY <1>1, <1>4 DEF Notify, Wake, Types, queueVars
  <1>5. ASSUME NEW r \in Servers, Pop(r)
        PROVE  InLine(s)'
    <2>1. CASE r # s
      BY <1>1, <1>5, <2>1 DEF Pop, Types
    <2>2. CASE r = s /\ q[s] = <<>>
      BY <1>1, <1>5, <2>2 DEF Pop, Types
    <2>3. CASE r = s /\ q[s] # <<>>
      <3>1. cur'[s] = Head(q[s]) /\ q'[s] = Tail(q[s]) /\ wpc'[s] = "run" /\ ran' = ran
        BY <1>5, <2>3 DEF Pop, Types
      <3>2. /\ 1 \in DOMAIN q[s] /\ cur'[s] = q[s][1]
            /\ \A i \in DOMAIN q'[s] : /\ i + 1 \in DOMAIN q[s] /\ q'[s][i] = q[s][i + 1]
                                       /\ i \in Nat /\ 1 < i + 1
        BY <2>3, <3>1, PopFacts DEF Types
      <3>3. \A i, j \in DOMAIN q'[s] : i < j => Follows(q'[s][i], q'[s][j])
        BY <3>2 DEF InLine
      <3>4. /\ \A j \in DOMAIN q'[s] : Follows(cur'[s], q'[s][j])
            /\ \A i \in DOMAIN ran[s] : Follows(ran[s][i].task, cur'[s])
            /\ \A i \in DOMAIN ran[s], j \in DOMAIN q'[s] : Follows(ran[s][i].task, q'[s][j])
        BY <3>2 DEF InLine
      <3> QED
        BY <3>1, <3>3, <3>4 DEF InLine, Follows, Before
    <2> QED
      BY <2>1, <2>2, <2>3
  <1>6. ASSUME NEW r \in Servers, Execute(r)
        PROVE  InLine(s)'
    <2>1. CASE r # s
      BY <1>1, <1>6, <2>1 DEF Execute, Types, queueVars
    <2>2. CASE r = s
      <3>1. PICK ok \in BOOLEAN :
              ran' = [ran EXCEPT ![s] = Append(@, [task |-> cur[s], ok |-> ok])]
        BY <1>6, <2>2 DEF Execute
      <3>2. wpc[s] = "run" /\ [task |-> cur[s], ok |-> ok] \in Runs
        BY <1>6, <2>2 DEF Execute, Held, Types, Runs
      <3>3. /\ ran[s] \in Seq(Runs)
            /\ DOMAIN ran'[s] = DOMAIN ran[s] \cup {Len(ran[s]) + 1}
            /\ \A i \in DOMAIN ran[s] : ran'[s][i] = ran[s][i] /\ i < Len(ran[s]) + 1
            /\ ran'[s][Len(ran[s]) + 1].task = cur[s]
        BY <3>1, <3>2, AppendFacts DEF Types
      <3>4. \A i, j \in DOMAIN ran'[s] : i < j => Follows(ran'[s][i].task, ran'[s][j].task)
        <4>1. \A j \in DOMAIN ran[s] : ~(Len(ran[s]) + 1 < j)
          BY <3>3
        <4> QED
          BY <3>2, <3>3, <4>1 DEF InLine
      <3>5. \A i \in DOMAIN ran'[s], j \in DOMAIN q[s] : Follows(ran'[s][i].task, q[s][j])
        BY <3>2, <3>3 DEF InLine
      <3>6. q'[s] = q[s] /\ wpc'[s] # "run"
        BY <1>6, <2>2 DEF Execute, Types, queueVars
      <3> QED
        BY <3>4, <3>5, <3>6 DEF InLine, Follows, Before
    <2> QED
      BY <2>1, <2>2
  <1>7. CASE Close \/ CloseStep
    BY <1>1, <1>7 DEF Close, CloseStep, CloseQueue, NotifyAll, Wake, Join, ClearServers,
                      ZeroServers, Types, queueVars, workerVars
  <1>8. CASE Finished
    BY <1>1, <1>8 DEF Finished, vars, queueVars, workerVars
  <1> QED
    BY <1>2, <1>3, <1>4, <1>5, <1>6, <1>7, <1>8 DEF Next, CallerStep, WorkerStep

(* What a server has run stays; a result stays that of its command.        *)
LEMMA ResultStays ==
  ASSUME NEW c \in Callers, NEW i, ResultAt(c, i),
         got'[c][i] = got[c][i], request'[c] = request[c], calls'[c] = calls[c],
         \A s \in Servers : \A j \in DOMAIN ran[s] :
           j \in DOMAIN ran'[s] /\ ran'[s][j] = ran[s][j]
  PROVE  ResultAt(c, i)'
  BY DEF ResultAt, Task

LEMMA RanGrows ==
  ASSUME IInv, Next, NEW s \in Servers, NEW j \in DOMAIN ran[s]
  PROVE  j \in DOMAIN ran'[s] /\ ran'[s][j] = ran[s][j]
  <1>1. CASE UNCHANGED ran
    BY <1>1
  <1>2. ASSUME NEW r \in Servers, Execute(r)
        PROVE  j \in DOMAIN ran'[s] /\ ran'[s][j] = ran[s][j]
    <2>1. PICK ok \in BOOLEAN :
            ran' = [ran EXCEPT ![r] = Append(@, [task |-> cur[r], ok |-> ok])]
      BY <1>2 DEF Execute
    <2>2. [task |-> cur[r], ok |-> ok] \in Runs
      BY <1>2 DEF Execute, IInv, Held, Types, Runs
    <2> QED
      BY <2>1, <2>2, AppendFacts DEF IInv, Types
  <1> QED
    BY <1>1, <1>2 DEF Next, CallerStep, WorkerStep, CloseStep, Call, CheckEnv, Push,
       Notify, Get, Pop, Close, CloseQueue, NotifyAll, Join, ClearServers, ZeroServers,
       Finished, vars

LEMMA CollectedNext ==
  ASSUME IInv, Next, NEW c \in Callers
  PROVE  Collected(c)'
  <1> USE DEF IInv
  <1>1. \A s \in Servers : \A j \in DOMAIN ran[s] :
          j \in DOMAIN ran'[s] /\ ran'[s][j] = ran[s][j]
    BY RanGrows
  <1>2. ASSUME got'[c] = got[c], request'[c] = request[c], calls'[c] = calls[c]
        PROVE  \A i \in DOMAIN got'[c] : ResultAt(c, i)'
    BY <1>1, <1>2, ResultStays DEF Collected
  <1>3. ASSUME got'[c] = got[c], request'[c] = request[c], calls'[c] = calls[c],
               cpc'[c] = cpc[c], cat'[c] = cat[c], outcome'[c] = outcome[c]
        PROVE  Collected(c)'
    BY <1>2, <1>3 DEF Collected
  <1>4. ASSUME NEW d \in Callers, NEW r \in Requests, Call(d, r)
        PROVE  Collected(c)'
    <2>1. CASE d = c
      <3>1. got'[c] = <<>> /\ outcome'[c] = "none" /\ cpc'[c] = "check"
        BY <1>4, <2>1 DEF Call, Types
      <3> QED
        BY <3>1 DEF Collected
    <2> QED
      BY <1>3, <1>4, <2>1 DEF Call, Types
  <1>5. ASSUME NEW d \in Callers, CheckEnv(d) \/ Push(d)
        PROVE  Collected(c)'
    <2>1. CASE d = c
      <3>1. /\ got'[c] = got[c] /\ request'[c] = request[c] /\ calls'[c] = calls[c]
            /\ cpc[c] \in {"check", "push"}
            /\ \/ cpc'[c] \in {"push", "notify"} /\ outcome'[c] = outcome[c]
               \/ cpc'[c] = "idle" /\ outcome'[c] = "raised"
        BY <1>5, <2>1 DEF CheckEnv, Push, End, Types
      <3> QED
        BY <1>2, <3>1 DEF Collected
    <2> QED
      BY <1>3, <1>5, <2>1 DEF CheckEnv, Push, End, Types
  <1>6. ASSUME NEW d \in Callers, Notify(d)
        PROVE  Collected(c)'
    <2>1. CASE d = c
      <3>1. /\ got'[c] = got[c] /\ request'[c] = request[c] /\ calls'[c] = calls[c]
            /\ cpc[c] = "notify" /\ outcome'[c] = outcome[c]
            /\ cpc'[c] = "check" \/ (cpc'[c] = "get" /\ cat'[c] = 1)
        BY <1>6, <2>1 DEF Notify, Types
      <3> QED
        BY <1>2, <3>1 DEF Collected
    <2> QED
      BY <1>3, <1>6, <2>1 DEF Notify, Types
  <1>7. ASSUME NEW d \in Callers, Get(d)
        PROVE  Collected(c)'
    <2>1. CASE d = c
      <3>a. PICK k \in Nat : k = cat[c]
        BY DEF Types
      <3>b. PICK s \in Servers : s = request[c][k]
        BY <1>7, <2>1, <3>a DEF Get, Checked
      <3>1. /\ k \in DOMAIN request[c] /\ s \in Servers
            /\ Len(got[c]) = k - 1 /\ outcome[c] = "none"
            /\ request' = request /\ calls' = calls /\ ran' = ran
        BY <1>7, <2>1, <3>a, <3>b DEF Get, Checked, Collected
      <3>2. PICK j \in DOMAIN ran[s] :
              /\ ran[s][j].task = Task(c, k)
              /\ IF ran[s][j].ok
                 THEN /\ got' = [got EXCEPT ![c] = Append(@, j)]
                      /\ IF k < Len(request[c])
                         THEN cat' = [cat EXCEPT ![c] = @ + 1] /\ UNCHANGED <<cpc, outcome>>
                         ELSE End(c, "returned") /\ UNCHANGED cat
                 ELSE End(c, "raised") /\ UNCHANGED <<cat, got>>
        BY <1>7, <2>1, <3>a, <3>b DEF Get
      <3>3. CASE ~ran[s][j].ok
        BY <1>2, <3>a, <3>1, <3>2, <3>3 DEF Collected, End, Types
      <3>4. CASE ran[s][j].ok
        <4>1. ran[s][j] = [task |-> Task(c, k), ok |-> TRUE]
          <5>1. ran[s][j] \in Runs
            BY <3>1 DEF Types
          <5> QED
            BY <3>2, <3>4, <5>1 DEF Runs
        <4>2. got'[c] = Append(got[c], j) /\ got[c] \in Seq(Nat) /\ j \in Nat
          <5>1. j \in Nat
            BY <3>1 DEF Types
          <5>2. got' = [got EXCEPT ![c] = Append(got[c], j)]
            BY <3>2, <3>4
          <5> QED
            BY <5>1, <5>2 DEF Types
        <4>3. /\ DOMAIN got'[c] = DOMAIN got[c] \cup {k}
              /\ Len(got'[c]) = k
              /\ got'[c][k] = j
              /\ \A i \in DOMAIN got[c] : got'[c][i] = got[c][i]
          <5>1. k \in Nat /\ k = Len(got[c]) + 1
            BY <3>1, <4>2 DEF Types
          <5> QED
            BY <4>2, <5>1, AppendFacts
        <4>4. ResultAt(c, k)'
          <5>1. Task(c, k)' = Task(c, k)
            BY <3>1 DEF Task
          <5>2. request'[c][k] = s /\ got'[c][k] = j /\ ran'[s][j] = ran[s][j]
            BY <3>1, <3>b, <4>3
          <5> QED
            BY <3>1, <4>1, <5>1, <5>2 DEF ResultAt
        <4>5. \A i \in DOMAIN got'[c] : ResultAt(c, i)'
          <5>1. \A i \in DOMAIN got[c] : ResultAt(c, i)'
            BY <1>1, <3>1, <4>3, ResultStays DEF Collected
          <5> QED
            BY <4>3, <4>4, <5>1
        <4>6. \/ /\ cpc'[c] = "get" /\ cat'[c] = k + 1 /\ outcome'[c] = "none"
              \/ /\ cpc'[c] = "idle" /\ outcome'[c] = "returned" /\ k = Len(request[c])
          BY <1>7, <2>1, <3>a, <3>1, <3>2, <3>4 DEF Get, End, Types
        <4>7. cat[c] \in Nat
          BY DEF Types
        <4> QED
          BY <3>1, <4>3, <4>5, <4>6, <4>7 DEF Collected
      <3> QED
        BY <3>3, <3>4
    <2> QED
      BY <1>3, <1>7, <2>1 DEF Get, End, Types
  <1>8. CASE \E s \in Servers : WorkerStep(s)
    BY <1>3, <1>8 DEF WorkerStep, Pop, Execute, callerVars
  <1>9. CASE Close \/ CloseStep \/ Finished
    BY <1>3, <1>9 DEF Close, CloseStep, CloseQueue, NotifyAll, Join, ClearServers,
                      ZeroServers, Finished, vars, callerVars
  <1> QED
    BY <1>4, <1>5, <1>6, <1>7, <1>8, <1>9 DEF Next, CallerStep

-----------------------------------------------------------------------------
(* The theorems *)

LEMMA StutterIInv ==
  ASSUME IInv, UNCHANGED vars
  PROVE  IInv'
  <1> USE DEF vars, poolVars, queueVars, workerVars, callerVars, closeVars
  <1>1. Types' /\ Closing' /\ Held'
    BY DEF IInv, Types, Closing, Held
  <1>2. NothingDropped' /\ Submitted'
    BY DEF IInv, NothingDropped, Submitted, SeqRange
  <1>3. \A c \in Callers : Checked(c)' /\ Collected(c)'
    BY DEF IInv, Checked, Collected, ResultAt, Task
  <1>4. \A s \in Servers : InLine(s)'
    BY DEF IInv, InLine, Follows, Before
  <1> QED
    BY <1>1, <1>2, <1>3, <1>4 DEF IInv

(* All of it together, for any threads, servers and calls.                 *)
THEOREM PoolInvariant == Spec => []IInv
  <1>1. IInv /\ [Next]_vars => IInv'
    <2> SUFFICES ASSUME IInv, [Next]_vars PROVE IInv'
      OBVIOUS
    <2>1. CASE Next
      <3>1. Types' /\ Closing' /\ Held' /\ NothingDropped' /\ Submitted'
        BY <2>1, TypesNext, ClosingNext, HeldNext, DroppedNext, SubmittedNext
      <3>2. \A c \in Callers : Checked(c)' /\ Collected(c)'
        BY <2>1, CheckedNext, CollectedNext
      <3>3. \A s \in Servers : InLine(s)'
        BY <2>1, InLineNext
      <3> QED
        BY <3>1, <3>2, <3>3 DEF IInv
    <2> QED
      BY <2>1, StutterIInv
  <1> QED
    BY <1>1, InitIInv, PTL DEF Spec

(* No command that push() accepted is dropped, whenever the pool is closed. *)
THEOREM NoneDropped == Spec => []NothingDropped
  <1>1. IInv => NothingDropped
    BY DEF IInv
  <1> QED
    BY <1>1, PoolInvariant, PTL

(* A server runs the commands of each thread in the order they were given, *)
(* each once, however the calls they belong to end.                        *)
THEOREM ServersKeepOrder == Spec => []ProgramOrder
  <1>1. IInv => ProgramOrder
    BY DEF IInv, InLine, Follows, ProgramOrder
  <1> QED
    BY <1>1, PoolInvariant, PTL

(* A call that returns has the results of its own commands, in the order   *)
(* of the environments it named.                                           *)
THEOREM ResultsOrdered == Spec => []ResultsInRequestOrder
  <1>1. IInv => ResultsInRequestOrder
    BY DEF IInv, Collected, ResultAt, ResultsInRequestOrder
  <1> QED
    BY <1>1, PoolInvariant, PTL

(* close() destroys the servers only after every worker has ended, leaving *)
(* nothing in its queue.                                                   *)
THEOREM ServersOutlive == Spec => []ServersOutliveWorkers
  <1>1. IInv => ServersOutliveWorkers
    BY DEF IInv, Closing, ServersOutliveWorkers
  <1> QED
    BY <1>1, PoolInvariant, PTL

=============================================================================
