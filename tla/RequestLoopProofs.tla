------------------------- MODULE RequestLoopProofs -------------------------
(***************************************************************************)
(* Proofs about RequestLoop, for every number of ids, requests, permits    *)
(* and every capacity of the queue.  IdsOwned is inductive together with   *)
(* CoreInv, which says how far the generations have got.  Of the end of a  *)
(* task and of the daemon, what holds at every moment is proved: no        *)
(* request is dropped silently, no permit is lost, and the daemon exits    *)
(* only when everything is done and written.                               *)
(***************************************************************************)
EXTENDS RequestLoop, FiniteSetTheorems, TLAPS

CoreInv ==
  /\ gen \in 0..MaxGen /\ active \in [Ids -> 0..MaxGen] /\ task \in [Gens -> Tasks]
  /\ \A g \in Gens :
       /\ g > gen => task[g].st = "none"
       /\ task[g].st \in Live => task[g].id \in Ids
       /\ task[g].st \in Sending => task[g].left >= 1

\* The types of what the tasks share.
PathInv ==
  /\ client \in {"reading", "paused", "gone"} /\ stdin \in {"open", "closed"}
  /\ loop \in {"select", "reply", "replyParked", "draining", "dropped", "exited"}
  /\ out \in Seq(0..MaxGen) /\ Len(out) <= OutCap
  /\ stalled \in BOOLEAN /\ writer \in {"running", "failed", "finished"}
  /\ watcher \in {"idle", "emit", "parked", "ended"}
  /\ budget \in [replies : Nat, bursts : Nat]

IInv == CoreInv /\ IdsOwned

----------------------------------------------------------------------------
\* Cancelling a task changes nothing else of it.
LEMMA OneField ==
  \A t \in Tasks, c \in BOOLEAN :
    LET u == [t EXCEPT !.cancelled = c] IN
    /\ u \in Tasks /\ u.st = t.st /\ u.id = t.id /\ u.left = t.left /\ u.cancelled = c
BY DEF Tasks

\* A task that goes on, under the same id and cancel token, keeps the invariant.
LEMMA GoOnStep ==
  ASSUME IInv, NEW g \in Gens, task[g].st \in Live, NEW t \in Tasks, GoOn(g, t),
         gen' = gen, t.id = task[g].id, t.cancelled = task[g].cancelled,
         t.st \in Live, t.st \in Sending => t.left >= 1
  PROVE  IInv'
<1>1. task' = [task EXCEPT ![g] = t] /\ active' = active
  BY DEF GoOn
<1>2. /\ task'[g] = t /\ \A h \in Gens \ {g} : task'[h] = task[h]
      /\ task' \in [Gens -> Tasks]
  BY <1>1 DEF IInv, CoreInv
<1>3. g <= gen
  BY DEF IInv, CoreInv, Live, Sending, Gens
<1>4. CoreInv'
  BY <1>1, <1>2, <1>3 DEF IInv, CoreInv, Gens
<1>5. \A id \in Active' : task'[active'[id]].st \in Live /\ task'[active'[id]].id = id
  BY <1>1, <1>2 DEF IInv, CoreInv, IdsOwned, Active, Gens
<1>6. \A h \in Gens : task'[h].st \in Live /\ ~task'[h].cancelled => active'[task'[h].id] = h
  BY <1>1, <1>2 DEF IInv, IdsOwned
<1>7. QED
  BY <1>4, <1>5, <1>6 DEF IInv, IdsOwned

\* A task that ends releases its id if and only if it still stands for it.
LEMMA EndStep ==
  ASSUME IInv, NEW g \in Gens, task[g].st \in Live, NEW st \in Ended, End(g, st),
         gen' = gen
  PROVE  IInv'
<1> DEFINE t == [task[g] EXCEPT !.st = st, !.left = 0, !.permit = FALSE]
<1>1. t \in Tasks /\ t.st = st
  <2>1. task[g] \in Tasks /\ 0 \in 0..MaxEvents /\ st \in Live \cup Ended
    BY RequestLoopAssumption DEF IInv, CoreInv
  <2>2. t = [task[g] EXCEPT !.st = st, !.left = 0, !.permit = FALSE]
    OBVIOUS
  <2> HIDE DEF t
  <2>3. t = [id |-> task[g].id, st |-> st, left |-> 0, permit |-> FALSE,
             cancelled |-> task[g].cancelled]
    BY <2>1, <2>2 DEF Tasks
  <2>4. QED
    BY <2>1, <2>3 DEF Tasks
<1>2. task' = [task EXCEPT ![g] = t]
  BY DEF End
<1> HIDE DEF t
<1>3. /\ task'[g] = t /\ \A h \in Gens \ {g} : task'[h] = task[h]
      /\ task' \in [Gens -> Tasks]
  BY <1>1, <1>2 DEF IInv, CoreInv
<1>4. task[g].id \in Ids /\ g <= gen /\ st \notin Live
  BY DEF IInv, CoreInv, Live, Sending, Gens, Ended
<1>5. /\ active' \in [Ids -> 0..MaxGen]
      /\ \A id \in Ids : active'[id] = IF active[id] = g THEN 0 ELSE active[id]
  <2>1. ASSUME NEW id \in Ids, active[id] = g PROVE id = task[g].id
    BY <2>1 DEF IInv, IdsOwned, Active, Gens
  <2>2. CASE active[task[g].id] = g
    <3>1. active' = [active EXCEPT ![task[g].id] = 0]
      BY <2>2 DEF End
    <3>2. active \in [Ids -> 0..MaxGen] /\ 0 \in 0..MaxGen
      BY RequestLoopAssumption DEF IInv, CoreInv
    <3>3. QED
      BY <1>4, <2>1, <2>2, <3>1, <3>2
  <2>3. CASE active[task[g].id] # g
    BY <1>4, <2>1, <2>3 DEF End, IInv, CoreInv
  <2>4. QED
    BY <2>2, <2>3
<1>6. CoreInv'
  BY <1>1, <1>3, <1>4, <1>5 DEF IInv, CoreInv, Gens, Sending, Live
<1>7. \A id \in Active' : task'[active'[id]].st \in Live /\ task'[active'[id]].id = id
  BY <1>3, <1>5 DEF IInv, CoreInv, IdsOwned, Active, Gens
<1>8. \A h \in Gens : task'[h].st \in Live /\ ~task'[h].cancelled => active'[task'[h].id] = h
  <2>1. ASSUME NEW h \in Gens, task'[h].st \in Live, ~task'[h].cancelled
        PROVE  active'[task'[h].id] = h
    <3>1. h # g /\ task'[h] = task[h]
      BY <1>1, <1>3, <1>4, <2>1
    <3>2. task[h].id \in Ids /\ active[task[h].id] = h
      BY <2>1, <3>1 DEF IInv, CoreInv, IdsOwned
    <3>3. QED
      BY <1>5, <3>1, <3>2
  <2>2. QED
    BY <2>1
<1>9. QED
  BY <1>6, <1>7, <1>8 DEF IInv, IdsOwned

\* A step that touches neither the tasks nor the table keeps the invariant.
LEMMA IdleStep == IInv /\ UNCHANGED <<gen, active, task>> => IInv'
BY DEF IInv, CoreInv, IdsOwned, Active

\* begin_request: the newer request takes the id over, the older is cancelled.
LEMMA AcceptStep ==
  ASSUME IInv, NEW id \in Ids, NEW st \in {"queued", "emit"}, Accept(id, st)
  PROVE  IInv'
<1> DEFINE t == [id |-> id, st |-> st, left |-> 1, permit |-> FALSE, cancelled |-> FALSE]
<1>1. t \in Tasks /\ t.id = id /\ t.st \in Live /\ (t.st \in Sending => t.left >= 1)
  <2>1. 1 \in 0..MaxEvents
    BY RequestLoopAssumption
  <2>2. QED
    BY <2>1 DEF Tasks, Live, Sending
<1>2. /\ gen \in 0..MaxGen /\ gen < MaxGen /\ gen' = gen + 1 /\ gen' \in Gens
      /\ active' = [active EXCEPT ![id] = gen'] /\ MaxGen \in Nat
  BY RequestLoopAssumption DEF Accept, IInv, CoreInv, Gens
<1>3. \A g \in Gens : task'[g] =
        IF g = gen' THEN t ELSE [task[g] EXCEPT !.cancelled = @ \/ g = active[id]]
  BY <1>2 DEF Accept
<1> HIDE DEF t
<1>4. ASSUME NEW g \in Gens, g # gen'
      PROVE  /\ task'[g] \in Tasks /\ task'[g].st = task[g].st /\ task'[g].id = task[g].id
             /\ task'[g].left = task[g].left
             /\ task'[g].cancelled = (task[g].cancelled \/ g = active[id])
  <2>1. task'[g] = [task[g] EXCEPT !.cancelled = task[g].cancelled \/ g = active[id]]
    BY <1>3, <1>4
  <2>2. task[g] \in Tasks /\ (task[g].cancelled \/ g = active[id]) \in BOOLEAN
    BY DEF IInv, CoreInv
  <2>3. QED
    BY ZenonT(30), <2>1, <2>2, OneField
<1>5. task' \in [Gens -> Tasks]
  <2>1. \A g \in Gens : task'[g] \in Tasks
    BY <1>1, <1>3, <1>4
  <2>2. task' = [g \in Gens |-> task'[g]]
    BY DEF Accept
  <2>3. QED
    BY <2>1, <2>2
<1>6. CoreInv'
  <2>1. gen' \in 0..MaxGen /\ active' \in [Ids -> 0..MaxGen]
    BY <1>2 DEF IInv, CoreInv
  <2>2. ASSUME NEW g \in Gens
        PROVE  /\ g > gen' => task'[g].st = "none"
               /\ task'[g].st \in Live => task'[g].id \in Ids
               /\ task'[g].st \in Sending => task'[g].left >= 1
    <3>1. CASE g = gen'
      <4>1. task'[g] = t
        BY <1>2, <1>3, <3>1
      <4>2. g \in Int /\ ~(g > gen')
        BY <3>1 DEF Gens
      <4>3. QED
        BY <1>1, <4>1, <4>2
    <3>2. CASE g # gen'
      BY <1>2, <1>4, <3>2 DEF IInv, CoreInv, Gens
    <3>3. QED
      BY <3>1, <3>2
  <2>3. QED
    BY <1>5, <2>1, <2>2 DEF CoreInv
<1>7. task[gen'].st = "none"
  BY <1>2 DEF IInv, CoreInv
<1>8. ASSUME NEW i \in Active'
      PROVE  task'[active'[i]].st \in Live /\ task'[active'[i]].id = i
  <2>1. CASE i = id
    BY <1>1, <1>2, <1>3, <2>1 DEF Active, IInv, CoreInv
  <2>2. CASE i # id
    <3>1. active'[i] = active[i] /\ i \in Active /\ active[i] \in Gens
      BY <1>2, <1>8, <2>2 DEF Active, IInv, CoreInv, Gens
    <3>2. task[active[i]].st \in Live /\ task[active[i]].id = i
      BY <3>1 DEF IInv, IdsOwned
    <3>3. active[i] # gen'
      BY <1>7, <3>2 DEF Live, Sending
    <3>4. QED
      BY <1>4, <3>1, <3>2, <3>3
  <2>3. QED
    BY <2>1, <2>2
<1>9. ASSUME NEW g \in Gens, task'[g].st \in Live, ~task'[g].cancelled
      PROVE  active'[task'[g].id] = g
  <2>1. CASE g = gen'
    BY <1>1, <1>2, <1>3, <2>1 DEF IInv, CoreInv
  <2>2. CASE g # gen'
    <3>1. /\ task[g].st \in Live /\ ~task[g].cancelled /\ g # active[id]
          /\ task'[g].id = task[g].id
      BY <1>4, <1>9, <2>2
    <3>2. active[task[g].id] = g /\ task[g].id \in Ids
      BY <3>1 DEF IInv, CoreInv, IdsOwned
    <3>3. QED
      BY <1>2, <3>1, <3>2 DEF IInv, CoreInv
  <2>3. QED
    BY <2>1, <2>2
<1>10. QED
  BY <1>6, <1>8, <1>9 DEF IInv, IdsOwned

\* A cancel request marks the task its id stands for, and nothing else.
LEMMA CancelStep ==
  ASSUME IInv, NEW id \in Ids, Cancel(id)
  PROVE  IInv'
<1>1. id \in Active /\ active[id] \in Gens /\ UNCHANGED <<gen, active>>
  BY DEF Cancel, Active, IInv, CoreInv, Gens
<1>2. /\ task' \in [Gens -> Tasks]
      /\ \A g \in Gens : /\ task'[g].st = task[g].st /\ task'[g].id = task[g].id
                         /\ task'[g].left = task[g].left
                         /\ task[g].cancelled => task'[g].cancelled
  <2> DEFINE t == [task[active[id]] EXCEPT !.cancelled = TRUE]
  <2>0. task[active[id]] \in Tasks
    BY <1>1 DEF IInv, CoreInv
  <2>1. /\ t \in Tasks /\ t.st = task[active[id]].st /\ t.id = task[active[id]].id
        /\ t.left = task[active[id]].left /\ t.cancelled
    BY <2>0, OneField
  <2>2. task' = [task EXCEPT ![active[id]] = t]
    BY DEF Cancel
  <2> HIDE DEF t
  <2>3. QED
    BY <1>1, <2>1, <2>2 DEF IInv, CoreInv
<1>3. CoreInv'
  BY <1>1, <1>2 DEF IInv, CoreInv
<1>4. \A i \in Active' : active[i] \in Gens /\ i \in Active
  BY <1>1 DEF Active, IInv, CoreInv, Gens
<1>5. QED
  BY <1>1, <1>2, <1>3, <1>4 DEF IInv, IdsOwned

\* Permit, Work and Emit, of one task.
LEMMA TaskStep ==
  ASSUME IInv, NEW g \in Gens, Task(g)
  PROVE  IInv'
<1>1. task[g] \in Tasks /\ (task[g].st \in Sending => task[g].left >= 1)
  BY DEF IInv, CoreInv
<1>2. gen' = gen /\ task[g].st \in Live
  BY DEF Task, Permit, Work, Emit, others, Live, Sending
<1>3. ASSUME NEW st \in Ended, End(g, st) PROVE IInv'
  BY <1>2, <1>3, EndStep
<1>4. CASE Permit(g)
  <2> DEFINE t == [task[g] EXCEPT !.st = "working", !.permit = TRUE]
  <2>1. t \in Tasks /\ t.id = task[g].id /\ t.cancelled = task[g].cancelled /\ t.st = "working"
    BY <1>1 DEF Tasks, Live
  <2>2. End(g, "silent") \/ GoOn(g, t)
    BY <1>4 DEF Permit
  <2> HIDE DEF t
  <2>3. QED
    BY <1>2, <1>3, <2>1, <2>2, GoOnStep DEF Ended, Live, Sending
<1>5. CASE Work(g)
  <2>1. ASSUME NEW n \in 1..MaxEvents, GoOn(g, [task[g] EXCEPT !.st = "emit", !.left = n])
        PROVE  IInv'
    <3> DEFINE t == [task[g] EXCEPT !.st = "emit", !.left = n]
    <3>0. task[g].permit \in BOOLEAN /\ "emit" \in Live \cup Ended /\ n \in 0..MaxEvents
      BY <1>1 DEF Tasks, Live, Sending
    <3>1. /\ t \in Tasks /\ t.id = task[g].id /\ t.cancelled = task[g].cancelled
          /\ t.st = "emit" /\ t.left = n
      <4>1. t = [task[g] EXCEPT !.st = "emit", !.left = n, !.permit = task[g].permit]
        BY <1>1 DEF Tasks
      <4> HIDE DEF t
      <4>2. t = [id |-> task[g].id, st |-> "emit", left |-> n, permit |-> task[g].permit,
                 cancelled |-> task[g].cancelled]
        BY <1>1, <4>1 DEF Tasks
      <4>3. QED
        BY <1>1, <3>0, <4>2 DEF Tasks
    <3> HIDE DEF t
    <3>2. GoOn(g, t)
      BY <2>1 DEF t
    <3>3. t.st \in Live /\ t.left >= 1
      BY <3>1 DEF Live, Sending
    <3>4. QED
      BY <1>2, <3>1, <3>2, <3>3, GoOnStep
  <2>2. CASE GoOn(g, [task[g] EXCEPT !.st = "emit", !.left = 1, !.permit = FALSE])
    <3> DEFINE t == [task[g] EXCEPT !.st = "emit", !.left = 1, !.permit = FALSE]
    <3>1. 1 \in 0..MaxEvents /\ "emit" \in Live /\ FALSE \in BOOLEAN
      BY RequestLoopAssumption DEF Live, Sending
    <3>2. /\ t \in Tasks /\ t.id = task[g].id /\ t.cancelled = task[g].cancelled
          /\ t.st = "emit" /\ t.left = 1
      <4>1. t = [task[g] EXCEPT !.st = "emit", !.left = 1, !.permit = FALSE]
        OBVIOUS
      <4> HIDE DEF t
      <4>2. t = [id |-> task[g].id, st |-> "emit", left |-> 1, permit |-> FALSE,
                 cancelled |-> task[g].cancelled]
        BY <1>1, <4>1 DEF Tasks
      <4>3. QED
        BY <1>1, <3>1, <4>2 DEF Tasks
    <3> HIDE DEF t
    <3>3. GoOn(g, t)
      BY <2>2 DEF t
    <3>4. QED
      BY <1>2, <3>1, <3>2, <3>3, GoOnStep
  <2>3. QED
    BY <1>5, <2>1, <2>2 DEF Work
<1>6. CASE Emit(g)
  <2> DEFINE next == [task[g] EXCEPT !.st = "emit", !.left = @ - 1]
             park == [task[g] EXCEPT !.st = "parked"]
  <2>1. task[g].st \in Sending
    BY <1>6 DEF Emit, Sending
  <2>2. /\ park \in Tasks /\ park.id = task[g].id /\ park.cancelled = task[g].cancelled
        /\ park.st = "parked" /\ park.left >= 1
    BY <1>1, <2>1 DEF Tasks, Live, Sending
  <2>3. task[g].left # 1 =>
          /\ next \in Tasks /\ next.id = task[g].id /\ next.cancelled = task[g].cancelled
          /\ next.st = "emit" /\ next.left >= 1
    <3>1. ASSUME task[g].left # 1 PROVE task[g].left - 1 \in 1..MaxEvents
      BY <1>1, <2>1, <3>1, RequestLoopAssumption DEF Tasks
    <3>2. next = [task[g] EXCEPT !.st = "emit", !.left = task[g].left - 1]
      OBVIOUS
    <3>3. \A n \in 0..MaxEvents :
            LET u == [task[g] EXCEPT !.st = "emit", !.left = n] IN
            /\ u \in Tasks /\ u.id = task[g].id /\ u.cancelled = task[g].cancelled
            /\ u.st = "emit" /\ u.left = n
      BY <1>1 DEF Tasks, Live, Sending
    <3> HIDE DEF next
    <3>4. ASSUME task[g].left # 1
          PROVE  /\ next \in Tasks /\ next.id = task[g].id
                 /\ next.cancelled = task[g].cancelled
                 /\ next.st = "emit" /\ next.left = task[g].left - 1
      <4>1. task[g].left - 1 \in 0..MaxEvents
        BY <3>1, <3>4, RequestLoopAssumption
      <4>2. QED
        BY <3>2, <3>3, <4>1
    <3>5. QED
      BY <3>1, <3>4, RequestLoopAssumption
  <2>4. \/ \E st \in Ended : End(g, st)
        \/ GoOn(g, park)
        \/ task[g].left # 1 /\ GoOn(g, next)
    BY <1>6 DEF Emit, Sent, Ended
  <2> HIDE DEF next, park
  <2>5. QED
    BY <1>2, <1>3, <2>2, <2>3, <2>4, GoOnStep DEF Live, Sending
<1>7. QED
  BY <1>4, <1>5, <1>6 DEF Task

\* Every step keeps IInv.
LEMMA InvStep == IInv /\ [Next]_vars => IInv'
<1> SUFFICES ASSUME IInv, [Next]_vars PROVE IInv'
  OBVIOUS
<1>1. CASE Client \/ Inline \/ WatchBurst \/ Loop \/ Watcher \/ Writer \/ UNCHANGED vars
  BY <1>1, IdleStep DEF Client, Inline, WatchBurst, Loop, Reply, StopReading, Drained,
     Exit, Watcher, WatchSend, WatchEnd, Writer, WriteOne, WriteFails, WriterEnds, vars
<1>2. ASSUME NEW id \in Ids, Refuse(id) PROVE IInv'
  <2>1. /\ gen \in 0..MaxGen /\ gen < MaxGen /\ gen' = gen + 1 /\ UNCHANGED <<active, task>>
        /\ MaxGen \in Nat
    BY <1>2, RequestLoopAssumption DEF Refuse, IInv, CoreInv
  <2>2. CoreInv'
    BY <2>1 DEF IInv, CoreInv, Gens
  <2>3. QED
    BY <2>1, <2>2 DEF IInv, IdsOwned, Active
<1>3. QED
  BY <1>1, <1>2, AcceptStep, CancelStep, TaskStep DEF Next, Request

\* The daemon starts with an empty table and no task.
LEMMA InvInit == Init => IInv
BY RequestLoopAssumption
DEF Init, IInv, CoreInv, IdsOwned, Active, NoTask, Tasks, Gens, Live, Sending, Ended

\* server.rs:118: the table of active requests and the tasks agree, whatever
\* ids the client reuses and whenever it does.
THEOREM OwnedCorrect == Spec => []IdsOwned
<1>1. IInv => IdsOwned
  BY DEF IInv
<1>2. QED
  BY <1>1, InvInit, InvStep, PTL DEF Spec

----------------------------------------------------------------------------
(* The path to the client.                                                 *)

\* The queue starts empty.
LEMMA PathInit == Init => PathInv
<1>1. <<>> \in Seq(0..MaxGen) /\ Len(<<>>) <= OutCap
  BY RequestLoopAssumption
<1>2. [replies |-> MaxReplies, bursts |-> MaxBursts] \in [replies : Nat, bursts : Nat]
  BY RequestLoopAssumption
<1>3. QED
  BY <1>1, <1>2 DEF Init, PathInv

\* One more event in a queue that has room for it.
LEMMA AppendStep ==
  ASSUME PathInv, NEW g \in 0..MaxGen, Room
  PROVE  Append(out, g) \in Seq(0..MaxGen) /\ Len(Append(out, g)) <= OutCap
BY RequestLoopAssumption DEF PathInv, Room

\* Every step keeps the types of the shared state and the queue within its capacity.
LEMMA PathStep == CoreInv /\ PathInv /\ [Next]_vars => PathInv'
<1> SUFFICES ASSUME CoreInv, PathInv, [Next]_vars PROVE PathInv'
  OBVIOUS
<1> USE DEF PathInv
<1>a. ASSUME NEW g \in 0..MaxGen, Enqueue(g) \/ EnqueueParked(g)
      PROVE  out' \in Seq(0..MaxGen) /\ Len(out') <= OutCap /\ stalled' \in BOOLEAN
  <2>1. out' = Append(out, g) /\ Room /\ stalled' = stalled
    BY <1>a DEF Enqueue, EnqueueParked
  <2>2. QED
    BY <2>1, AppendStep
<1>z. 0 \in 0..MaxGen
  BY RequestLoopAssumption
<1>1. CASE Client
  BY <1>1 DEF Client, ClientPauses, ClientResumes, ClientLeaves, ClientCloses
<1>2. CASE Writer
  <2>1. out # <<>> => Tail(out) \in Seq(0..MaxGen) /\ Len(Tail(out)) <= Len(out)
    OBVIOUS
  <2>2. <<>> \in Seq(0..MaxGen) /\ Len(<<>>) = 0 /\ OutCap \in Nat /\ Len(out) \in Nat
        /\ (out # <<>> => Len(Tail(out)) \in Nat)
    BY RequestLoopAssumption
  <2>3. CASE WriteOne
    BY <2>1, <2>2, <2>3 DEF WriteOne, env
  <2>4. CASE WriteFails
    BY <2>2, <2>4 DEF WriteFails, env
  <2>5. CASE WriterEnds
    BY <2>5 DEF WriterEnds, env
  <2>6. QED
    BY <1>2, <2>3, <2>4, <2>5 DEF Writer
<1>3. CASE Request \/ Inline \/ WatchBurst
  <2>1. CASE Request
    BY <2>1 DEF Request, Accept, Refuse, Cancel, env
  <2>2. CASE Inline
    <3>1. [budget EXCEPT !.replies = @ - 1] \in [replies : Nat, bursts : Nat]
      BY <2>2 DEF Inline
    <3>2. QED
      BY <2>2, <3>1 DEF Inline, env
  <2>3. CASE WatchBurst
    <3>1. [budget EXCEPT !.bursts = @ - 1] \in [replies : Nat, bursts : Nat]
      BY <2>3 DEF WatchBurst
    <3>2. QED
      BY <2>3, <3>1 DEF WatchBurst, env
  <2>4. QED
    BY <1>3, <2>1, <2>2, <2>3
<1>4. CASE Loop
  <2>1. CASE Reply
    BY <1>a, <1>z, <2>1 DEF Reply, SendRefused, SendExpired, env
  <2>2. CASE StopReading \/ Drained \/ Exit
    BY <2>2 DEF StopReading, Drained, Exit, env
  <2>3. QED
    BY <1>4, <2>1, <2>2 DEF Loop
<1>5. CASE Watcher
  BY <1>5, <1>a, <1>z DEF Watcher, WatchSend, WatchEnd, SendRefused, SendExpired, env
<1>6. ASSUME NEW g \in Gens, Task(g) PROVE PathInv'
  <2>1. g \in 0..MaxGen
    BY DEF Gens
  <2>2. /\ \/ Enqueue(g) \/ EnqueueParked(g)
           \/ UNCHANGED out /\ (stalled' = TRUE \/ UNCHANGED stalled)
        /\ UNCHANGED others
    BY <1>6 DEF Task, Permit, Work, Emit, SendRefused, SendExpired
  <2>3. QED
    BY <1>a, <2>1, <2>2 DEF others, env
<1>7. CASE UNCHANGED vars
  BY <1>7 DEF vars
<1>8. QED
  BY <1>1, <1>2, <1>3, <1>4, <1>5, <1>6, <1>7 DEF Next

\* Once a newer request has taken an id over, nothing more of the older one
\* enters the queue.
THEOREM NewestCorrect == Spec => NewestOnly
<1>1. ASSUME IInv, PathInv, [Next]_vars, NEW g \in Gens, out' = Append(out, g)
      PROVE  active[task[g].id] = g
  <2>1. g # 0 /\ g \in Nat /\ out \in Seq(Nat) /\ out' # out
    BY <1>1, RequestLoopAssumption DEF Gens, PathInv
  <2>2. ~Writer
    BY <1>1, <2>1 DEF Writer, WriteOne, WriteFails, WriterEnds
  <2>3. out' # Append(out, 0)
    BY <1>1, <2>1
  <2>4. ~Loop /\ ~Watcher
    BY <2>1, <2>3 DEF Loop, Reply, StopReading, Drained, Exit, Watcher, WatchSend, WatchEnd,
       Enqueue, EnqueueParked, SendRefused, SendExpired
  <2>5. PICK h \in Gens : Task(h)
    BY <1>1, <2>1, <2>2, <2>4 DEF Next, Client, Request, Accept, Refuse, Cancel, Inline,
       WatchBurst, vars
  <2>6. /\ task[h].st \in Live /\ ~task[h].cancelled /\ out' = Append(out, h)
    BY <2>1, <2>5 DEF Task, Permit, Work, Emit, Enqueue, EnqueueParked, SendRefused,
       SendExpired, Live, Sending
  <2>7. h = g
    <3>1. h \in Nat /\ Append(out, h) = Append(out, g)
      BY <1>1, <2>6 DEF Gens
    <3>2. Append(out, h)[Len(out) + 1] = h /\ Append(out, g)[Len(out) + 1] = g
      BY <2>1, <3>1
    <3>3. QED
      BY <3>1, <3>2
  <2>8. QED
    BY <1>1, <2>6, <2>7 DEF IInv, IdsOwned
<1>2. IInv /\ PathInv /\ [Next]_vars =>
        [\A g \in Gens : out' = Append(out, g) => active[task[g].id] = g]_vars
  BY <1>1
<1>3. Init => IInv /\ PathInv
  BY InvInit, PathInit
<1>4. IInv /\ PathInv /\ [Next]_vars => (IInv /\ PathInv)'
  BY InvStep, PathStep DEF IInv
<1>5. QED
  BY <1>2, <1>3, <1>4, PTL DEF Spec, NewestOnly

----------------------------------------------------------------------------
(* The limit on active requests.                                           *)

SizeInv == Cardinality(Active) <= MaxActive

\* A step that registers no id leaves no more of them.
LEMMA FewerActive ==
  ASSUME SizeInv, Active' \subseteq Active
  PROVE  SizeInv'
<1>1. IsFiniteSet(Active)
  BY RequestLoopAssumption, FS_Subset DEF Active
<1>2. /\ Cardinality(Active') <= Cardinality(Active)
      /\ Cardinality(Active') \in Nat /\ Cardinality(Active) \in Nat
  BY <1>1, FS_Subset, FS_CardinalityType
<1>3. QED
  BY <1>2, RequestLoopAssumption DEF SizeInv

\* activate_request refuses a new id once the table is full.
LEMMA SizeStep == CoreInv /\ SizeInv /\ [Next]_vars => SizeInv'
<1> SUFFICES ASSUME CoreInv, SizeInv, [Next]_vars PROVE SizeInv'
  OBVIOUS
<1>1. ASSUME NEW id \in Ids, NEW st \in {"queued", "emit"}, Accept(id, st) PROVE SizeInv'
  <2>1. Active' \subseteq Active \cup {id} /\ Active \cup {id} \subseteq Active'
    BY <1>1, RequestLoopAssumption DEF Accept, Active, CoreInv
  <2>2. CASE id \in Active
    BY <2>1, <2>2, FewerActive
  <2>3. CASE id \notin Active
    <3>1. IsFiniteSet(Active)
      BY RequestLoopAssumption, FS_Subset DEF Active
    <3>2. Cardinality(Active') = Cardinality(Active) + 1 /\ Cardinality(Active) \in Nat
      BY <2>1, <2>3, <3>1, FS_AddElement, FS_CardinalityType
    <3>3. Cardinality(Active) < MaxActive
      BY <1>1, <2>3 DEF Accept
    <3>4. QED
      BY <3>2, <3>3, RequestLoopAssumption DEF SizeInv
  <2>4. QED
    BY <2>2, <2>3
<1>2. ASSUME NEW g \in Gens, Task(g) PROVE SizeInv'
  <2>1. \/ UNCHANGED active
        \/ active' = [active EXCEPT ![task[g].id] = 0]
    BY <1>2 DEF Task, Permit, Work, Emit, Sent, GoOn, End
  <2>2. Active' \subseteq Active
    BY <2>1 DEF Active, CoreInv
  <2>3. QED
    BY <2>2, FewerActive
<1>3. CASE UNCHANGED active
  <2>1. Active' = Active
    BY <1>3 DEF Active
  <2>2. QED
    BY <2>1, FewerActive
<1>4. QED
  BY <1>1, <1>2, <1>3 DEF Next, Request, Client, Refuse, Cancel, Inline, WatchBurst, Loop,
     Reply, StopReading, Drained, Exit, Watcher, WatchSend, WatchEnd, Writer, WriteOne,
     WriteFails, WriterEnds, vars

\* The state keeps its types, the table stays within MAX_ACTIVE_REQUESTS and the
\* queue within OUTPUT_CHANNEL_CAPACITY.
THEOREM TypeCorrect == Spec => []TypeOK
<1>1. Init => SizeInv
  <2>1. ASSUME Init PROVE Active = {}
    BY <2>1 DEF Init, Active
  <2>2. QED
    BY <2>1, FS_EmptySet, RequestLoopAssumption DEF SizeInv
<1>2. IInv /\ PathInv /\ SizeInv => TypeOK
  BY DEF IInv, CoreInv, PathInv, SizeInv, TypeOK
<1>3. Init => IInv /\ PathInv /\ SizeInv
  BY <1>1, InvInit, PathInit
<1>4. IInv /\ PathInv /\ SizeInv /\ [Next]_vars => (IInv /\ PathInv /\ SizeInv)'
  BY InvStep, PathStep, SizeStep DEF IInv
<1>5. QED
  BY <1>2, <1>3, <1>4, PTL DEF Spec

----------------------------------------------------------------------------
(* How requests, their permits and the daemon come to an end.              *)

\* A request that has ended without an answer was cancelled, or the path to the client
\* is dead.  EveryTaskEnds, without the time it takes.
EndsAccounted == \A g \in Gens : task[g].st = "silent" => task[g].cancelled \/ stalled

\* The semaphore: there are no more permits out than MAX_CONCURRENT_SCANS, and each is
\* with a task that has not ended.
PermitsHeld == Cardinality(Holding) <= MaxScans /\ \A g \in Holding : task[g].st \in Live

\* run() has joined its tasks; the writer has finished only behind every sender.
Closing ==
  /\ loop \in {"dropped", "exited"} => \A g \in Gens : task[g].st \notin Live
  /\ writer = "finished" => out = <<>> /\ loop \in {"dropped", "exited"} /\ watcher = "ended"
  /\ loop = "exited" => writer # "running"

\* A daemon that has exited has ended every request it accepted, and has handed on
\* everything that was sent, unless a write failed.
ExitComplete ==
  loop = "exited" =>
    /\ Active = {} /\ \A g \in Gens : task[g].st \in {"none", "answered", "silent"}
    /\ writer = "failed" \/ (writer = "finished" /\ out = <<>> /\ watcher = "ended")

EndInv == EndsAccounted /\ PermitsHeld /\ Closing

LEMMA FewerHolding ==
  ASSUME PermitsHeld, Holding' \subseteq Holding
  PROVE  Cardinality(Holding') <= MaxScans
<1>1. IsFiniteSet(Holding)
  <2>1. IsFiniteSet(Gens)
    BY RequestLoopAssumption, FS_Interval DEF Gens
  <2>2. QED
    BY <2>1, FS_Subset DEF Holding
<1>2. /\ Cardinality(Holding') <= Cardinality(Holding)
      /\ Cardinality(Holding') \in Nat /\ Cardinality(Holding) \in Nat
  BY <1>1, FS_Subset, FS_CardinalityType
<1>3. QED
  BY <1>2, RequestLoopAssumption DEF PermitsHeld

\* A task's own step: it keeps its token, falls silent for a reason, takes a permit only
\* if there is one, and gives it back when it ends.
EndsWell(g, t) ==
  /\ t.cancelled = task[g].cancelled
  /\ t.st = "silent" => t.cancelled \/ stalled'
  /\ t.permit => t.st \in Live /\ (task[g].permit \/ Cardinality(Holding) < MaxScans)

LEMMA TaskEndsWell ==
  ASSUME IInv, NEW g \in Gens, Task(g), stalled \in BOOLEAN
  PROVE  /\ task[g].st \in Live /\ (stalled => stalled') /\ UNCHANGED others
         /\ task' \in [Gens -> Tasks] /\ EndsWell(g, task'[g])
         /\ \A h \in Gens \ {g} : task'[h] = task[h]
<1>1. task \in [Gens -> Tasks] /\ task[g] \in Tasks
  BY DEF IInv, CoreInv
<1>2. task[g].st \in Live /\ UNCHANGED others
  BY DEF Task, Permit, Work, Emit, Live, Sending
<1>0. UNCHANGED stalled \/ stalled' = TRUE
  BY DEF Task, Permit, Work, Emit, Enqueue, EnqueueParked, SendRefused, SendExpired
<1>3. task' \in [Gens -> Tasks]
  BY TaskStep DEF IInv, CoreInv
<1>4. \A h \in Gens \ {g} : task'[h] = task[h]
  BY <1>1 DEF Task, Permit, Work, Emit, Sent, GoOn, End
<1>5. ASSUME NEW st, End(g, st), st = "silent" => (task[g].cancelled \/ stalled')
      PROVE  EndsWell(g, task'[g])
  BY <1>1, <1>5 DEF EndsWell, End, Tasks
<1>a. "silent" = "silent" /\ "answered" # "silent" /\ "working" # "silent" /\ "emit" # "silent"
  OBVIOUS
<1>b. "working" \in Live /\ "emit" \in Live
  BY DEF Live, Sending
<1>6. ASSUME NEW t, GoOn(g, t) PROVE task'[g] = t
  BY <1>1, <1>6 DEF GoOn
<1>7. ASSUME Permit(g) PROVE EndsWell(g, task'[g])
  <2>1. CASE task[g].cancelled
    <3>1. End(g, "silent")
      BY <1>7, <2>1 DEF Permit
    <3>2. QED
      BY <1>5, <2>1, <3>1, Zenon
  <2>2. CASE ~task[g].cancelled
    <3>1. /\ GoOn(g, [task[g] EXCEPT !.st = "working", !.permit = TRUE])
          /\ Cardinality(Holding) < MaxScans
      BY <1>7, <2>2 DEF Permit
    <3>2. task'[g] = [task[g] EXCEPT !.st = "working", !.permit = TRUE]
      BY <1>6, <3>1
    <3>3. task'[g].cancelled = task[g].cancelled /\ task'[g].st = "working"
      BY <1>1, <3>2 DEF Tasks
    <3>4. QED
      BY <1>a, <1>b, <3>1, <3>3, Zenon DEF EndsWell
  <2>3. QED
    BY <2>1, <2>2
<1>8. ASSUME Work(g) PROVE EndsWell(g, task'[g])
  <2>1. PICK t : /\ GoOn(g, t)
                 /\ \/ \E n \in 1..MaxEvents : t = [task[g] EXCEPT !.st = "emit", !.left = n]
                    \/ t = [task[g] EXCEPT !.st = "emit", !.left = 1, !.permit = FALSE]
    BY <1>8 DEF Work
  <2>2. t.cancelled = task[g].cancelled /\ t.st = "emit" /\ (t.permit => task[g].permit)
    BY <1>1, <2>1 DEF Tasks
  <2>3. task'[g] = t
    BY <1>6, <2>1
  <2>4. QED
    BY <1>a, <1>b, <2>2, <2>3, Zenon DEF EndsWell
<1>9. ASSUME Emit(g) PROVE EndsWell(g, task'[g])
  <2>1. ASSUME GoOn(g, [task[g] EXCEPT !.st = "parked"]) PROVE EndsWell(g, task'[g])
    BY <1>1, <1>6, <2>1 DEF EndsWell, Tasks, Live, Sending
  <2>2. ASSUME Sent(g) PROVE EndsWell(g, task'[g])
    <3>1. CASE task[g].left = 1
      BY <1>5, <2>2, <3>1 DEF Sent, Ended
    <3>2. CASE task[g].left # 1
      BY <1>1, <1>6, <2>2, <3>2 DEF Sent, EndsWell, Tasks, Live, Sending
    <3>3. QED
      BY <3>1, <3>2
  <2>3. ASSUME End(g, "silent"), task[g].cancelled \/ stalled' PROVE EndsWell(g, task'[g])
    BY <1>5, <2>3 DEF Ended
  <2>4. \/ GoOn(g, [task[g] EXCEPT !.st = "parked"])
        \/ Sent(g)
        \/ End(g, "silent") /\ (task[g].cancelled \/ stalled')
    BY <1>9 DEF Emit, SendRefused, SendExpired
  <2>5. QED
    BY <2>1, <2>2, <2>3, <2>4, Zenon
<1>10. QED
  BY <1>0, <1>2, <1>3, <1>4, <1>7, <1>8, <1>9 DEF Task

LEMMA TaskEndStep ==
  ASSUME IInv, PathInv, EndInv, NEW g \in Gens, Task(g)
  PROVE  EndInv'
<1>1. /\ task[g].st \in Live /\ (stalled => stalled') /\ UNCHANGED others
      /\ task' \in [Gens -> Tasks] /\ EndsWell(g, task'[g])
      /\ \A h \in Gens \ {g} : task'[h] = task[h]
  BY TaskEndsWell DEF PathInv
<1>2. EndsAccounted'
  BY <1>1 DEF EndInv, EndsAccounted, EndsWell
<1>3. PermitsHeld'
  <2>1. \A h \in Holding' : task'[h].st \in Live
    BY <1>1 DEF EndInv, PermitsHeld, Holding, EndsWell
  <2>2. CASE Holding' \subseteq Holding
    BY <2>1, <2>2, FewerHolding DEF EndInv, PermitsHeld
  <2>3. CASE ~(Holding' \subseteq Holding)
    <3>1. Holding' = Holding \cup {g} /\ g \notin Holding /\ Cardinality(Holding) < MaxScans
      BY <1>1, <2>3 DEF Holding, EndsWell
    <3>2. IsFiniteSet(Holding)
      <4>1. IsFiniteSet(Gens)
        BY RequestLoopAssumption, FS_Interval DEF Gens
      <4>2. QED
        BY <4>1, FS_Subset DEF Holding
    <3>3. Cardinality(Holding') = Cardinality(Holding) + 1 /\ Cardinality(Holding) \in Nat
      BY <3>1, <3>2, FS_AddElement, FS_CardinalityType
    <3>4. QED
      BY <2>1, <3>1, <3>3, RequestLoopAssumption DEF PermitsHeld
  <2>4. QED
    BY <2>2, <2>3
<1>4. Closing'
  <2>1. loop \notin {"dropped", "exited"} /\ loop' = loop /\ writer' = writer
    BY <1>1 DEF EndInv, Closing, others
  <2>2. QED
    BY <2>1 DEF EndInv, Closing
<1>5. QED
  BY <1>2, <1>3, <1>4 DEF EndInv

\* A new task has no permit, and a token that is set ends nothing by itself.
LEMMA MarkedStep ==
  ASSUME IInv, EndInv, UNCHANGED <<loop, writer, stalled, out, watcher>>, loop = "select",
         \A g \in Gens :
           \/ task'[g].st = task[g].st /\ (task'[g].permit <=> task[g].permit) /\ (task[g].cancelled => task'[g].cancelled)
           \/ task'[g].st \in Live /\ ~task'[g].permit
  PROVE  EndInv'
<1>1. EndsAccounted'
  BY DEF EndInv, EndsAccounted, Live, Sending
<1>2. Holding' \subseteq Holding /\ \A g \in Holding' : task'[g].st \in Live
  BY DEF Holding, EndInv, PermitsHeld
<1>3. PermitsHeld'
  BY <1>2, FewerHolding DEF EndInv, PermitsHeld
<1>4. QED
  BY <1>1, <1>3 DEF EndInv, Closing

LEMMA AcceptEndStep ==
  ASSUME IInv, EndInv, NEW id \in Ids, NEW st \in {"queued", "emit"}, Accept(id, st)
  PROVE  EndInv'
<1>1. \A g \in Gens : task[g] \in Tasks
  BY DEF IInv, CoreInv
<1>2. ASSUME NEW g \in Gens
      PROVE  \/ task'[g].st = task[g].st /\ (task'[g].permit <=> task[g].permit) /\ (task[g].cancelled => task'[g].cancelled)
             \/ task'[g].st \in Live /\ ~task'[g].permit
  <2>1. CASE g = gen + 1
    BY <2>1 DEF Accept, Live, Sending
  <2>2. CASE g # gen + 1
    <3>1. task'[g] = [task[g] EXCEPT !.cancelled = task[g].cancelled \/ g = active[id]]
      BY <2>2 DEF Accept
    <3>2. task'[g].st = task[g].st /\ task'[g].permit = task[g].permit /\ (task[g].cancelled => task'[g].cancelled)
      BY <1>1, <3>1 DEF Tasks
    <3>3. QED
      BY <3>2
  <2>3. QED
    BY <2>1, <2>2
<1>3. UNCHANGED <<loop, writer, stalled, out, watcher>> /\ loop = "select"
  BY DEF Accept, Reads
<1>4. QED
  BY <1>2, <1>3, MarkedStep

LEMMA CancelEndStep ==
  ASSUME IInv, EndInv, NEW id \in Ids, Cancel(id)
  PROVE  EndInv'
<1>1. \A g \in Gens : task[g] \in Tasks
  BY DEF IInv, CoreInv
<1>2. task' = [task EXCEPT ![active[id]] = [task[active[id]] EXCEPT !.cancelled = TRUE]]
  BY DEF Cancel
<1>3. ASSUME NEW g \in Gens
      PROVE  task'[g].st = task[g].st /\ (task'[g].permit <=> task[g].permit) /\ (task[g].cancelled => task'[g].cancelled)
  <2>1. task'[g] = task[g] \/ task'[g] = [task[g] EXCEPT !.cancelled = TRUE]
    BY <1>2 DEF IInv, CoreInv
  <2>2. QED
    BY <1>1, <2>1 DEF Tasks
<1>4. UNCHANGED <<loop, writer, stalled, out, watcher>> /\ loop = "select"
  BY DEF Cancel, Reads
<1>5. QED
  BY <1>3, <1>4, MarkedStep

\* What the loop, the writer, the debounce task and the client do to the end of things.
LEMMA OthersEndStep ==
  ASSUME EndInv, UNCHANGED task, stalled => stalled',
         loop' \in {"dropped", "exited"} => \A g \in Gens : task[g].st \notin Live,
         writer' = "finished" => out' = <<>> /\ loop' \in {"dropped", "exited"} /\ watcher' = "ended",
         loop' = "exited" => writer' # "running"
  PROVE  EndInv'
<1>1. Holding' = Holding
  BY DEF Holding
<1>2. QED
  BY <1>1 DEF EndInv, EndsAccounted, PermitsHeld, Closing

LEMMA EndStepOfAll == IInv /\ PathInv /\ EndInv /\ [Next]_vars => EndInv'
<1> SUFFICES ASSUME IInv, PathInv, EndInv, [Next]_vars PROVE EndInv'
  OBVIOUS
<1>1. Closing /\ stalled \in BOOLEAN
  BY DEF EndInv, PathInv
<1>2. CASE Client
  BY <1>1, <1>2, OthersEndStep DEF Client, Closing
<1>3. CASE Request
  <2>1. ASSUME NEW id \in Ids, Refuse(id) PROVE EndInv'
    BY <1>1, <2>1, OthersEndStep DEF Refuse, Reads, env, Closing
  <2>2. QED
    BY <1>3, <2>1, AcceptEndStep, CancelEndStep DEF Request
<1>4. CASE Inline \/ WatchBurst
  BY <1>1, <1>4, OthersEndStep DEF Inline, WatchBurst, Reads, env, Closing
<1>5. CASE Loop
  <2>1. CASE Reply
    <3>1. /\ loop \in {"reply", "replyParked"} /\ loop' \in {"select", "replyParked", "draining"}
          /\ UNCHANGED <<task, writer, watcher>> /\ (stalled => stalled')
      BY <2>1 DEF Reply, Enqueue, EnqueueParked, SendRefused, SendExpired
    <3>2. writer # "finished"
      BY <1>1, <3>1 DEF Closing
    <3>3. QED
      BY <3>1, <3>2, OthersEndStep
  <2>2. CASE StopReading
    BY <1>1, <2>2, OthersEndStep DEF StopReading, env, Closing
  <2>3. CASE Drained
    BY <1>1, <2>3, OthersEndStep DEF Drained, env, Closing
  <2>4. CASE Exit
    BY <1>1, <2>4, OthersEndStep DEF Exit, env, Closing
  <2>5. QED
    BY <1>5, <2>1, <2>2, <2>3, <2>4 DEF Loop
<1>6. CASE Watcher
  <2>1. /\ watcher # "ended" /\ UNCHANGED <<task, loop, writer>> /\ (stalled => stalled')
    BY <1>6 DEF Watcher, WatchSend, WatchEnd, Enqueue, EnqueueParked, SendRefused, SendExpired
  <2>2. writer # "finished"
    BY <1>1, <2>1 DEF Closing
  <2>3. QED
    BY <1>1, <2>1, <2>2, OthersEndStep DEF Closing
<1>7. CASE Writer
  <2>1. CASE WriteOne
    BY <1>1, <2>1, OthersEndStep DEF WriteOne, env, Closing
  <2>2. CASE WriteFails
    BY <1>1, <2>2, OthersEndStep DEF WriteFails, env, Closing
  <2>3. CASE WriterEnds
    BY <1>1, <2>3, OthersEndStep DEF WriterEnds, env, Closing
  <2>4. QED
    BY <1>7, <2>1, <2>2, <2>3 DEF Writer
<1>8. ASSUME NEW g \in Gens, Task(g) PROVE EndInv'
  BY <1>8, TaskEndStep
<1>9. CASE UNCHANGED vars
  BY <1>1, <1>9, OthersEndStep DEF vars, Closing
<1>10. QED
  BY <1>2, <1>3, <1>4, <1>5, <1>6, <1>7, <1>8, <1>9 DEF Next

LEMMA EndInvInit == Init => EndInv
<1> SUFFICES ASSUME Init PROVE EndInv
  OBVIOUS
<1>1. Holding = {}
  BY DEF Init, Holding, NoTask
<1>2. Cardinality(Holding) = 0 /\ 0 <= MaxScans
  BY <1>1, FS_EmptySet, RequestLoopAssumption
<1>3. QED
  BY <1>1, <1>2 DEF Init, EndInv, EndsAccounted, PermitsHeld, Closing, NoTask

LEMMA EndInvariant == Spec => [](IInv /\ PathInv /\ EndInv)
<1>1. Init => IInv /\ PathInv /\ EndInv
  BY InvInit, PathInit, EndInvInit
<1>2. IInv /\ PathInv /\ EndInv /\ [Next]_vars => (IInv /\ PathInv /\ EndInv)'
  BY InvStep, PathStep, EndStepOfAll DEF IInv
<1>3. QED
  BY <1>1, <1>2, PTL DEF Spec

\* server.rs:102-116: a request is never dropped in silence, whatever becomes of its
\* sends: it was cancelled, or the client has been given up.
THEOREM EndsAccountedHolds == Spec => []EndsAccounted
<1>1. EndInv => EndsAccounted
  BY DEF EndInv
<1>2. QED
  BY <1>1, EndInvariant, PTL

\* A scan permit is never lost: not by an error, a cancel or a dead output path.
THEOREM PermitsHeldHolds == Spec => []PermitsHeld
<1>1. EndInv => PermitsHeld
  BY DEF EndInv
<1>2. QED
  BY <1>1, EndInvariant, PTL

\* simpletree_daemon.rs:410-420: the daemon does not exit before the work it accepted is
\* done and written.
THEOREM ExitCompleteHolds == Spec => []ExitComplete
<1>1. IInv /\ PathInv /\ EndInv => ExitComplete
  <2> SUFFICES ASSUME IInv, PathInv, EndInv, loop = "exited" PROVE ExitComplete
    BY DEF ExitComplete
  <2>1. \A g \in Gens : task[g].st \notin Live /\ task[g].st \in Live \cup Ended \cup {"none"}
    BY DEF EndInv, Closing, IInv, CoreInv, Tasks
  <2>2. Active = {}
    BY <2>1 DEF IInv, IdsOwned, CoreInv, Active, Gens
  <2>3. QED
    BY <2>1, <2>2 DEF ExitComplete, EndInv, Closing, PathInv, Ended
<1>2. QED
  BY <1>1, EndInvariant, PTL
=============================================================================
