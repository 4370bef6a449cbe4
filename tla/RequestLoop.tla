---------------------------- MODULE RequestLoop ----------------------------
(***************************************************************************)
(* The daemon around its handlers: the request loop, the table of active   *)
(* requests, the scan permits, the bounded stdout queue with its send      *)
(* deadline, the writer, the debounce task's sends, and the shutdown       *)
(* (simpletree_daemon.rs, server.rs).                           *)
(*                                                                         *)
(* Everything but the blocking workers runs on one thread, so an action is *)
(* what a task does between two awaits.  A send is two awaits: it fails at *)
(* once on a stalled path, and otherwise either enters the queue or parks  *)
(* until there is room, a cancel, or its deadline.  What a request computes*)
(* is left out: a task has a number of events to emit.                     *)
(***************************************************************************)
EXTENDS Integers, Sequences, FiniteSets

CONSTANTS
  Ids,        \* request ids the client uses
  MaxGen,     \* bound: requests accepted or refused
  MaxActive,  \* MAX_ACTIVE_REQUESTS
  MaxScans,   \* MAX_CONCURRENT_SCANS
  OutCap,     \* OUTPUT_CHANNEL_CAPACITY
  MaxEvents,  \* bound: events of one request
  MaxReplies, \* bound: requests answered inline
  MaxBursts   \* bound: fs_events

ASSUME RequestLoopAssumption ==
  /\ 0 \notin Ids /\ IsFiniteSet(Ids)
  /\ MaxGen \in Nat /\ MaxActive \in Nat \ {0} /\ MaxScans \in Nat \ {0}
  /\ OutCap \in Nat \ {0} /\ MaxEvents \in Nat \ {0}
  /\ MaxReplies \in Nat /\ MaxBursts \in Nat

Gens == 1..MaxGen

Sending == {"emit", "parked"}
Live == {"queued", "working"} \cup Sending
Ended == {"answered", "silent"}

VARIABLES
  client,   \* the client's end of stdout: "reading", "paused" or "gone"
  stdin,    \* "open" or "closed"
  loop,     \* where run() is
  gen,      \* next_generation
  active,   \* active[id]: generation of the active request, 0 for none
  task,     \* task[g]: the task of generation g
  out,      \* the stdout queue: the generation of each event, 0 for the others
  stalled,  \* EventTx.stalled
  writer,   \* "running", "failed" (the queue is closed) or "finished"
  watcher,  \* the debounce task: "idle", "emit", "parked" or "ended"
  budget    \* what is left of MaxReplies and MaxBursts

env == <<client, stdin>>
vars == <<client, stdin, loop, gen, active, task, out, stalled, writer, watcher, budget>>

\* left: events still to send, one of which an error's; permit: a scan permit held.
NoTask == [id |-> 0, st |-> "none", left |-> 0, permit |-> FALSE, cancelled |-> FALSE]

Tasks == [id : Ids \cup {0}, st : Live \cup Ended \cup {"none"}, left : 0..MaxEvents,
          permit : BOOLEAN, cancelled : BOOLEAN]

Init ==
  /\ client = "reading" /\ stdin = "open"
  /\ loop = "select" /\ gen = 0
  /\ active = [id \in Ids |-> 0]
  /\ task = [g \in Gens |-> NoTask]
  /\ out = <<>> /\ stalled = FALSE /\ writer = "running" /\ watcher = "idle"
  /\ budget = [replies |-> MaxReplies, bursts |-> MaxBursts]

----------------------------------------------------------------------------
(* EventTx::send.                                                          *)

Room == writer # "failed" /\ Len(out) < OutCap

\* The first poll of a send puts the event in the queue.
Enqueue(g) == ~stalled /\ Room /\ out' = Append(out, g) /\ UNCHANGED stalled

\* The queue is full: the sender parks.
MustPark == ~stalled /\ writer # "failed" /\ Len(out) = OutCap

\* There is room for a parked sender, whatever the stall bit says by now.
EnqueueParked(g) == Room /\ out' = Append(out, g) /\ UNCHANGED stalled

\* A send that starts on a dead path fails at once.
SendRefused == (stalled \/ writer = "failed") /\ stalled' = TRUE /\ UNCHANGED out

\* Mutant: a parked send has no deadline.
NeverExpires == writer = "failed" /\ stalled' = TRUE /\ UNCHANGED out

\* A parked send fails: its deadline passed on a full queue, or the queue closed.
SendExpired ==
  (writer = "failed" \/ Len(out) = OutCap) /\ stalled' = TRUE /\ UNCHANGED out

----------------------------------------------------------------------------
(* The client, and the writer between them.                                *)

ClientPauses == client = "reading" /\ client' = "paused" /\ UNCHANGED stdin
ClientResumes == client = "paused" /\ client' = "reading" /\ UNCHANGED stdin
ClientLeaves == client # "gone" /\ client' = "gone" /\ stdin' = "closed"
ClientCloses == stdin = "open" /\ stdin' = "closed" /\ UNCHANGED client

Client ==
  /\ ClientPauses \/ ClientResumes \/ ClientLeaves \/ ClientCloses
  /\ UNCHANGED <<loop, gen, active, task, out, stalled, writer, watcher, budget>>

\* stdout_writer hands one record on; it blocks while the client does not read.
WriteOne ==
  /\ writer = "running" /\ client = "reading" /\ out # <<>>
  /\ out' = Tail(out)
  /\ UNCHANGED <<env, loop, gen, active, task, stalled, writer, watcher, budget>>

\* A write fails: the writer returns and its receiver goes.
WriteFails ==
  /\ writer = "running" /\ client = "gone" /\ out # <<>>
  /\ writer' = "failed" /\ out' = <<>>
  /\ UNCHANGED <<env, loop, gen, active, task, stalled, watcher, budget>>

\* Every sender is gone and the queue is drained.
WriterEnds ==
  /\ writer = "running" /\ out = <<>> /\ loop = "dropped" /\ watcher = "ended"
  /\ \A g \in Gens : task[g].st \notin Live
  /\ writer' = "finished"
  /\ UNCHANGED <<env, loop, gen, active, task, out, stalled, watcher, budget>>

----------------------------------------------------------------------------
(* The request loop.                                                       *)

Active == {id \in Ids : active[id] # 0}

\* The loop takes the next line: neither stalled nor at the end of its input.
Reads == loop = "select" /\ ~stalled /\ stdin = "open"

\* Mutant: the limit is checked one request too late.
AcceptOneMore(id, st) ==
  /\ Reads /\ gen < MaxGen
  /\ id \in Active \/ Cardinality(Active) <= MaxActive
  /\ gen' = gen + 1
  /\ active' = [active EXCEPT ![id] = gen + 1]
  /\ task' = [g \in Gens |->
       IF g = gen + 1
       THEN [id |-> id, st |-> st, left |-> 1, permit |-> FALSE, cancelled |-> FALSE]
       ELSE [task[g] EXCEPT !.cancelled = @ \/ g = active[id]]]
  /\ UNCHANGED <<env, loop, out, stalled, writer, watcher, budget>>

\* A request with a task: list, git_status, search or fs_op.  It waits for a
\* permit, or emits at once (st) when a list is answered from the cache.
\* begin_request, activate_request: a newer request cancels the id's older one.
Accept(id, st) ==
  /\ Reads /\ gen < MaxGen
  /\ id \in Active \/ Cardinality(Active) < MaxActive
  /\ gen' = gen + 1
  /\ active' = [active EXCEPT ![id] = gen + 1]
  /\ task' = [g \in Gens |->
       IF g = gen + 1
       THEN [id |-> id, st |-> st, left |-> 1, permit |-> FALSE, cancelled |-> FALSE]
       ELSE [task[g] EXCEPT !.cancelled = @ \/ g = active[id]]]
  /\ UNCHANGED <<env, loop, out, stalled, writer, watcher, budget>>

\* The table is full: the generation is spent and an error is sent inline.
Refuse(id) ==
  /\ Reads /\ gen < MaxGen
  /\ id \notin Active /\ Cardinality(Active) >= MaxActive
  /\ gen' = gen + 1 /\ loop' = "reply"
  /\ UNCHANGED <<env, active, task, out, stalled, writer, watcher, budget>>

\* ping, watch, unwatch, and a line that is no request: answered inline.
Inline ==
  /\ Reads /\ budget.replies > 0
  /\ loop' = "reply" /\ budget' = [budget EXCEPT !.replies = @ - 1]
  /\ UNCHANGED <<env, gen, active, task, out, stalled, writer, watcher>>

Cancel(id) ==
  /\ Reads /\ id \in Active
  /\ task' = [task EXCEPT ![active[id]].cancelled = TRUE]
  /\ UNCHANGED <<env, loop, gen, active, out, stalled, writer, watcher, budget>>

\* The inline reply is sent, or parks with the whole loop.  A failed one ends
\* the loop (a refusal's at the next check of the stall bit).
Reply ==
  /\ \/ loop = "reply" /\ Enqueue(0) /\ loop' = "select"
     \/ loop = "reply" /\ MustPark /\ loop' = "replyParked" /\ UNCHANGED <<out, stalled>>
     \/ loop = "replyParked" /\ EnqueueParked(0) /\ loop' = "select"
     \/ loop = "reply" /\ SendRefused /\ loop' = "draining"
     \/ loop = "replyParked" /\ SendExpired /\ loop' = "draining"
  /\ UNCHANGED <<env, gen, active, task, writer, watcher, budget>>

\* End of input, or the path is dead: no more requests.
StopReading ==
  /\ loop = "select" /\ (stalled \/ stdin = "closed")
  /\ loop' = "draining"
  /\ UNCHANGED <<env, gen, active, task, out, stalled, writer, watcher, budget>>

\* All tasks are joined; the watch service and the loop's sender are dropped.
Drained ==
  /\ loop = "draining" /\ \A g \in Gens : task[g].st \notin Live
  /\ loop' = "dropped"
  /\ UNCHANGED <<env, gen, active, task, out, stalled, writer, watcher, budget>>

Exit ==
  /\ loop = "dropped" /\ writer \in {"finished", "failed"}
  /\ loop' = "exited"
  /\ UNCHANGED <<env, gen, active, task, out, stalled, writer, watcher, budget>>

----------------------------------------------------------------------------
(* The debounce task: a burst is sent as one fs_event.  Once the service is *)
(* dropped its channel closes; what it still holds is flushed first.       *)

WatchBurst ==
  /\ watcher = "idle" /\ budget.bursts > 0 /\ loop # "exited"
  /\ watcher' = "emit" /\ budget' = [budget EXCEPT !.bursts = @ - 1]
  /\ UNCHANGED <<env, loop, gen, active, task, out, stalled, writer>>

WatchSend ==
  /\ \/ watcher = "emit" /\ Enqueue(0) /\ watcher' = "idle"
     \/ watcher = "emit" /\ MustPark /\ watcher' = "parked" /\ UNCHANGED <<out, stalled>>
     \/ watcher = "parked" /\ EnqueueParked(0) /\ watcher' = "idle"
     \/ watcher = "emit" /\ SendRefused /\ watcher' = "ended"
     \/ watcher = "parked" /\ SendExpired /\ watcher' = "ended"
  /\ UNCHANGED <<env, loop, gen, active, task, writer, budget>>

\* Mutant: run() returns, and drops the service, after it awaited the writer.
DroppedLate == loop = "exited"

\* The service has been dropped: recv answers None.
Dropped == loop \in {"dropped", "exited"}

WatchEnd ==
  /\ watcher = "idle" /\ Dropped
  /\ watcher' = "ended"
  /\ UNCHANGED <<env, loop, gen, active, task, out, stalled, writer, budget>>

----------------------------------------------------------------------------
(* Request tasks.                                                          *)

\* What a step of one task leaves alone.
others == <<env, loop, gen, writer, watcher, budget>>

Holding == {g \in Gens : task[g].permit}

\* The task goes on as t.
GoOn(g, t) == task' = [task EXCEPT ![g] = t] /\ UNCHANGED active

\* Mutant: the id is released whoever holds it by now.
EndAnyway(g, st) ==
  /\ task' = [task EXCEPT ![g] = [@ EXCEPT !.st = st, !.left = 0, !.permit = FALSE]]
  /\ active' = [active EXCEPT ![task[g].id] = 0]

\* end_request: the handler returns, and in the same breath (the table is never
\* contended on one thread) the id is released, if it still is this task's.
End(g, st) ==
  /\ task' = [task EXCEPT ![g] = [@ EXCEPT !.st = st, !.left = 0, !.permit = FALSE]]
  /\ active' = IF active[task[g].id] = g THEN [active EXCEPT ![task[g].id] = 0] ELSE active

\* Biased: a cancelled request never takes a permit.
Permit(g) ==
  /\ task[g].st = "queued"
  /\ IF task[g].cancelled THEN End(g, "silent")
     ELSE /\ Cardinality(Holding) < MaxScans
          /\ GoOn(g, [task[g] EXCEPT !.st = "working", !.permit = TRUE])
  /\ UNCHANGED <<others, out, stalled>>

\* The blocking job ends, with n events to send, or with an error: the handler
\* returns, its permit with it, and the error is one event to send.
Work(g) ==
  /\ task[g].st = "working"
  /\ \/ \E n \in 1..MaxEvents : GoOn(g, [task[g] EXCEPT !.st = "emit", !.left = n])
     \/ GoOn(g, [task[g] EXCEPT !.st = "emit", !.left = 1, !.permit = FALSE])
  /\ UNCHANGED <<others, out, stalled>>

\* An event is in the queue; it was the last one, or the next follows.
Sent(g) ==
  IF task[g].left = 1 THEN End(g, "answered")
  ELSE GoOn(g, [task[g] EXCEPT !.st = "emit", !.left = @ - 1])

\* Mutant: a parked send does not look at the cancel token again.
EmitParkedAnyway(g) ==
  /\ \/ task[g].st = "emit" /\ task[g].cancelled /\ End(g, "silent") /\ UNCHANGED <<out, stalled>>
     \/ /\ task[g].st = "emit" /\ ~task[g].cancelled
        /\ \/ Enqueue(g) /\ Sent(g)
           \/ MustPark /\ GoOn(g, [task[g] EXCEPT !.st = "parked"]) /\ UNCHANGED <<out, stalled>>
           \/ SendRefused /\ End(g, "silent")
     \/ /\ task[g].st = "parked"
        /\ \/ EnqueueParked(g) /\ Sent(g)
           \/ SendExpired /\ End(g, "silent")
  /\ UNCHANGED others

\* send_event_unless_cancelled, biased: a cancelled sender never enqueues.  A
\* failed send makes the handler fail, and the error it would report cannot be
\* sent either.
Emit(g) ==
  /\ \/ task[g].st \in Sending /\ task[g].cancelled /\ End(g, "silent") /\ UNCHANGED <<out, stalled>>
     \/ /\ task[g].st = "emit" /\ ~task[g].cancelled
        /\ \/ Enqueue(g) /\ Sent(g)
           \/ MustPark /\ GoOn(g, [task[g] EXCEPT !.st = "parked"]) /\ UNCHANGED <<out, stalled>>
           \/ SendRefused /\ End(g, "silent")
     \/ /\ task[g].st = "parked" /\ ~task[g].cancelled
        /\ \/ EnqueueParked(g) /\ Sent(g)
           \/ SendExpired /\ End(g, "silent")
  /\ UNCHANGED others

----------------------------------------------------------------------------
Task(g) == Permit(g) \/ Work(g) \/ Emit(g)

Request ==
  \E id \in Ids : (\E st \in {"queued", "emit"} : Accept(id, st)) \/ Refuse(id) \/ Cancel(id)

Loop == Reply \/ StopReading \/ Drained \/ Exit
Watcher == WatchSend \/ WatchEnd
Writer == WriteOne \/ WriteFails \/ WriterEnds

Next ==
  \/ Client \/ Request \/ Inline \/ WatchBurst
  \/ Loop \/ Watcher \/ Writer
  \/ \E g \in Gens : Task(g)

\* The runtime polls every task that can go on, and deadlines pass.  The client
\* owes nothing, but each time it reads, the writer gets something across.
Fairness ==
  /\ WF_vars(Loop) /\ WF_vars(Watcher) /\ SF_vars(Writer)
  /\ \A g \in Gens : WF_vars(Task(g))

Spec == Init /\ [][Next]_vars
FairSpec == Spec /\ Fairness

----------------------------------------------------------------------------
(* Properties.                                                             *)

TypeOK ==
  /\ client \in {"reading", "paused", "gone"} /\ stdin \in {"open", "closed"}
  /\ loop \in {"select", "reply", "replyParked", "draining", "dropped", "exited"}
  /\ gen \in 0..MaxGen /\ active \in [Ids -> 0..MaxGen]
  /\ Cardinality(Active) <= MaxActive
  /\ task \in [Gens -> Tasks]
  /\ out \in Seq(0..MaxGen) /\ Len(out) <= OutCap
  /\ stalled \in BOOLEAN /\ writer \in {"running", "failed", "finished"}
  /\ watcher \in {"idle", "emit", "parked", "ended"}
  /\ budget \in [replies : Nat, bursts : Nat]

\* server.rs:118, "A superseded task must not remove the newer request that
\* reused its ID": the table and the tasks agree.  An active id belongs to a
\* live task of that id, and a live task that nobody cancelled is the one its id
\* stands for, so that a cancel request can reach it.
IdsOwned ==
  /\ \A id \in Active : task[active[id]].st \in Live /\ task[active[id]].id = id
  /\ \A g \in Gens : task[g].st \in Live /\ ~task[g].cancelled => active[task[g].id] = g

\* server.rs:102-116, 161-174: once a newer request has taken an id over, nothing
\* more of the older one enters the queue, however its sends were parked.  What
\* was queued before is still written, ahead of all that the newer one sends.
NewestOnly ==
  [][\A g \in Gens : out' = Append(out, g) => active[task[g].id] = g]_vars

\* server.rs:31-50: no client, however slow, keeps a task from ending.  An
\* accepted request is answered, unless it was cancelled or the path is dead.
EveryTaskEnds ==
  \A g \in Gens : task[g].st \in Live ~>
    \/ task[g].st = "answered"
    \/ task[g].st = "silent" /\ (task[g].cancelled \/ stalled)

\* simpletree_daemon.rs:410-420: at the end of its input the daemon finishes
\* what it accepted and exits, if what it writes keeps being read or refused.
EofExits ==
  []<>(client # "paused") => ((stdin = "closed") ~> (loop = "exited"))

\* simpletree_daemon.rs:192-195, "otherwise a client that stopped reading wedges
\* the daemon with no way out, not even closing stdin": with the stall check
\* there is a way out.
StallExits == (stalled /\ stdin = "closed") ~> (loop = "exited")
=============================================================================
