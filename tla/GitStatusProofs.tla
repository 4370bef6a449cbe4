-------------------------- MODULE GitStatusProofs --------------------------
(***************************************************************************)
(* Proofs about GitStatus, for any roots, repositories and number of       *)
(* requests: what the cache holds as clean is as new as what was           *)
(* announced, the marks are those of one request for the root on the       *)
(* screen, a callback waits only while there is something to come, and     *)
(* when nothing goes on, what is shown has every announcement.             *)
(*                                                                         *)
(* The invariant follows a version from the run of git that has read it,   *)
(* and a request's number from its callback to the marks.  Settling        *)
(* follows an announcement the other way: it is due at the timer, or the   *)
(* last request has still to come to its repository, or brings or shows    *)
(* a status that is good enough.                                           *)
(***************************************************************************)
EXTENDS GitStatus, FiniteSetTheorems, SequenceTheorems, TLAPS

Entries == [status : Statuses, dirty : BOOLEAN, aged : BOOLEAN]

\* Requests are numbered as they are made.
Numbered == \E n \in 0..MaxRequests : \A i \in Requests : task[i].at # "none" <=> i <= n

\* A run of git has read what was announced, or is known to have been overtaken.
TaskOK(i) ==
  /\ task[i].at = "none" => task[i] = NoTask /\ i \notin bcbs
  /\ task[i].at # "none" => task[i].root \in Roots /\ task[i].scope <= Len(Scopes(i)) + 1
  /\ task[i].at = "run" => /\ task[i].scope <= Len(Scopes(i))
                           /\ task[i].run.raced \/ task[i].run.version >= told[Scopes(i)[task[i].scope]]

ToldOK == \A r \in Repos : told[r] <= disk[r]

\* A status on its way says whose it is.
OutOK ==
  \A k \in 1..Len(out) : out[k].type = "git_status" =>
    out[k].status.of = out[k].id /\ task[out[k].id].at # "none"

\* Marks are of the last request, or it waits for its first answer.
ShownOK ==
  /\ \A r \in Repos : shown[r] # NoStatus =>
       /\ shown[r].of \in Requests /\ task[shown[r].of].at # "none"
       /\ ~awaitingFirst => shown[r].of = requestId
  /\ requestId # 0 => task[requestId].at # "none" /\ task[requestId].root = root

\* GitCache: what the cache holds as clean has every announced change, but for
\* those that were announced while git was reading.
CleanIsCurrent ==
  \A r \in Repos : (cache[r] # NoEntry /\ ~cache[r].dirty) =>
    cache[r].status.version >= told[r] \/ cache[r].status.raced

IInv ==
  /\ TypeOK /\ Numbered /\ (\A i \in Requests : TaskOK(i)) /\ ToldOK /\ CleanIsCurrent
  /\ OutOK /\ CallbacksEnd /\ ShownOK /\ MarksOfOneAnswer

\* Whether e is the last event of request i.
Last(e, i) == (e.type = "git_status" /\ e.id = i /\ e.done) \/ e = ErrorEvent(i)

----------------------------------------------------------------------------
LEMMA RecordTypes ==
  /\ NoStatus \in Statuses /\ NoEntry \in Entries /\ NoTask \in Tasks /\ NoTask.at = "none"
  /\ NoEntry.dirty = FALSE /\ NoStatus.of = 0
<1>1. NoStatus \in Statuses /\ NoStatus.of = 0
  BY DEF NoStatus, Statuses, None
<1>2. QED
  BY <1>1 DEF NoEntry, Entries, NoTask, Tasks

LEMMA EventTypes ==
  ASSUME NEW e \in Events
  PROVE  /\ e.type = "fs_event" => e.dirs \subseteq Repos
         /\ e.type = "git_status" => e.id \in Requests /\ e.repo \in Repos /\ e.status \in Statuses /\ e.done \in BOOLEAN
         /\ e.type = "error" => e.id \in Requests /\ e = ErrorEvent(e.id)
BY DEF Events, ErrorEvent

LEMMA ErrorEvents == \A i \in Requests : ErrorEvent(i) \in Events /\ ErrorEvent(i).type = "error" /\ ErrorEvent(i).id = i
BY DEF ErrorEvent, Events

LEMMA ScopeTypes ==
  ASSUME NEW rt \in Roots, NEW k \in 1..Len(RootRepos[rt])
  PROVE  RootRepos[rt][k] \in Repos
<1>1. RootRepos[rt] \in Seq(Repos)
  BY GitAssumption
<1>2. QED
  BY <1>1, ElementOfSeq

\* A line that may come on top of those there are.
LEMMA OneMore ==
  ASSUME NEW S, NEW s \in Seq(S), NEW e \in S, NEW t, t = s \/ t = Append(s, e)
  PROVE  /\ t \in Seq(S) /\ Len(t) \in Nat
         /\ \A k \in 1..Len(s) : k \in 1..Len(t) /\ t[k] = s[k]
         /\ \A k \in 1..Len(t) : k \in 1..Len(s) \/ t[k] = e
         /\ t = Append(s, e) => t[Len(t)] = e /\ Len(t) \in 1..Len(t)
<1>1. Len(s) \in Nat
  BY ONLY s \in Seq(S), LenProperties
<1>2. CASE t = s
  <2>1. t # Append(s, e)
    <3>1. Len(Append(s, e)) = Len(s) + 1
      BY ONLY s \in Seq(S), e \in S, AppendProperties
    <3>2. QED
      BY ONLY <1>1, <1>2, <3>1
  <2>2. QED
    BY ONLY <1>1, <1>2, <2>1, s \in Seq(S)
<1>3. CASE t = Append(s, e)
  <2>1. /\ t \in Seq(S) /\ Len(t) = Len(s) + 1 /\ t[Len(s) + 1] = e
        /\ \A k \in 1..Len(s) : t[k] = s[k]
    BY ONLY <1>3, s \in Seq(S), e \in S, AppendProperties
  <2>2. Len(t) \in Nat /\ Len(t) \in 1..Len(t) /\ \A k \in 1..Len(t) : k \in 1..Len(s) \/ k = Len(s) + 1
    BY ONLY <1>1, <2>1
  <2>3. \A k \in 1..Len(s) : k \in 1..Len(t)
    BY ONLY <1>1, <2>1
  <2>4. QED
    BY ONLY <2>1, <2>2, <2>3
<1>4. QED
  BY <1>2, <1>3

LEMMA InitStep == Init => IInv
<1> SUFFICES ASSUME Init PROVE IInv
  OBVIOUS
<1>1. out = <<>> /\ Len(out) = 0 /\ 1..Len(out) = {} /\ out \in Seq(Events)
  <2>1. \A S : <<>> \in Seq(S)
    OBVIOUS
  <2>2. QED
    BY <2>1 DEF Init
<1>2. \A i \in Requests : task[i] = NoTask
  BY DEF Init
<1>3. NoTask.root # 0 => FALSE
  BY DEF NoTask
<1>4. TypeOK
  <2>1. task \in [Requests -> Tasks] /\ cache \in [Repos -> Entries] /\ shown \in [Repos -> Statuses]
    BY RecordTypes DEF Init
  <2>2. disk \in [Repos -> Nat \ {0}] /\ told \in [Repos -> Nat]
    BY DEF Init, None
  <2>3. changes \in 0..MaxChanges /\ calls \in 0..MaxCalls
    BY GitAssumption DEF Init
  <2>4. QED
    BY <1>1, <1>2, <1>3, <2>1, <2>2, <2>3 DEF Init, TypeOK, Entries
<1>5. Numbered
  <2>1. 0 \in 0..MaxRequests /\ \A i \in Requests : ~(i <= 0)
    BY GitAssumption DEF Requests
  <2>2. QED
    BY <1>2, <2>1, RecordTypes DEF Numbered
<1>6. \A i \in Requests : TaskOK(i)
  BY <1>2, RecordTypes DEF TaskOK, Init
<1>7. ToldOK
  BY DEF Init, ToldOK, None
<1>8. CleanIsCurrent /\ CallbacksEnd /\ ShownOK /\ MarksOfOneAnswer
  BY DEF Init, CleanIsCurrent, CallbacksEnd, ShownOK, MarksOfOneAnswer
<1>9. OutOK
  BY <1>1 DEF OutOK
<1>10. QED
  BY <1>4, <1>5, <1>6, <1>7, <1>8, <1>9 DEF IInv

----------------------------------------------------------------------------
(* The task of a request.                                                  *)

\* Task i goes on to t, and may say e, its last word if it is over.
LEMMA TaskGoesOn ==
  ASSUME IInv, NEW i \in Requests, NEW t \in Tasks, task' = [task EXCEPT ![i] = t],
         task[i].at # "none", t.at # "none", t.root = task[i].root, t.scope <= Len(Scopes(i)) + 1,
         t.at = "run" => /\ t.scope <= Len(Scopes(i))
                         /\ t.run.raced \/ t.run.version >= told[Scopes(i)[t.scope]],
         cache' \in [Repos -> Entries], CleanIsCurrent',
         NEW e \in Events, e.type = "git_status" => e.status.of = i, e.type # "fs_event" => e.id = i,
         out' = out \/ out' = Append(out, e), t.at = "over" => out' = Append(out, e) /\ Last(e, i),
         TaskUnchanged
  PROVE  IInv'
<1>1. UNCHANGED <<disk, changes, alive, burst, told, open, root, gitOn, calls, requestId, awaitingFirst, bcbs, dirs, gitTimer, shown>>
  BY DEF TaskUnchanged, diskVars, sessionVars, requestVars
<1>2. /\ TypeOK /\ task \in [Requests -> Tasks] /\ out \in Seq(Events) /\ Len(out) \in Nat
      /\ requestId \in Requests \cup {0}
  BY LenProperties DEF IInv, TypeOK
<1>3. task' \in [Requests -> Tasks] /\ task'[i] = t /\ \A j \in Requests \ {i} : task'[j] = task[j]
  BY <1>2
<1>4. \A j \in Requests : task'[j].root = task[j].root /\ (task'[j].at # "none" <=> task[j].at # "none") /\ Scopes(j)' = Scopes(j)
  BY <1>3 DEF Scopes
<1>5. /\ out' \in Seq(Events) /\ Len(out') \in Nat
      /\ \A k \in 1..Len(out) : k \in 1..Len(out') /\ out'[k] = out[k]
      /\ \A k \in 1..Len(out') : k \in 1..Len(out) \/ out'[k] = e
      /\ out' = Append(out, e) => out'[Len(out')] = e /\ Len(out') \in 1..Len(out')
  BY ONLY <1>2, e \in Events, out' = out \/ out' = Append(out, e), OneMore
<1>6. TypeOK'
  <2>1. \A j \in Requests : task'[j].root # 0 => task'[j].scope <= Len(Scopes(j)') + 1
    BY <1>2, <1>3, <1>4 DEF TypeOK
  <2>2. QED
    BY <1>1, <1>2, <1>3, <1>5, <2>1 DEF TypeOK, Entries
<1>7. Numbered'
  BY <1>4 DEF IInv, Numbered
<1>8. ASSUME NEW j \in Requests PROVE TaskOK(j)'
  <2>1. TaskOK(j)
    BY DEF IInv
  <2>2. CASE j = i
    BY <1>1, <1>3, <1>4, <2>1, <2>2 DEF TaskOK
  <2>3. CASE j # i
    BY <1>1, <1>3, <1>4, <2>1, <2>3 DEF TaskOK
  <2>4. QED
    BY <2>2, <2>3
<1>9. ToldOK'
  BY <1>1 DEF IInv, ToldOK
<1>10. OutOK'
  <2> SUFFICES ASSUME NEW k \in 1..Len(out'), out'[k].type = "git_status"
               PROVE  out'[k].status.of = out'[k].id /\ task'[out'[k].id].at # "none"
    BY DEF OutOK
  <2>1. CASE k \in 1..Len(out)
    <3>1. out[k] \in Events /\ out'[k] = out[k]
      BY <1>2, <1>5, <2>1, ElementOfSeq
    <3>2. out[k].id \in Requests /\ out[k].status.of = out[k].id /\ task[out[k].id].at # "none"
      BY <2>1, <3>1, EventTypes DEF IInv, OutOK
    <3>3. QED
      BY <1>4, <3>1, <3>2
  <2>2. CASE out'[k] = e
    BY <1>3, <2>2
  <2>3. QED
    BY <1>5, <2>1, <2>2
<1>11. CallbacksEnd'
  <2> SUFFICES ASSUME NEW j \in bcbs, task'[j].at = "over"
               PROVE  \E k \in 1..Len(out') : Last(out'[k], j)
    BY <1>1 DEF CallbacksEnd, Last, ErrorEvent
  <2>1. j \in Requests
    BY <1>2 DEF TypeOK
  <2>2. CASE j = i
    BY <1>3, <1>5, <2>2
  <2>3. CASE j # i
    <3>1. \E k \in 1..Len(out) : Last(out[k], j)
      BY <1>3, <2>1, <2>3 DEF IInv, CallbacksEnd, Last, ErrorEvent
    <3>2. QED
      BY <1>5, <3>1
  <2>4. QED
    BY <2>2, <2>3
<1>12. ShownOK'
  BY <1>1, <1>2, <1>4 DEF IInv, ShownOK
<1>13. MarksOfOneAnswer'
  BY <1>1, <1>4 DEF IInv, ShownOK, MarksOfOneAnswer
<1>14. QED
  BY <1>6, <1>7, <1>8, <1>9, <1>10, <1>11, <1>12, <1>13 DEF IInv

LEMMA TaskFacts ==
  ASSUME IInv, NEW i \in Requests, task[i].at # "none"
  PROVE  /\ task[i] \in Tasks /\ task[i].root \in Roots /\ Len(Scopes(i)) \in Nat /\ task[i].scope \in Nat \ {0}
         /\ task[i].scope <= Len(Scopes(i)) + 1
         /\ \A k \in 1..Len(Scopes(i)) : Scopes(i)[k] \in Repos
<1>1. task[i] \in Tasks /\ task[i].root \in Roots
  BY DEF IInv, TypeOK, TaskOK
<1>2. Scopes(i) \in Seq(Repos)
  BY <1>1, GitAssumption DEF Scopes
<1>3. \A k \in 1..Len(Scopes(i)) : Scopes(i)[k] \in Repos
  BY <1>1, ScopeTypes DEF Scopes
<1>4. Len(Scopes(i)) \in Nat
  BY <1>2, LenProperties
<1>5. task[i].scope \in Nat \ {0}
  BY <1>1 DEF Tasks
<1>6. task[i].scope <= Len(Scopes(i)) + 1
  BY DEF IInv, TaskOK
<1>7. QED
  BY <1>1, <1>3, <1>4, <1>5, <1>6

\* What task i says of the repository in hand, or of having none.
Said(i, done) == IF task[i].held = 0 THEN ErrorEvent(i) ELSE StatusEvent(i, task[i].held, task[i].status, done)

\* e is of the repository that task i has in hand.
SaysHeld(i, e) ==
  /\ e.type # "fs_event" /\ e.id = i /\ (task[i].held # 0 => e.type = "git_status")
  /\ e.type = "git_status" =>
       /\ e.status.of = i /\ e.repo = task[i].held
       /\ e.status.version = task[i].status.version /\ e.status.raced = task[i].status.raced

LEMMA SaidFacts ==
  ASSUME IInv, NEW i \in Requests
  PROVE  /\ \A done \in BOOLEAN : Said(i, done) \in Events /\ SaysHeld(i, Said(i, done))
         /\ Last(Said(i, TRUE), i)
<1> SUFFICES ASSUME NEW done \in BOOLEAN, NEW e, e = Said(i, done)
             PROVE  e \in Events /\ SaysHeld(i, e) /\ (done => Last(e, i))
  OBVIOUS
<1>1. task[i] \in Tasks
  BY DEF IInv, TypeOK
<1>2. CASE task[i].held = 0
  BY <1>2, ErrorEvents DEF Said, Last, SaysHeld
<1>3. CASE task[i].held # 0
  <2> DEFINE s == [task[i].status EXCEPT !.of = i]
  <2>1. task[i].held \in Repos /\ task[i].status \in Statuses
    BY <1>1, <1>3 DEF Tasks
  <2>2. /\ s \in Statuses /\ s.of = i
        /\ s.version = task[i].status.version /\ s.raced = task[i].status.raced
    BY <2>1 DEF Statuses
  <2>3. e = [type |-> "git_status", id |-> i, repo |-> task[i].held, status |-> s, done |-> done]
    BY <1>3 DEF Said, StatusEvent
  <2> HIDE DEF s
  <2>4. /\ e \in Events /\ e.type = "git_status" /\ e.id = i /\ e.repo = task[i].held /\ e.status = s /\ e.done = done
    BY <2>1, <2>2, <2>3 DEF Events
  <2>5. QED
    BY <2>2, <2>4 DEF Last, SaysHeld
<1>4. QED
  BY <1>2, <1>3

\* What task i is when the status new of the scope in turn is in hand.
LEMMA HoldFacts ==
  ASSUME IInv, NEW i \in Requests, task[i].at \in {"loop", "run"}, task[i].scope <= Len(Scopes(i)),
         NEW new \in Statuses, Hold(i, new)
  PROVE  /\ out' = IF task[i].held = 0 THEN out ELSE Append(out, Said(i, FALSE))
         /\ \E t \in Tasks :
              /\ task' = [task EXCEPT ![i] = t]
              /\ t.at = "loop" /\ t.root = task[i].root /\ t.scope = task[i].scope + 1
              /\ t.held = Scopes(i)[task[i].scope] /\ t.status = new
<1> DEFINE r == Scopes(i)[task[i].scope]
           t == [task[i] EXCEPT !.at = "loop", !.scope = @ + 1, !.held = r, !.status = new, !.run = NoStatus]
<1>1. task[i] \in Tasks /\ task[i].scope \in 1..Len(Scopes(i)) /\ r \in Repos /\ task \in [Requests -> Tasks]
  BY TaskFacts DEF IInv, TypeOK
<1>2. task' = [task EXCEPT ![i] = t]
  BY <1>1 DEF Hold
<1> HIDE DEF r
<1>3. t \in Tasks /\ t.at = "loop" /\ t.root = task[i].root /\ t.scope = task[i].scope + 1 /\ t.held = r /\ t.status = new
  <2>1. task[i].scope + 1 \in Nat \ {0} /\ NoStatus \in Statuses
    BY <1>1, RecordTypes
  <2>2. QED
    BY ONLY <1>1, <2>1, new \in Statuses DEF Tasks
<1>4. out' = IF task[i].held = 0 THEN out ELSE Append(out, Said(i, FALSE))
  BY DEF Hold, Said
<1> HIDE DEF t
<1>5. QED
  BY <1>2, <1>3, <1>4 DEF r

\* A scope of task i has its status, and the one in hand so far is sent.
LEMMA HoldStep ==
  ASSUME IInv, NEW i \in Requests, task[i].at \in {"loop", "run"}, task[i].scope <= Len(Scopes(i)),
         NEW new \in Statuses, Hold(i, new), cache' \in [Repos -> Entries], CleanIsCurrent', TaskUnchanged
  PROVE  IInv'
<1>1. PICK t \in Tasks : /\ task' = [task EXCEPT ![i] = t] /\ t.at = "loop" /\ t.root = task[i].root
                         /\ t.scope = task[i].scope + 1
  BY HoldFacts
<1>2. t.scope <= Len(Scopes(i)) + 1
  BY <1>1, TaskFacts
<1>3. PICK e \in Events : e = Said(i, FALSE) /\ SaysHeld(i, e)
  BY SaidFacts
<1>4. e.type # "fs_event" /\ e.id = i /\ (e.type = "git_status" => e.status.of = i)
  BY <1>3 DEF SaysHeld
<1>5. out' = out \/ out' = Append(out, e)
  BY <1>3, HoldFacts
<1>6. QED
  BY <1>1, <1>2, <1>4, <1>5, TaskGoesOn

\* Task i goes on without a word.
LEMMA Silently ==
  ASSUME IInv, NEW i \in Requests, NEW t \in Tasks, task' = [task EXCEPT ![i] = t],
         task[i].at # "none", t.at \in {"loop", "run"}, t.root = task[i].root, t.scope <= Len(Scopes(i)) + 1,
         t.at = "run" => /\ t.scope <= Len(Scopes(i))
                         /\ t.run.raced \/ t.run.version >= told[Scopes(i)[t.scope]],
         UNCHANGED <<cache, out>>, TaskUnchanged
  PROVE  IInv'
<1>1. cache' \in [Repos -> Entries] /\ CleanIsCurrent'
  BY DEF IInv, TypeOK, Entries, CleanIsCurrent, TaskUnchanged
<1>2. ErrorEvent(i) \in Events /\ ErrorEvent(i).type = "error" /\ ErrorEvent(i).id = i
  BY ErrorEvents
<1>3. out' = out /\ t.at # "over"
  OBVIOUS
<1>4. QED
  BY <1>1, <1>2, <1>3, TaskGoesOn

LEMMA DiscoverStep == \A i \in Requests : IInv /\ Discover(i) => IInv'
<1> SUFFICES ASSUME IInv, NEW i \in Requests, Discover(i) PROVE IInv'
  OBVIOUS
<1>1. task[i].at = "sent" /\ UNCHANGED cache /\ TaskUnchanged
  BY DEF Discover
<1>2. /\ task[i] \in Tasks /\ task[i].scope \in Nat \ {0} /\ task[i].scope <= Len(Scopes(i)) + 1
      /\ task \in [Requests -> Tasks]
  BY <1>1, TaskFacts DEF IInv, TypeOK
<1>3. ASSUME NEW a \in {"over", "loop"}
      PROVE  /\ [task[i] EXCEPT !.at = a] \in Tasks /\ [task[i] EXCEPT !.at = a].at = a
             /\ [task[i] EXCEPT !.at = a].root = task[i].root /\ [task[i] EXCEPT !.at = a].scope = task[i].scope
             /\ [task EXCEPT ![i].at = a] = [task EXCEPT ![i] = [task[i] EXCEPT !.at = a]]
  BY <1>2 DEF Tasks
<1>4. CASE Scopes(i) = <<>>
  <2>1. task' = [task EXCEPT ![i].at = "over"] /\ out' = Append(out, ErrorEvent(i))
    BY <1>4 DEF Discover
  <2>2. cache' \in [Repos -> Entries] /\ CleanIsCurrent'
    BY <1>1 DEF IInv, TypeOK, Entries, CleanIsCurrent, TaskUnchanged
  <2>3. ErrorEvent(i) \in Events /\ ErrorEvent(i).type = "error" /\ ErrorEvent(i).id = i /\ Last(ErrorEvent(i), i)
    BY ErrorEvents DEF Last
  <2>4. QED
    BY <1>1, <1>2, <1>3, <2>1, <2>2, <2>3, TaskGoesOn
<1>5. CASE Scopes(i) # <<>>
  <2>1. task' = [task EXCEPT ![i].at = "loop"] /\ UNCHANGED out
    BY <1>5 DEF Discover
  <2>2. QED
    BY <1>1, <1>2, <1>3, <2>1, Silently
<1>6. QED
  BY <1>4, <1>5

LEMMA FromCacheStep == \A i \in Requests : IInv /\ FromCache(i) => IInv'
<1> SUFFICES ASSUME IInv, NEW i \in Requests, FromCache(i) PROVE IInv'
  OBVIOUS
<1> DEFINE r == Scopes(i)[task[i].scope]
<1>1. task[i].at = "loop" /\ task[i].scope <= Len(Scopes(i)) /\ Hold(i, cache[r].status) /\ UNCHANGED cache /\ TaskUnchanged
  BY DEF FromCache, InLoop
<1>2. r \in Repos
  BY <1>1, TaskFacts
<1>3. cache[r].status \in Statuses
  BY <1>2 DEF IInv, TypeOK
<1>4. cache' \in [Repos -> Entries] /\ CleanIsCurrent'
  BY <1>1 DEF IInv, TypeOK, Entries, CleanIsCurrent, TaskUnchanged
<1>5. QED
  BY <1>1, <1>3, <1>4, HoldStep

LEMMA RunGitStep == \A i \in Requests : IInv /\ RunGit(i) => IInv'
<1> SUFFICES ASSUME IInv, NEW i \in Requests, RunGit(i) PROVE IInv'
  OBVIOUS
<1> DEFINE r == Scopes(i)[task[i].scope]
           run == [NoStatus EXCEPT !.version = disk[r]]
           t == [task[i] EXCEPT !.at = "run", !.run = run]
<1>1. /\ task[i].at = "loop" /\ task[i].scope <= Len(Scopes(i)) /\ UNCHANGED <<cache, out>> /\ TaskUnchanged
      /\ task' = [task EXCEPT ![i].at = "run", ![i].run = run]
  BY DEF RunGit, InLoop
<1>2. r \in Repos /\ task[i] \in Tasks /\ task \in [Requests -> Tasks]
  <2>1. task[i] \in Tasks /\ task \in [Requests -> Tasks]
    BY DEF IInv, TypeOK
  <2>2. r \in Repos
    BY <1>1, TaskFacts
  <2>3. QED
    BY <2>1, <2>2
<1>3. run \in Statuses /\ run.version = disk[r]
  <2>1. disk[r] \in Nat
    BY <1>2 DEF IInv, TypeOK
  <2>2. QED
    BY <2>1 DEF NoStatus, Statuses
<1>4. disk[r] >= told[r]
  <2>1. told[r] <= disk[r] /\ told[r] \in Nat /\ disk[r] \in Nat
    BY <1>2 DEF IInv, TypeOK, ToldOK
  <2>2. QED
    BY ONLY <2>1
<1> HIDE DEF run
<1>5. task' = [task EXCEPT ![i] = t]
  BY <1>1, <1>2
<1>6. t \in Tasks /\ t.at = "run" /\ t.root = task[i].root /\ t.scope = task[i].scope /\ t.run = run
  BY <1>2, <1>3 DEF Tasks
<1> HIDE DEF t
<1>7. t.scope <= Len(Scopes(i)) + 1
  BY <1>1, <1>6, TaskFacts
<1>8. t.run.version >= told[Scopes(i)[t.scope]]
  BY <1>3, <1>4, <1>6
<1>9. QED
  BY <1>1, <1>5, <1>6, <1>7, <1>8, Silently

LEMMA GitEndsStep == \A i \in Requests : IInv /\ GitEnds(i) => IInv'
<1> SUFFICES ASSUME IInv, NEW i \in Requests, GitEnds(i) PROVE IInv'
  OBVIOUS
<1> DEFINE r == Scopes(i)[task[i].scope]
           entry == [status |-> task[i].run, dirty |-> FALSE, aged |-> FALSE]
<1>1. /\ task[i].at = "run" /\ cache' = [cache EXCEPT ![r] = entry]
      /\ Hold(i, task[i].run) /\ TaskUnchanged
  BY DEF GitEnds, Store
<1>2. task[i].scope <= Len(Scopes(i)) /\ (task[i].run.raced \/ task[i].run.version >= told[r])
  BY <1>1 DEF IInv, TaskOK
<1>3. r \in Repos /\ task[i] \in Tasks
  BY <1>1, <1>2, TaskFacts
<1>4. task[i].run \in Statuses
  BY <1>3 DEF Tasks
<1>5. entry \in Entries /\ entry.status = task[i].run
  BY <1>4 DEF Entries
<1>6. cache' \in [Repos -> Entries] /\ cache'[r] = entry /\ \A q \in Repos \ {r} : cache'[q] = cache[q]
  BY <1>1, <1>3, <1>5 DEF IInv, TypeOK, Entries
<1>7. CleanIsCurrent'
  <2>1. told' = told
    BY <1>1 DEF TaskUnchanged
  <2>2. ASSUME NEW q \in Repos, cache'[q] # NoEntry, ~cache'[q].dirty
        PROVE  cache'[q].status.version >= told[q] \/ cache'[q].status.raced
    <3>1. CASE q = r
      BY <1>2, <1>5, <1>6, <3>1
    <3>2. CASE q # r
      BY <1>6, <2>2, <3>2 DEF IInv, CleanIsCurrent
    <3>3. QED
      BY <3>1, <3>2
  <2>3. QED
    BY <2>1, <2>2 DEF CleanIsCurrent
<1>8. QED
  BY <1>1, <1>2, <1>4, <1>6, <1>7, HoldStep

LEMMA GitFailsStep == \A i \in Requests : IInv /\ GitFails(i) => IInv'
<1> SUFFICES ASSUME IInv, NEW i \in Requests, GitFails(i) PROVE IInv'
  OBVIOUS
<1> DEFINE t == [task[i] EXCEPT !.at = "loop", !.scope = @ + 1, !.run = NoStatus]
<1>1. /\ task[i].at = "run" /\ UNCHANGED <<cache, out>> /\ TaskUnchanged
      /\ task' = [task EXCEPT ![i].at = "loop", ![i].scope = @ + 1, ![i].run = NoStatus]
  BY DEF GitFails
<1>2. task[i].scope <= Len(Scopes(i)) /\ task[i].scope \in Nat \ {0} /\ Len(Scopes(i)) \in Nat
  BY <1>1, TaskFacts DEF IInv, TaskOK
<1>3. task[i] \in Tasks /\ task \in [Requests -> Tasks]
  BY DEF IInv, TypeOK
<1>4. task' = [task EXCEPT ![i] = t]
  BY <1>1, <1>3
<1>5. t \in Tasks /\ t.at = "loop" /\ t.root = task[i].root /\ t.scope = task[i].scope + 1
  <2>1. task[i].scope + 1 \in Nat \ {0} /\ NoStatus \in Statuses /\ task[i] \in Tasks
    BY <1>2, <1>3, RecordTypes
  <2>2. QED
    BY ONLY <2>1 DEF Tasks
<1> HIDE DEF t
<1>6. t.scope <= Len(Scopes(i)) + 1
  BY <1>2, <1>5
<1>7. QED
  BY <1>1, <1>4, <1>5, <1>6, Silently

\* After the last scope task i says its last.
LEMMA FinishFacts ==
  ASSUME IInv, NEW i \in Requests, Finish(i)
  PROVE  /\ out' = Append(out, Said(i, TRUE))
         /\ \E t \in Tasks : /\ task' = [task EXCEPT ![i] = t] /\ t.at = "over" /\ t.root = task[i].root
                             /\ t.scope = task[i].scope /\ t.held = task[i].held /\ t.status = task[i].status
<1> DEFINE t == [task[i] EXCEPT !.at = "over"]
<1>1. task[i] \in Tasks /\ task \in [Requests -> Tasks]
  BY DEF IInv, TypeOK
<1>2. task' = [task EXCEPT ![i] = t]
  BY <1>1 DEF Finish
<1>3. t \in Tasks /\ t.at = "over" /\ t.root = task[i].root /\ t.scope = task[i].scope
      /\ t.held = task[i].held /\ t.status = task[i].status
  BY <1>1 DEF Tasks
<1>4. out' = Append(out, Said(i, TRUE))
  BY DEF Finish, Said
<1> HIDE DEF t
<1>5. QED
  BY <1>2, <1>3, <1>4

LEMMA FinishStep == \A i \in Requests : IInv /\ Finish(i) => IInv'
<1> SUFFICES ASSUME IInv, NEW i \in Requests, Finish(i) PROVE IInv'
  OBVIOUS
<1>1. task[i].at = "loop" /\ UNCHANGED cache /\ TaskUnchanged
  BY DEF Finish
<1>2. PICK t \in Tasks : /\ task' = [task EXCEPT ![i] = t] /\ t.at = "over" /\ t.root = task[i].root
                         /\ t.scope = task[i].scope
  BY FinishFacts
<1>3. t.scope <= Len(Scopes(i)) + 1
  BY <1>1, <1>2, TaskFacts
<1>4. PICK e \in Events : e = Said(i, TRUE) /\ SaysHeld(i, e) /\ Last(e, i)
  BY SaidFacts
<1>5. e.type # "fs_event" /\ e.id = i /\ (e.type = "git_status" => e.status.of = i)
  BY <1>4 DEF SaysHeld
<1>6. out' = Append(out, e)
  BY <1>4, FinishFacts
<1>7. cache' \in [Repos -> Entries] /\ CleanIsCurrent'
  BY <1>1 DEF IInv, TypeOK, Entries, CleanIsCurrent, TaskUnchanged
<1>8. QED
  BY <1>1, <1>2, <1>3, <1>4, <1>5, <1>6, <1>7, TaskGoesOn

LEMMA TaskStep == \A i \in Requests : IInv /\ Task(i) => IInv'
BY DiscoverStep, FromCacheStep, RunGitStep, GitEndsStep, GitFailsStep, FinishStep DEF Task

----------------------------------------------------------------------------
(* The disk, the watches and the debounce task.                            *)

\* No task, no event and no mark changes.
LEMMA SameTasks ==
  ASSUME IInv, UNCHANGED <<told, task, out, requestId, awaitingFirst, bcbs, shown, root>>,
         TypeOK', ToldOK', CleanIsCurrent'
  PROVE  IInv'
<1>1. Numbered' /\ OutOK' /\ ShownOK' /\ MarksOfOneAnswer' /\ CallbacksEnd'
  BY DEF IInv, Numbered, OutOK, ShownOK, MarksOfOneAnswer, CallbacksEnd
<1>2. \A i \in Requests : TaskOK(i)'
  BY DEF IInv, TaskOK, Scopes
<1>3. QED
  BY <1>1, <1>2 DEF IInv

LEMMA ChangeStep == \A r \in Repos : IInv /\ Change(r) => IInv'
<1> SUFFICES ASSUME IInv, NEW r \in Repos, Change(r) PROVE IInv'
  OBVIOUS
<1>1. /\ changes < MaxChanges /\ changes' = changes + 1 /\ disk' = [disk EXCEPT ![r] = @ + 1]
      /\ burst' \in {burst, burst \cup {r}}
      /\ UNCHANGED <<alive, cache, told, task, out, open, root, gitOn, calls, requestId, awaitingFirst, bcbs, dirs, gitTimer, shown>>
  BY DEF Change, sessionVars, requestVars
<1>2. disk \in [Repos -> Nat \ {0}] /\ told \in [Repos -> Nat] /\ changes \in 0..MaxChanges
  BY DEF IInv, TypeOK
<1>3. disk' \in [Repos -> Nat \ {0}] /\ \A q \in Repos : disk[q] <= disk'[q]
  BY <1>1, <1>2
<1>4. changes' \in 0..MaxChanges
  BY <1>1, <1>2, GitAssumption
<1>5. TypeOK'
  BY <1>1, <1>3, <1>4 DEF IInv, TypeOK, Scopes
<1>6. ToldOK'
  <2> SUFFICES ASSUME NEW q \in Repos PROVE told[q] <= disk'[q]
    BY <1>1 DEF ToldOK
  <2>1. told[q] <= disk[q] /\ disk[q] <= disk'[q] /\ told[q] \in Nat /\ disk[q] \in Nat /\ disk'[q] \in Nat
    BY <1>2, <1>3 DEF IInv, ToldOK
  <2>2. QED
    BY ONLY <2>1
<1>7. CleanIsCurrent'
  BY <1>1 DEF IInv, CleanIsCurrent
<1>8. QED
  BY <1>1, <1>5, <1>6, <1>7, SameTasks

LEMMA AgeStep == \A r \in Repos : IInv /\ Age(r) => IInv'
<1> SUFFICES ASSUME IInv, NEW r \in Repos, Age(r) PROVE IInv'
  OBVIOUS
<1>1. /\ cache[r] # NoEntry /\ cache' = [cache EXCEPT ![r].aged = TRUE]
      /\ UNCHANGED <<disk, changes, alive, burst, told, task, out, open, root, gitOn, calls, requestId, awaitingFirst, bcbs, dirs, gitTimer, shown>>
  BY DEF Age, Fresh, TaskUnchanged, diskVars, sessionVars, requestVars
<1>2. cache \in [Repos -> Entries]
  BY DEF IInv, TypeOK, Entries
<1>3. /\ cache' \in [Repos -> Entries] /\ \A q \in Repos \ {r} : cache'[q] = cache[q]
      /\ cache'[r].status = cache[r].status /\ cache'[r].dirty = cache[r].dirty
  BY <1>1, <1>2 DEF Entries
<1>4. TypeOK'
  BY <1>1, <1>3 DEF IInv, TypeOK, Scopes, Entries
<1>5. CleanIsCurrent'
  <2> SUFFICES ASSUME NEW q \in Repos, cache'[q] # NoEntry, ~cache'[q].dirty
               PROVE  cache'[q].status.version >= told[q] \/ cache'[q].status.raced
    BY <1>1 DEF CleanIsCurrent
  <2>1. CASE q = r
    BY <1>1, <1>3, <2>1 DEF IInv, CleanIsCurrent
  <2>2. CASE q # r
    BY <1>3, <2>2 DEF IInv, CleanIsCurrent
  <2>3. QED
    BY <2>1, <2>2
<1>6. ToldOK'
  BY <1>1 DEF IInv, ToldOK
<1>7. QED
  BY <1>1, <1>4, <1>5, <1>6, SameTasks

LEMMA DebounceStep == IInv /\ Debounce => IInv'
<1> SUFFICES ASSUME IInv, Debounce PROVE IInv'
  OBVIOUS
<1> DEFINE e == [type |-> "fs_event", dirs |-> burst]
           d(i) == [task[i] EXCEPT !.run.raced = @ \/ task[i].at = "run"]
<1>1. /\ burst' = {} /\ cache' = MarkAllDirty(cache) /\ out' = Append(out, e)
      /\ told' = [r \in Repos |-> IF r \in burst THEN disk[r] ELSE told[r]]
      /\ task' = [i \in Requests |-> d(i)]
      /\ UNCHANGED <<disk, changes, alive, open, root, gitOn, calls, requestId, awaitingFirst, bcbs, dirs, gitTimer, shown>>
  BY DEF Debounce, diskVars, sessionVars, requestVars
<1>2. /\ task \in [Requests -> Tasks] /\ out \in Seq(Events) /\ Len(out) \in Nat /\ burst \subseteq Repos
      /\ cache \in [Repos -> Entries] /\ disk \in [Repos -> Nat \ {0}] /\ told \in [Repos -> Nat]
      /\ requestId \in Requests \cup {0}
  BY LenProperties DEF IInv, TypeOK, Entries
<1>3. ASSUME NEW i \in Requests
      PROVE  /\ d(i) \in Tasks /\ d(i).at = task[i].at /\ d(i).root = task[i].root /\ d(i).scope = task[i].scope
             /\ task[i].at = "run" => d(i).run.raced
             /\ task[i].at = "none" => d(i) = NoTask
  <2>1. task[i] \in Tasks /\ task[i].run \in Statuses
    BY <1>2 DEF Tasks
  <2>2. (task[i].run.raced \/ task[i].at = "run") \in BOOLEAN
    OBVIOUS
  <2>3. d(i) \in Tasks /\ d(i).at = task[i].at /\ d(i).root = task[i].root /\ d(i).scope = task[i].scope
    BY <2>1, <2>2 DEF Tasks, Statuses
  <2>4. task[i].at = "run" => d(i).run.raced
    BY <2>1 DEF Tasks, Statuses
  <2>5. task[i].at = "none" => d(i) = NoTask
    <3> SUFFICES ASSUME task[i].at = "none" PROVE d(i) = NoTask
      OBVIOUS
    <3>1. task[i] = NoTask
      BY DEF IInv, TaskOK
    <3>2. NoTask.run = NoStatus /\ NoStatus.raced = FALSE
      BY DEF NoTask, NoStatus
    <3>3. d(i) = [NoTask EXCEPT !.run.raced = FALSE]
      BY <3>1, <3>2
    <3>4. [NoTask EXCEPT !.run.raced = FALSE] = [NoTask EXCEPT !.run = [NoStatus EXCEPT !.raced = FALSE]]
      BY <3>2
    <3>5. [NoStatus EXCEPT !.raced = FALSE] = NoStatus
      <4>1. \A a, b, c : [[version |-> a, raced |-> b, of |-> c] EXCEPT !.raced = b] = [version |-> a, raced |-> b, of |-> c]
        OBVIOUS
      <4>2. QED
        BY <4>1, Zenon DEF NoStatus
    <3>6. [NoTask EXCEPT !.run = NoStatus] = NoTask
      BY DEF NoTask
    <3>7. QED
      BY <3>3, <3>4, <3>5, <3>6
  <2>6. QED
    BY <2>3, <2>4, <2>5
<1> HIDE DEF d
<1>4. /\ task' \in [Requests -> Tasks]
      /\ \A i \in Requests : /\ task'[i].at = task[i].at /\ task'[i].root = task[i].root /\ task'[i].scope = task[i].scope
                             /\ task[i].at = "run" => task'[i].run.raced
                             /\ task[i].at = "none" => task'[i] = NoTask
  BY <1>1, <1>3
<1>5. /\ cache' \in [Repos -> Entries] /\ \A r \in Repos : cache'[r] = NoEntry \/ cache'[r].dirty
  <2>1. \A r \in Repos : cache'[r] = IF cache[r] = NoEntry THEN NoEntry ELSE [cache[r] EXCEPT !.dirty = TRUE]
    BY <1>1 DEF MarkAllDirty
  <2>2. \A r \in Repos : [cache[r] EXCEPT !.dirty = TRUE] \in Entries /\ [cache[r] EXCEPT !.dirty = TRUE].dirty
    BY <1>2 DEF Entries
  <2>3. cache' = [r \in Repos |-> cache'[r]]
    BY <1>1 DEF MarkAllDirty
  <2>4. \A r \in Repos : cache'[r] \in Entries
    BY <2>1, <2>2, RecordTypes
  <2>5. cache' \in [Repos -> Entries]
    BY <2>3, <2>4
  <2>6. QED
    BY <2>1, <2>2, <2>5
<1>6. told' \in [Repos -> Nat] /\ ToldOK'
  <2>1. \A r \in Repos : disk[r] \in Nat /\ told[r] \in Nat /\ told[r] <= disk[r]
    BY <1>2 DEF IInv, ToldOK
  <2>2. told' \in [Repos -> Nat]
    BY <1>1, <2>1
  <2>3. \A r \in Repos : told'[r] \in {disk[r], told[r]}
    BY <1>1
  <2>4. QED
    BY <1>1, <2>1, <2>2, <2>3 DEF ToldOK
<1>7. /\ out' \in Seq(Events) /\ Len(out') \in Nat /\ e.type = "fs_event"
      /\ \A k \in 1..Len(out) : k \in 1..Len(out') /\ out'[k] = out[k]
      /\ \A k \in 1..Len(out') : k \in 1..Len(out) \/ out'[k] = e
  <2>1. e \in Events
    BY <1>2 DEF Events
  <2>2. QED
    BY <1>1, <1>2, <2>1, OneMore
<1>8. TypeOK'
  <2>1. ASSUME NEW j \in Requests, task'[j].root # 0 PROVE task'[j].scope <= Len(Scopes(j)') + 1
    <3>1. task[j].scope <= Len(Scopes(j)) + 1
      <4>1. task[j].root # 0
        BY <1>4, <2>1
      <4>2. \A i \in Requests : task[i].root # 0 => task[i].scope <= Len(Scopes(i)) + 1
        BY DEF IInv, TypeOK
      <4>3. QED
        BY <4>1, <4>2
    <3>2. Scopes(j)' = Scopes(j) /\ task'[j].scope = task[j].scope
      BY <1>4 DEF Scopes
    <3>3. QED
      BY <3>1, <3>2
  <2>2. QED
    BY <1>1, <1>4, <1>5, <1>6, <1>7, <2>1 DEF IInv, TypeOK, Entries
<1>9. Numbered'
  BY <1>4 DEF IInv, Numbered
<1>10. ASSUME NEW i \in Requests PROVE TaskOK(i)'
  <2>1. TaskOK(i) /\ Scopes(i)' = Scopes(i)
    BY <1>4 DEF IInv, Scopes
  <2>2. QED
    BY <1>1, <1>4, <2>1 DEF TaskOK
<1>11. CleanIsCurrent'
  BY <1>5 DEF CleanIsCurrent
<1>12. OutOK'
  <2> SUFFICES ASSUME NEW k \in 1..Len(out'), out'[k].type = "git_status"
               PROVE  out'[k].status.of = out'[k].id /\ task'[out'[k].id].at # "none"
    BY DEF OutOK
  <2>1. k \in 1..Len(out) /\ out'[k] = out[k]
    BY <1>7
  <2>2. out[k] \in Events /\ out[k].status.of = out[k].id /\ task[out[k].id].at # "none"
    BY <1>2, <2>1, ElementOfSeq DEF IInv, OutOK
  <2>3. out[k].id \in Requests
    BY <2>1, <2>2, EventTypes
  <2>4. QED
    BY <1>4, <2>1, <2>2, <2>3
<1>13. CallbacksEnd'
  <2> SUFFICES ASSUME NEW j \in bcbs, task'[j].at = "over"
               PROVE  \E k \in 1..Len(out') : Last(out'[k], j)
    BY <1>1 DEF CallbacksEnd, Last, ErrorEvent
  <2>1. j \in Requests
    BY DEF IInv, TypeOK
  <2>2. \E k \in 1..Len(out) : Last(out[k], j)
    BY <1>4, <2>1 DEF IInv, CallbacksEnd, Last, ErrorEvent
  <2>3. QED
    BY <1>7, <2>2
<1>14. ShownOK' /\ MarksOfOneAnswer'
  BY <1>1, <1>2, <1>4 DEF IInv, ShownOK, MarksOfOneAnswer
<1>15. QED
  BY <1>6, <1>8, <1>9, <1>10, <1>11, <1>12, <1>13, <1>14 DEF IInv

----------------------------------------------------------------------------
(* The frontend.                                                           *)

\* Vim reads the next event: what is behind it is still on its way, and who has no
\* callback any more waits for nothing.
LEMMA ReadFacts ==
  ASSUME IInv, out # <<>>, out' = Tail(out), task' = task, bcbs' \subseteq bcbs,
         \A i \in bcbs' : ~Last(Head(out), i)
  PROVE  /\ out' \in Seq(Events) /\ OutOK' /\ CallbacksEnd' /\ Head(out) \in Events
         /\ Head(out).type = "git_status" =>
              Head(out).status.of = Head(out).id /\ task[Head(out).id].at # "none"
<1>1. out \in Seq(Events)
  BY DEF IInv, TypeOK
<1>2. /\ out' \in Seq(Events) /\ Len(out') = Len(out) - 1 /\ Head(out) = out[1] /\ Head(out) \in Events
      /\ \A k \in 1..Len(out') : out'[k] = out[k + 1]
  BY <1>1, HeadTailProperties
<1>3. Len(out) \in Nat \ {0}
  BY <1>1, LenProperties, EmptySeq
<1>4. /\ 1 \in 1..Len(out) /\ \A k \in 1..Len(out') : k + 1 \in 1..Len(out)
      /\ \A k \in 1..Len(out) : k = 1 \/ (k - 1 \in 1..Len(out') /\ (k - 1) + 1 = k)
  BY <1>2, <1>3
<1>5. OutOK'
  BY <1>2, <1>4 DEF IInv, OutOK
<1>6. CallbacksEnd'
  <2> SUFFICES ASSUME NEW j \in bcbs', task[j].at = "over"
               PROVE  \E k \in 1..Len(out') : Last(out'[k], j)
    BY DEF CallbacksEnd, Last, ErrorEvent
  <2>1. PICK k \in 1..Len(out) : Last(out[k], j)
    BY DEF IInv, CallbacksEnd, Last, ErrorEvent
  <2>2. k # 1
    BY <1>2, <2>1
  <2>3. k - 1 \in 1..Len(out') /\ (k - 1) + 1 = k
    BY <1>4, <2>2
  <2>4. out'[k - 1] = out[k]
    BY <1>2, <2>3
  <2>5. QED
    BY <2>1, <2>3, <2>4
<1>7. Head(out).type = "git_status" => Head(out).status.of = Head(out).id /\ task[Head(out).id].at # "none"
  BY <1>2, <1>4 DEF IInv, OutOK
<1>8. QED
  BY <1>2, <1>5, <1>6, <1>7

\* No task changes; what is shown, and what is read, may.
LEMMA SameWork ==
  ASSUME IInv, UNCHANGED <<disk, told, task, cache>>, bcbs' \subseteq bcbs, TypeOK', OutOK', CallbacksEnd', ShownOK', MarksOfOneAnswer'
  PROVE  IInv'
<1>1. Numbered' /\ ToldOK' /\ CleanIsCurrent'
  BY DEF IInv, Numbered, ToldOK, CleanIsCurrent
<1>2. \A i \in Requests : TaskOK(i)'
  BY DEF IInv, TaskOK, Scopes
<1>3. QED
  BY <1>1, <1>2 DEF IInv

\* What an event may be the last of.
LEMMA LastOf ==
  ASSUME NEW e \in Events, NEW i \in Requests, Last(e, i)
  PROVE  (e.type = "git_status" /\ e.id = i /\ e.done) \/ (e.type = "error" /\ e.id = i)
BY ErrorEvents DEF Last

LEMMA DispatchStep == IInv /\ Dispatch => IInv'
<1> SUFFICES ASSUME IInv, Dispatch PROVE IInv'
  OBVIOUS
<1> DEFINE ev == Head(out)
<1>1. /\ out # <<>> /\ out' = Tail(out) /\ (OnFsEvent(ev) \/ OnGitStatus(ev) \/ OnGitError(ev))
      /\ UNCHANGED <<disk, changes, alive, cache, burst, told, task, open, root, gitOn, calls, gitTimer>>
  BY DEF Dispatch, DispatchUnchanged, diskVars, daemonVars, sessionVars
<1>2. /\ requestId \in Requests \cup {0} /\ bcbs \subseteq Requests /\ dirs \subseteq Repos
      /\ shown \in [Repos -> Statuses] /\ awaitingFirst \in BOOLEAN /\ ev \in Events
  BY <1>1, HeadTailProperties DEF IInv, TypeOK
<1> HIDE DEF ev
<1>3. CASE OnFsEvent(ev)
  <2>1. ev.type = "fs_event" /\ dirs' \in {dirs, dirs \cup ev.dirs} /\ UNCHANGED <<requestId, awaitingFirst, bcbs, shown>>
    BY <1>3 DEF OnFsEvent, requestVars
  <2>2. \A i \in bcbs' : ~Last(ev, i)
    BY <1>2, <2>1, LastOf
  <2>3. out' \in Seq(Events) /\ OutOK' /\ CallbacksEnd'
    BY <1>1, <2>1, <2>2, ReadFacts DEF ev
  <2>4. dirs' \subseteq Repos
    BY <1>2, <2>1, EventTypes
  <2>5. TypeOK'
    BY <1>1, <2>1, <2>3, <2>4 DEF IInv, TypeOK, Scopes
  <2>6. ShownOK' /\ MarksOfOneAnswer'
    BY <1>1, <2>1 DEF IInv, ShownOK, MarksOfOneAnswer
  <2>7. QED
    BY <1>1, <2>1, <2>3, <2>5, <2>6, SameWork
<1>4. CASE OnGitStatus(ev)
  <2>1. /\ ev.type = "git_status" /\ UNCHANGED <<requestId, dirs>>
        /\ bcbs' = IF ev.id # requestId \/ ev.done THEN bcbs \ {ev.id} ELSE bcbs
    BY <1>4 DEF OnGitStatus
  <2>2. /\ ev.id \in Requests /\ ev.repo \in Repos /\ ev.status \in Statuses /\ ev.done \in BOOLEAN
    BY <1>2, <2>1, EventTypes
  <2>3. bcbs' \subseteq bcbs /\ \A i \in bcbs' : ~Last(ev, i)
    <3>1. bcbs' \subseteq bcbs /\ (ev.done => ev.id \notin bcbs')
      BY <2>1
    <3>2. ASSUME NEW i \in bcbs', Last(ev, i) PROVE FALSE
      <4>1. i \in Requests
        BY <1>2, <3>1
      <4>2. ev.id = i /\ ev.done
        BY <1>2, <2>1, <3>2, <4>1, LastOf
      <4>3. QED
        BY <3>1, <4>2
    <3>3. QED
      BY <3>1, <3>2
  <2>4. out' \in Seq(Events) /\ OutOK' /\ CallbacksEnd' /\ ev.status.of = ev.id /\ task[ev.id].at # "none"
    BY <1>1, <2>1, <2>3, ReadFacts DEF ev
  <2>5. CASE ev.id # requestId \/ ~open
    <3>1. UNCHANGED <<awaitingFirst, shown>>
      BY <1>4, <2>5 DEF OnGitStatus
    <3>2. TypeOK'
      BY <1>1, <1>2, <2>1, <2>3, <2>4, <3>1 DEF IInv, TypeOK, Scopes
    <3>3. ShownOK' /\ MarksOfOneAnswer'
      BY <1>1, <2>1, <3>1 DEF IInv, ShownOK, MarksOfOneAnswer
    <3>4. QED
      BY <1>1, <2>3, <2>4, <3>2, <3>3, SameWork
  <2>6. CASE ev.id = requestId /\ open
    <3>1. /\ awaitingFirst' = FALSE
          /\ shown' = [r \in Repos |-> IF r = ev.repo THEN ev.status ELSE IF awaitingFirst THEN NoStatus ELSE shown[r]]
      BY <1>4, <2>6 DEF OnGitStatus
    <3>2. shown' \in [Repos -> Statuses]
      BY <1>2, <2>2, <3>1, RecordTypes
    <3>3. TypeOK'
      BY <1>1, <1>2, <2>1, <2>3, <2>4, <3>1, <3>2 DEF IInv, TypeOK, Scopes
    <3>4. \A r \in Repos : shown'[r] # NoStatus => shown'[r].of = requestId
      <4>1. \A r \in Repos : ~awaitingFirst /\ shown[r] # NoStatus => shown[r].of = requestId
        BY DEF IInv, ShownOK
      <4>2. \A r \in Repos : shown'[r] = ev.status \/ shown'[r] = NoStatus \/ (~awaitingFirst /\ shown'[r] = shown[r])
        BY <3>1
      <4>3. QED
        BY <2>4, <2>6, <4>1, <4>2
    <3>5. requestId \in Requests /\ task[requestId].at # "none" /\ (requestId # 0 => task[requestId].root = root)
      BY <2>2, <2>4, <2>6 DEF IInv, ShownOK
    <3>6. requestId # 0
      BY <3>5 DEF Requests
    <3>7. ShownOK' /\ MarksOfOneAnswer'
      BY <1>1, <2>1, <3>1, <3>4, <3>5, <3>6 DEF ShownOK, MarksOfOneAnswer
    <3>8. QED
      BY <1>1, <2>3, <2>4, <3>3, <3>7, SameWork
  <2>7. QED
    BY <2>5, <2>6
<1>5. CASE OnGitError(ev)
  <2>1. /\ ev.type = "error" /\ UNCHANGED <<requestId, dirs>> /\ bcbs' = bcbs \ {ev.id}
        /\ \/ UNCHANGED <<awaitingFirst, shown>>
           \/ awaitingFirst' = FALSE /\ shown' = [r \in Repos |-> NoStatus]
    BY <1>5 DEF OnGitError
  <2>2. bcbs' \subseteq bcbs /\ \A i \in bcbs' : ~Last(ev, i)
    <3>1. ASSUME NEW i \in bcbs', Last(ev, i) PROVE FALSE
      BY <1>2, <2>1, <3>1, LastOf
    <3>2. QED
      BY <2>1, <3>1
  <2>3. out' \in Seq(Events) /\ OutOK' /\ CallbacksEnd'
    BY <1>1, <2>2, ReadFacts DEF ev
  <2>4. shown' \in [Repos -> Statuses] /\ awaitingFirst' \in BOOLEAN
    BY <1>2, <2>1, RecordTypes
  <2>5. TypeOK'
    BY <1>1, <1>2, <2>1, <2>2, <2>3, <2>4 DEF IInv, TypeOK, Scopes
  <2>6. ShownOK' /\ MarksOfOneAnswer'
    BY <1>1, <2>1 DEF IInv, ShownOK, MarksOfOneAnswer
  <2>7. QED
    BY <1>1, <2>2, <2>3, <2>5, <2>6, SameWork
<1>6. QED
  BY <1>1, <1>3, <1>4, <1>5

\* Commands and timers that touch neither tasks nor events.
LEMMA SameRequest ==
  ASSUME IInv, UNCHANGED <<disk, changes, cache, burst, told, task, out, requestId, awaitingFirst, shown, root>>,
         bcbs' \subseteq bcbs, alive' \in BOOLEAN, open' \in BOOLEAN, gitOn' \in BOOLEAN, gitTimer' \in BOOLEAN,
         dirs' \subseteq Repos, calls' \in 0..MaxCalls
  PROVE  IInv'
<1>1. TypeOK'
  BY DEF IInv, TypeOK, Scopes
<1>2. OutOK' /\ CallbacksEnd' /\ ShownOK' /\ MarksOfOneAnswer'
  BY DEF IInv, OutOK, CallbacksEnd, ShownOK, MarksOfOneAnswer
<1>3. QED
  BY <1>1, <1>2, SameWork

\* No mark is left, and no request is the last.
LEMMA Disowned ==
  ASSUME IInv, UNCHANGED <<disk, changes, cache, burst, told, task, out, bcbs, alive, dirs>>,
         DiscardRootScopedState, root' \in Roots, open' \in BOOLEAN, gitOn' \in BOOLEAN, gitTimer' \in BOOLEAN,
         calls' \in 0..MaxCalls
  PROVE  IInv'
<1>1. shown' = [r \in Repos |-> NoStatus] /\ requestId' = 0 /\ awaitingFirst' = FALSE
  BY DEF DiscardRootScopedState
<1>2. shown' \in [Repos -> Statuses]
  BY <1>1, RecordTypes
<1>3. TypeOK'
  BY <1>1, <1>2 DEF IInv, TypeOK, Scopes
<1>4. OutOK' /\ CallbacksEnd' /\ ShownOK' /\ MarksOfOneAnswer'
  BY <1>1 DEF IInv, OutOK, CallbacksEnd, ShownOK, MarksOfOneAnswer
<1>5. QED
  BY <1>3, <1>4, SameWork

LEMMA RefreshFacts == GitStatusRefresh => gitTimer' \in BOOLEAN
BY Zenon DEF GitStatusRefresh

LEMMA CallFacts == IInv /\ Call => calls' \in 0..MaxCalls
<1> SUFFICES ASSUME IInv, Call PROVE calls' \in 0..MaxCalls
  OBVIOUS
<1>1. calls \in 0..MaxCalls /\ calls < MaxCalls /\ calls' = calls + 1 /\ MaxCalls \in Nat
  BY GitAssumption DEF IInv, TypeOK, Call
<1>2. QED
  BY ONLY <1>1

LEMMA TypesKept ==
  IInv => /\ alive \in BOOLEAN /\ open \in BOOLEAN /\ gitOn \in BOOLEAN /\ gitTimer \in BOOLEAN
          /\ dirs \subseteq Repos /\ calls \in 0..MaxCalls /\ root \in Roots
BY DEF IInv, TypeOK

LEMMA FsTimerStep == IInv /\ FsTimer => IInv'
<1> SUFFICES ASSUME IInv, FsTimer PROVE IInv'
  OBVIOUS
<1>1. /\ dirs' = {}
      /\ UNCHANGED <<disk, changes, alive, cache, burst, told, task, out, open, root, gitOn, calls, requestId, awaitingFirst, bcbs, shown>>
      /\ GitStatusRefresh \/ gitTimer' = gitTimer
  BY DEF FsTimer, diskVars, daemonVars, sessionVars, requestVars
<1>2. gitTimer' \in BOOLEAN
  BY <1>1, RefreshFacts, TypesKept
<1>3. QED
  BY <1>1, <1>2, TypesKept, SameRequest

\* The requests made so far are those up to Sent.
LEMMA SentFacts == IInv => Sent \in 0..MaxRequests /\ \A i \in Requests : task[i].at # "none" <=> i <= Sent
<1> SUFFICES ASSUME IInv PROVE Sent \in 0..MaxRequests /\ \A i \in Requests : task[i].at # "none" <=> i <= Sent
  OBVIOUS
<1>1. PICK n \in 0..MaxRequests : \A i \in Requests : task[i].at # "none" <=> i <= n
  BY DEF IInv, Numbered
<1>2. n \in Nat /\ n <= MaxRequests /\ MaxRequests \in Nat
  BY GitAssumption
<1>3. {i \in Requests : task[i].at # "none"} = 1..n
  BY <1>1, <1>2 DEF Requests
<1>4. Cardinality(1..n) = n
  BY <1>2, FS_Interval
<1>5. Sent = n
  BY <1>3, <1>4 DEF Sent
<1>6. QED
  BY <1>1, <1>5

LEMMA GitTimerStep == IInv /\ GitTimer => IInv'
<1> SUFFICES ASSUME IInv, GitTimer PROVE IInv'
  OBVIOUS
<1> DEFINE t == [NoTask EXCEPT !.at = IF alive THEN "sent" ELSE "over", !.root = root]
<1>a. Sent \in 0..MaxRequests /\ Sent < MaxRequests /\ MaxRequests \in Nat
  BY SentFacts, GitAssumption DEF GitTimer
<1>b. PICK n \in Requests : n = Sent + 1
  BY <1>a DEF Requests
<1>1. /\ gitTimer' = FALSE /\ requestId' = n /\ awaitingFirst' = TRUE /\ task' = [task EXCEPT ![n] = t]
      /\ bcbs' = IF alive THEN bcbs \cup {n} ELSE bcbs
      /\ UNCHANGED <<disk, changes, alive, cache, burst, told, out, open, root, gitOn, calls, dirs, shown>>
  BY <1>b DEF GitTimer, diskVars, sessionVars
<1>2. n \in Requests /\ task[n].at = "none" /\ \A i \in Requests : i <= n <=> i <= Sent \/ i = n
  <2>1. ~(n <= Sent)
    BY ONLY <1>a, <1>b
  <2>2. task[n].at = "none"
    BY <2>1, SentFacts
  <2>3. \A i \in Requests : i <= n <=> i <= Sent \/ i = n
    BY <1>a, <1>b DEF Requests
  <2>4. QED
    BY <2>2, <2>3
<1>3. t \in Tasks /\ t.at \in {"sent", "over"} /\ t.root = root /\ t.scope = 1 /\ (alive => t.at # "over")
  <2>1. NoTask \in Tasks /\ NoTask.at = "none" /\ NoTask.scope = 1 /\ root \in Roots
    BY TypesKept, RecordTypes DEF NoTask
  <2>2. (IF alive THEN "sent" ELSE "over") \in {"sent", "over"} /\ (alive => (IF alive THEN "sent" ELSE "over") = "sent")
    OBVIOUS
  <2>3. t \in Tasks /\ t.at = (IF alive THEN "sent" ELSE "over") /\ t.root = root /\ t.scope = NoTask.scope
    BY ONLY <2>1, <2>2 DEF Tasks
  <2>4. QED
    BY <2>1, <2>2, <2>3
<1> HIDE DEF t
<1>4. /\ task \in [Requests -> Tasks] /\ task' \in [Requests -> Tasks] /\ task'[n] = t
      /\ \A i \in Requests \ {n} : task'[i] = task[i]
  BY <1>1, <1>2, <1>3 DEF IInv, TypeOK
<1>5. root \in Roots /\ Len(RootRepos[root]) \in Nat
  BY TypesKept, GitAssumption, LenProperties
<1>6. Scopes(n)' = RootRepos[root] /\ \A i \in Requests \ {n} : Scopes(i)' = Scopes(i)
  <2>1. task'[n].root = root
    BY <1>3, <1>4
  <2>2. Scopes(n)' = RootRepos[root]
    BY <2>1 DEF Scopes
  <2>3. ASSUME NEW i \in Requests \ {n} PROVE Scopes(i)' = Scopes(i)
    <3>1. task'[i] = task[i]
      BY <1>4
    <3>2. QED
      BY <3>1 DEF Scopes
  <2>4. QED
    BY <2>2, <2>3
<1>7. TypeOK'
  <2>1. ASSUME NEW i \in Requests, task'[i].root # 0 PROVE task'[i].scope <= Len(Scopes(i)') + 1
    <3>1. CASE i = n
      BY <1>3, <1>4, <1>5, <1>6, <3>1
    <3>2. CASE i # n
      <4>1. task[i].root # 0 => task[i].scope <= Len(Scopes(i)) + 1
        BY DEF IInv, TypeOK
      <4>2. task'[i] = task[i] /\ Scopes(i)' = Scopes(i)
        BY <1>4, <1>6, <3>2
      <4>3. QED
        BY <2>1, <4>1, <4>2
    <3>3. QED
      BY <3>1, <3>2
  <2>2. bcbs' \subseteq Requests
    BY <1>1, <1>2 DEF IInv, TypeOK
  <2>3. QED
    BY <1>1, <1>2, <1>4, <2>1, <2>2 DEF IInv, TypeOK
<1>8. Numbered'
  <2>1. n \in 0..MaxRequests
    BY <1>2 DEF Requests
  <2>2. ASSUME NEW i \in Requests PROVE task'[i].at # "none" <=> i <= n
    BY <1>2, <1>3, <1>4, SentFacts
  <2>3. QED
    BY <2>1, <2>2 DEF Numbered
<1>9. ASSUME NEW i \in Requests PROVE TaskOK(i)'
  <2>1. CASE i = n
    BY <1>3, <1>4, <1>5, <1>6, <2>1 DEF TaskOK
  <2>2. CASE i # n
    <3>1. TaskOK(i) /\ task'[i] = task[i] /\ Scopes(i)' = Scopes(i) /\ (i \in bcbs' => i \in bcbs)
      BY <1>1, <1>4, <1>6, <2>2 DEF IInv
    <3>2. QED
      BY <1>1, <3>1 DEF TaskOK
  <2>3. QED
    BY <2>1, <2>2
<1>10. ToldOK' /\ CleanIsCurrent'
  BY <1>1 DEF IInv, ToldOK, CleanIsCurrent
<1>11. \A i \in Requests : task[i].at # "none" => i # n /\ task'[i] = task[i]
  BY <1>2, <1>4
<1>12. OutOK'
  <2> SUFFICES ASSUME NEW k \in 1..Len(out), out[k].type = "git_status"
               PROVE  out[k].status.of = out[k].id /\ task'[out[k].id].at # "none"
    BY <1>1 DEF OutOK
  <2>1. out[k] \in Events /\ out[k].status.of = out[k].id /\ task[out[k].id].at # "none"
    BY ElementOfSeq DEF IInv, TypeOK, OutOK
  <2>2. out[k].id \in Requests
    BY <2>1, EventTypes
  <2>3. QED
    BY <1>11, <2>1, <2>2
<1>13. CallbacksEnd'
  <2> SUFFICES ASSUME NEW j \in bcbs', task'[j].at = "over" PROVE \E k \in 1..Len(out) : Last(out[k], j)
    BY <1>1 DEF CallbacksEnd, Last, ErrorEvent
  <2>1. j # n
    <3>1. n \notin bcbs
      BY <1>2 DEF IInv, TaskOK
    <3>2. QED
      BY <1>1, <1>3, <1>4, <3>1
  <2>2. j \in bcbs /\ j \in Requests /\ task[j].at = "over"
    BY <1>1, <1>4, <2>1 DEF IInv, TypeOK
  <2>3. QED
    BY <2>2 DEF IInv, CallbacksEnd, Last, ErrorEvent
<1>14. ShownOK' /\ MarksOfOneAnswer'
  <2>1. \A r \in Repos : shown[r] # NoStatus =>
          shown[r].of \in Requests /\ task'[shown[r].of].at # "none" /\ task'[shown[r].of] = task[shown[r].of]
    BY <1>11 DEF IInv, ShownOK
  <2>2. ShownOK'
    BY <1>1, <1>3, <1>4, <2>1 DEF ShownOK
  <2>3. MarksOfOneAnswer'
    BY <1>1, <2>1 DEF IInv, MarksOfOneAnswer
  <2>4. QED
    BY <2>2, <2>3
<1>15. QED
  BY <1>7, <1>8, <1>9, <1>10, <1>12, <1>13, <1>14 DEF IInv

LEMMA CommandStep == IInv /\ (SetRoot \/ Open \/ Close \/ Saved \/ Restarted) => IInv'
<1> SUFFICES ASSUME IInv, SetRoot \/ Open \/ Close \/ Saved \/ Restarted PROVE IInv'
  OBVIOUS
<1>1. CASE SetRoot
  <2>1. /\ Call /\ DiscardRootScopedState /\ GitStatusRefresh /\ root' \in Roots /\ gitOn' \in BOOLEAN
        /\ UNCHANGED <<disk, changes, cache, burst, told, task, out, bcbs, alive, dirs, open>>
    BY <1>1 DEF SetRoot, diskVars, daemonVars
  <2>2. QED
    BY <2>1, RefreshFacts, CallFacts, TypesKept, Disowned
<1>2. CASE Open
  <2>1. /\ Call /\ GitStatusRefresh /\ open' = TRUE
        /\ UNCHANGED <<disk, changes, cache, burst, told, task, out, bcbs, alive, dirs>>
    BY <1>2 DEF Open, diskVars, daemonVars
  <2>2. gitTimer' \in BOOLEAN /\ calls' \in 0..MaxCalls
    BY <2>1, RefreshFacts, CallFacts
  <2>3. CASE UNCHANGED <<root, gitOn, requestId, awaitingFirst, shown>>
    BY <2>1, <2>2, <2>3, TypesKept, SameRequest
  <2>4. CASE root' \in Roots \ {root} /\ gitOn' = TRUE /\ DiscardRootScopedState
    BY <2>1, <2>2, <2>4, Disowned
  <2>5. QED
    BY <1>2, <2>3, <2>4 DEF Open
<1>3. CASE Close
  <2>1. /\ Call /\ open' = FALSE /\ dirs' = {} /\ gitTimer' = FALSE /\ bcbs' = {}
        /\ UNCHANGED <<disk, changes, alive, cache, burst, told, task, out, root, gitOn, requestId, awaitingFirst, shown>>
    BY <1>3 DEF Close, diskVars, daemonVars
  <2>2. QED
    BY <2>1, CallFacts, TypesKept, SameRequest
<1>4. CASE Saved
  <2>1. /\ Call /\ GitStatusRefresh
        /\ UNCHANGED <<disk, changes, open, root, gitOn, alive, cache, burst, told, task, out, requestId, awaitingFirst, bcbs, dirs, shown>>
    BY <1>4 DEF Saved, diskVars, daemonVars, requestVars
  <2>2. QED
    BY <2>1, RefreshFacts, CallFacts, TypesKept, SameRequest
<1>5. CASE Restarted
  <2>1. /\ alive' = TRUE /\ GitStatusRefresh
        /\ UNCHANGED <<disk, changes, open, root, gitOn, calls, cache, burst, told, task, out, requestId, awaitingFirst, bcbs, dirs, shown>>
    BY <1>5 DEF Restarted, diskVars, daemonVars, requestVars, sessionVars
  <2>2. QED
    BY <2>1, RefreshFacts, TypesKept, SameRequest
<1>6. QED
  BY <1>1, <1>2, <1>3, <1>4, <1>5

LEMMA ExitStep == IInv /\ Exit => IInv'
<1> SUFFICES ASSUME IInv, Exit PROVE IInv'
  OBVIOUS
<1>1. /\ Call /\ alive' = FALSE /\ cache' = [r \in Repos |-> NoEntry] /\ burst' = {} /\ out' = <<>>
      /\ task' = [i \in Requests |-> IF task[i] = NoTask THEN NoTask ELSE [task[i] EXCEPT !.at = "over"]]
      /\ bcbs' = {} /\ shown' = [r \in Repos |-> NoStatus]
      /\ UNCHANGED <<disk, changes, told, open, root, gitOn, requestId, awaitingFirst, dirs, gitTimer>>
  BY DEF Exit, diskVars
<1>2. ASSUME NEW i \in Requests
      PROVE  /\ task'[i] \in Tasks /\ task'[i].root = task[i].root /\ task'[i].scope = task[i].scope
             /\ task'[i].at # "run" /\ (task'[i].at # "none" <=> task[i].at # "none")
             /\ task'[i].at = "none" => task'[i] = NoTask
  <2>1. task[i] \in Tasks /\ (task[i].at = "none" => task[i] = NoTask)
    BY DEF IInv, TypeOK, TaskOK
  <2>2. CASE task[i] = NoTask
    BY <1>1, <2>1, <2>2, RecordTypes
  <2>3. CASE task[i] # NoTask
    <3>1. task'[i] = [task[i] EXCEPT !.at = "over"]
      BY <1>1, <2>3
    <3>2. QED
      BY <2>1, <2>3, <3>1 DEF Tasks
  <2>4. QED
    BY <2>2, <2>3
<1>3. task' \in [Requests -> Tasks]
  <2>1. task' = [i \in Requests |-> task'[i]]
    BY <1>1
  <2>2. QED
    BY <1>2, <2>1
<1>4. out' \in Seq(Events) /\ Len(out') = 0
  <2>1. \A S : <<>> \in Seq(S)
    OBVIOUS
  <2>2. QED
    BY <1>1, <2>1
<1>5. cache' \in [Repos -> Entries] /\ shown' \in [Repos -> Statuses]
  BY <1>1, RecordTypes
<1>6. \A i \in Requests : Scopes(i)' = Scopes(i)
  BY <1>2 DEF Scopes
<1>7. TypeOK'
  <2>1. ASSUME NEW i \in Requests, task'[i].root # 0 PROVE task'[i].scope <= Len(Scopes(i)') + 1
    <3>1. task[i].root # 0
      BY <1>2, <2>1
    <3>2. task[i].scope <= Len(Scopes(i)) + 1
      BY <3>1 DEF IInv, TypeOK
    <3>3. QED
      BY <1>2, <1>6, <3>2
  <2>2. QED
    BY <1>1, <1>3, <1>4, <1>5, <2>1, CallFacts DEF IInv, TypeOK, Entries
<1>8. Numbered'
  BY <1>2 DEF IInv, Numbered
<1>9. ASSUME NEW i \in Requests PROVE TaskOK(i)'
  <2>1. TaskOK(i)
    BY DEF IInv
  <2>2. QED
    BY <1>1, <1>2, <1>6, <2>1 DEF TaskOK
<1>10. ToldOK' /\ CleanIsCurrent' /\ CallbacksEnd' /\ MarksOfOneAnswer'
  BY <1>1 DEF IInv, ToldOK, CleanIsCurrent, CallbacksEnd, MarksOfOneAnswer
<1>11. OutOK'
  BY <1>4 DEF OutOK
<1>12. ShownOK'
  <2>1. requestId \in Requests \cup {0}
    BY DEF IInv, TypeOK
  <2>2. QED
    BY <1>1, <1>2, <2>1 DEF IInv, ShownOK
<1>13. QED
  BY <1>7, <1>8, <1>9, <1>10, <1>11, <1>12 DEF IInv

LEMMA NextStep == IInv /\ [Next]_vars => IInv'
<1> SUFFICES ASSUME IInv, [Next]_vars PROVE IInv'
  OBVIOUS
<1>1. ASSUME NEW r \in Repos, Change(r) \/ Age(r) PROVE IInv'
  BY <1>1, ChangeStep, AgeStep
<1>2. ASSUME NEW i \in Requests, Task(i) PROVE IInv'
  BY <1>2, TaskStep
<1>3. CASE Debounce
  BY <1>3, DebounceStep
<1>4. CASE Dispatch
  BY <1>4, DispatchStep
<1>5. CASE FsTimer \/ GitTimer
  BY <1>5, FsTimerStep, GitTimerStep
<1>6. CASE SetRoot \/ Open \/ Close \/ Saved \/ Restarted
  BY <1>6, CommandStep
<1>7. CASE Exit
  BY <1>7, ExitStep
<1>8. CASE UNCHANGED vars
  <2>1. UNCHANGED <<disk, changes, cache, burst, told, task, out, requestId, awaitingFirst, shown, root,
                    bcbs, alive, open, gitOn, gitTimer, dirs, calls>>
    BY <1>8 DEF vars, diskVars, daemonVars, requestVars, sessionVars
  <2>2. QED
    BY <2>1, TypesKept, SameRequest
<1>9. QED
  BY <1>1, <1>2, <1>3, <1>4, <1>5, <1>6, <1>7, <1>8 DEF Next

----------------------------------------------------------------------------
(* Where the marks come to rest: what was announced of a repository that   *)
(* works is shown, or is on one of the ways that lead to the screen.       *)

Good(r, s) == s.version >= told[r] \/ s.raced

\* An announcement of r is on its way to the timer, or waits for it.
Due(r) == r \in dirs \/ \E k \in 1..Len(out) : out[k].type = "fs_event" /\ r \in out[k].dirs

\* The tree shows marks, and no request is about to be made.
Asking == open /\ alive /\ gitOn /\ ~gitTimer

\* Task t has r's status in hand, or has still to come to r.
Ahead(t, r) ==
  t.at # "over" /\ (t.held = r \/ \E k \in t.scope..Len(RootRepos[t.root]) : RootRepos[t.root][k] = r)

\* The events that bring r's status for the last request.
Answers(r) == {k \in 1..Len(out) : out[k].type = "git_status" /\ out[k].id = requestId /\ out[k].repo = r}
Answered(r) == ~awaitingFirst /\ shown[r] # NoStatus

\* What the last request has found of r is good, and there is or will be some of it
\* if git works.
Cared(r) ==
  /\ task[requestId].held = r => Good(r, task[requestId].status)
  /\ \A k \in Answers(r) : Good(r, out[k].status)
  /\ Answered(r) => Good(r, shown[r])
  /\ r \in Flaky \/ Ahead(task[requestId], r) \/ Answers(r) # {} \/ Answered(r)

Settling == Asking => requestId # 0 /\ \A r \in Covered(root) : Due(r) \/ Cared(r)

LEMMA CoveredTypes ==
  ASSUME NEW rt \in Roots, NEW r \in Covered(rt)
  PROVE  /\ r \in Repos /\ r # 0
         /\ \E k \in 1..Len(RootRepos[rt]) : RootRepos[rt][k] = r
BY ScopeTypes, GitAssumption DEF Covered

\* A refresh is a request that is about to be made.
LEMMA Refreshing == GitStatusRefresh => ~Asking'
BY DEF GitStatusRefresh, Asking

LEMMA SameSettling ==
  ASSUME Settling, UNCHANGED <<told, task, out, requestId, awaitingFirst, shown, root, dirs>>, Asking' => Asking
  PROVE  Settling'
BY DEF Settling, Due, Cared, Good, Answers, Answered, Ahead, Covered

\* Task i that goes on to t and may say e keeps or says what it has in hand, and
\* passes over no repository whose git works.
Careful(i, t, e) ==
  \A r \in Repos \ {0} : r \in Covered(task[i].root) =>
    /\ t.held = r => (t.status = task[i].status /\ task[i].held = r) \/ Good(r, t.status)
    /\ e.type = "git_status" /\ e.repo = r =>
         /\ task[i].held = r
         /\ e.status.version = task[i].status.version /\ e.status.raced = task[i].status.raced
    /\ Ahead(task[i], r) =>
         \/ r \in Flaky \/ Ahead(t, r)
         \/ e.type = "git_status" /\ e.repo = r /\ out' = Append(out, e)

LEMMA TaskSettles ==
  ASSUME IInv, Settling, NEW i \in Requests, NEW t \in Tasks, task' = [task EXCEPT ![i] = t], t.root = task[i].root,
         NEW e \in Events, e.type # "fs_event", e.id = i, out' = out \/ out' = Append(out, e), TaskUnchanged,
         Careful(i, t, e)
  PROVE  Settling'
<1> SUFFICES ASSUME Asking' PROVE requestId' # 0 /\ \A r \in Covered(root)' : (Due(r) \/ Cared(r))'
  BY DEF Settling
<1>1. UNCHANGED <<alive, told, open, root, gitOn, requestId, awaitingFirst, dirs, gitTimer, shown>>
  BY DEF TaskUnchanged, sessionVars, requestVars
<1>2. requestId # 0 /\ \A r \in Covered(root) : Due(r) \/ Cared(r)
  BY <1>1 DEF Settling, Asking
<1>3. /\ requestId \in Requests /\ task \in [Requests -> Tasks] /\ out \in Seq(Events) /\ root \in Roots
      /\ task[requestId].root = root
  BY <1>2 DEF IInv, TypeOK, ShownOK
<1>4. /\ Len(out') \in Nat
      /\ \A k \in 1..Len(out) : k \in 1..Len(out') /\ out'[k] = out[k]
      /\ \A k \in 1..Len(out') : k \in 1..Len(out) \/ out'[k] = e
      /\ out' = Append(out, e) => out'[Len(out')] = e /\ Len(out') \in 1..Len(out')
  BY ONLY <1>3, e \in Events, out' = out \/ out' = Append(out, e), OneMore
<1>5. SUFFICES ASSUME NEW r \in Covered(root) PROVE Due(r)' \/ Cared(r)'
  BY <1>1, <1>2 DEF Covered
<1>6. r \in Repos \ {0}
  BY <1>3, CoveredTypes
<1>7. CASE Due(r)
  BY <1>1, <1>4, <1>7 DEF Due
<1>8. CASE Cared(r)
  <2>1. /\ requestId = i => task'[requestId] = t
        /\ requestId # i => task'[requestId] = task[requestId]
    BY <1>3
  <2>2. requestId = i =>
           /\ t.held = r => (t.status = task[i].status /\ task[i].held = r) \/ Good(r, t.status)
           /\ e.type = "git_status" /\ e.repo = r =>
                /\ task[i].held = r
                /\ e.status.version = task[i].status.version /\ e.status.raced = task[i].status.raced
           /\ Ahead(task[i], r) =>
                \/ r \in Flaky \/ Ahead(t, r)
                \/ e.type = "git_status" /\ e.repo = r /\ out' = Append(out, e)
    BY <1>3, <1>6 DEF Careful
  <2>3. \A s : Good(r, s)' <=> Good(r, s)
    BY <1>1 DEF Good
  <2>4. task'[requestId].held = r => Good(r, task'[requestId].status)
    BY <1>8, <2>1, <2>2 DEF Cared
  <2>5. ASSUME NEW k \in Answers(r)' PROVE Good(r, out'[k].status)
    <3>1. k \in 1..Len(out') /\ out'[k].type = "git_status" /\ out'[k].id = requestId /\ out'[k].repo = r
      BY <1>1 DEF Answers
    <3>2. CASE k \in 1..Len(out)
      <4>1. k \in Answers(r) /\ out'[k] = out[k]
        BY <1>4, <3>1, <3>2 DEF Answers
      <4>2. QED
        BY <1>8, <4>1 DEF Cared
    <3>3. CASE out'[k] = e
      <4>1. requestId = i /\ e.type = "git_status" /\ e.repo = r
        BY <3>1, <3>3
      <4>2. Good(r, task[i].status)
        BY <1>8, <2>2, <4>1 DEF Cared
      <4>3. QED
        BY <2>2, <3>3, <4>1, <4>2 DEF Good
    <3>4. QED
      BY <1>4, <3>1, <3>2, <3>3
  <2>6. Answered(r)' <=> Answered(r)
    BY <1>1 DEF Answered
  <2>7. \A k \in Answers(r) : k \in Answers(r)'
    BY <1>1, <1>4 DEF Answers
  <2>8. r \in Flaky \/ Ahead(task'[requestId], r) \/ Answers(r)' # {} \/ Answered(r)
    <3>1. CASE Ahead(task[requestId], r) /\ requestId = i /\ e.type = "git_status" /\ e.repo = r /\ out' = Append(out, e)
      <4>1. Len(out') \in Answers(r)'
        BY <1>1, <1>4, <3>1 DEF Answers
      <4>2. QED
        BY <4>1
    <3>2. QED
      BY <1>8, <2>1, <2>2, <2>7, <3>1 DEF Cared
  <2>9. /\ (task[requestId].held = r => Good(r, task[requestId].status))'
        /\ (Answered(r) => Good(r, shown[r]))'
    BY <1>1, <1>8, <2>3, <2>4, <2>6 DEF Cared
  <2>10. (\A k \in Answers(r) : Good(r, out[k].status))'
    BY <2>3, <2>5
  <2>11. (r \in Flaky \/ Ahead(task[requestId], r) \/ Answers(r) # {} \/ Answered(r))'
    <3>1. Ahead(task[requestId], r)' <=> Ahead(task'[requestId], r)
      BY <1>1 DEF Ahead
    <3>2. QED
      BY <2>6, <2>8, <3>1
  <2>12. QED
    BY <2>9, <2>10, <2>11 DEF Cared
<1>9. QED
  BY <1>2, <1>7, <1>8

\* A scope of task i has a good status.
LEMMA HoldSettles ==
  ASSUME IInv, Settling, NEW i \in Requests, task[i].at \in {"loop", "run"}, task[i].scope <= Len(Scopes(i)),
         NEW new \in Statuses, Hold(i, new), TaskUnchanged, Good(Scopes(i)[task[i].scope], new)
  PROVE  Settling'
<1> DEFINE n == task[i].scope
<1>1. PICK t \in Tasks :
        /\ task' = [task EXCEPT ![i] = t]
        /\ t.at = "loop" /\ t.root = task[i].root /\ t.scope = task[i].scope + 1
        /\ t.held = Scopes(i)[task[i].scope] /\ t.status = new
  BY HoldFacts, Zenon
<1>2. n \in Nat /\ Len(Scopes(i)) \in Nat /\ Scopes(i) = RootRepos[task[i].root]
  BY TaskFacts DEF Scopes
<1>3. PICK e \in Events : e = Said(i, FALSE) /\ SaysHeld(i, e)
  BY SaidFacts
<1>4. /\ e.type # "fs_event" /\ e.id = i
      /\ e.type = "git_status" => /\ e.repo = task[i].held /\ e.status.version = task[i].status.version
                                  /\ e.status.raced = task[i].status.raced
      /\ task[i].held # 0 => e.type = "git_status"
  BY <1>3 DEF SaysHeld
<1>5. out' = IF task[i].held = 0 THEN out ELSE Append(out, e)
  BY <1>3, HoldFacts
<1>6. ASSUME NEW r \in Repos \ {0}, Ahead(task[i], r)
      PROVE  Ahead(t, r) \/ (e.type = "git_status" /\ e.repo = r /\ out' = Append(out, e))
  <2>1. CASE task[i].held = r
    BY <1>4, <1>5, <2>1
  <2>2. CASE task[i].held # r
    <3>1. PICK k \in n..Len(Scopes(i)) : Scopes(i)[k] = r
      BY <1>2, <1>6, <2>2 DEF Ahead
    <3>2. k = n \/ k \in (n + 1)..Len(Scopes(i))
      BY <1>2
    <3>3. t.held = r \/ \E j \in t.scope..Len(RootRepos[t.root]) : RootRepos[t.root][j] = r
      BY <1>1, <1>2, <3>1, <3>2
    <3>4. QED
      BY <1>1, <3>3 DEF Ahead
  <2>3. QED
    BY <2>1, <2>2
<1>7. \A r \in Repos \ {0} : t.held = r => Good(r, t.status)
  BY <1>1
<1>8. Careful(i, t, e)
  BY <1>4, <1>6, <1>7 DEF Careful
<1>9. out' = out \/ out' = Append(out, e)
  BY <1>5
<1>10. QED
  BY <1>1, <1>4, <1>8, <1>9, TaskSettles

LEMMA DiscoverSettles == \A i \in Requests : IInv /\ Settling /\ Discover(i) => Settling'
<1> SUFFICES ASSUME IInv, Settling, NEW i \in Requests, Discover(i) PROVE Settling'
  OBVIOUS
<1>1. task[i] \in Tasks /\ task \in [Requests -> Tasks] /\ TaskUnchanged /\ task[i].at = "sent"
  BY DEF IInv, TypeOK, Discover
<1>2. PICK t \in Tasks :
        /\ task' = [task EXCEPT ![i] = t] /\ t.root = task[i].root /\ t.held = task[i].held
        /\ t.status = task[i].status /\ t.scope = task[i].scope
        /\ t.at = IF Scopes(i) = <<>> THEN "over" ELSE "loop"
  <2>1. ASSUME NEW a \in {"over", "loop"}
        PROVE  /\ [task[i] EXCEPT !.at = a] \in Tasks
               /\ [task EXCEPT ![i].at = a] = [task EXCEPT ![i] = [task[i] EXCEPT !.at = a]]
    BY <1>1 DEF Tasks
  <2>2. /\ task' = [task EXCEPT ![i].at = IF Scopes(i) = <<>> THEN "over" ELSE "loop"]
        /\ (IF Scopes(i) = <<>> THEN "over" ELSE "loop") \in {"over", "loop"}
    BY DEF Discover
  <2>3. PICK a \in {"over", "loop"} :
          a = (IF Scopes(i) = <<>> THEN "over" ELSE "loop") /\ task' = [task EXCEPT ![i] = [task[i] EXCEPT !.at = a]]
    BY <2>1, <2>2
  <2>4. /\ [task[i] EXCEPT !.at = a] \in Tasks /\ [task[i] EXCEPT !.at = a].root = task[i].root
        /\ [task[i] EXCEPT !.at = a].held = task[i].held /\ [task[i] EXCEPT !.at = a].status = task[i].status
        /\ [task[i] EXCEPT !.at = a].scope = task[i].scope /\ [task[i] EXCEPT !.at = a].at = a
    BY <1>1 DEF Tasks
  <2>5. QED
    BY <2>3, <2>4
<1>3. PICK e \in Events : e = ErrorEvent(i) /\ e.type = "error" /\ e.id = i
  BY ErrorEvents
<1>4. out' = out \/ out' = Append(out, e)
  BY <1>3 DEF Discover
<1>5. ASSUME NEW r \in Covered(task[i].root) PROVE Scopes(i) # <<>>
  <2>1. Len(RootRepos[task[i].root]) # 0
    BY DEF Covered
  <2>2. QED
    BY <2>1 DEF Scopes
<1>6. ASSUME NEW r \in Covered(task[i].root), Ahead(task[i], r) PROVE Ahead(t, r)
  BY <1>2, <1>5, <1>6 DEF Ahead
<1>7. Careful(i, t, e)
  BY <1>2, <1>3, <1>6 DEF Careful
<1>8. e.type # "fs_event"
  BY <1>3
<1>9. QED
  BY <1>1, <1>2, <1>3, <1>4, <1>7, <1>8, TaskSettles

LEMMA FromCacheSettles == \A i \in Requests : IInv /\ Settling /\ FromCache(i) => Settling'
<1> SUFFICES ASSUME IInv, Settling, NEW i \in Requests, FromCache(i) PROVE Settling'
  OBVIOUS
<1> DEFINE r == Scopes(i)[task[i].scope]
<1>1. /\ task[i].at = "loop" /\ task[i].scope <= Len(Scopes(i)) /\ Hold(i, cache[r].status) /\ TaskUnchanged
      /\ cache[r] # NoEntry /\ ~cache[r].dirty
  BY DEF FromCache, InLoop, Fresh
<1>2. r \in Repos
  BY <1>1, TaskFacts
<1>3. cache[r].status \in Statuses /\ Good(r, cache[r].status)
  BY <1>1, <1>2 DEF IInv, TypeOK, CleanIsCurrent, Good
<1>4. QED
  BY <1>1, <1>3, HoldSettles

LEMMA GitEndsSettles == \A i \in Requests : IInv /\ Settling /\ GitEnds(i) => Settling'
<1> SUFFICES ASSUME IInv, Settling, NEW i \in Requests, GitEnds(i) PROVE Settling'
  OBVIOUS
<1>1. task[i].at = "run" /\ Hold(i, task[i].run) /\ TaskUnchanged
  BY DEF GitEnds
<1>2. task[i].scope <= Len(Scopes(i)) /\ Good(Scopes(i)[task[i].scope], task[i].run)
  BY <1>1 DEF IInv, TaskOK, Good
<1>3. task[i].run \in Statuses
  BY DEF IInv, TypeOK, Tasks
<1>4. QED
  BY <1>1, <1>2, <1>3, HoldSettles

\* Task i goes on without a word, and without passing over what works.
LEMMA SilentlySettles ==
  ASSUME IInv, Settling, NEW i \in Requests, NEW t \in Tasks, task' = [task EXCEPT ![i] = t], t.root = task[i].root,
         t.held = task[i].held, t.status = task[i].status, out' = out, TaskUnchanged,
         \A r \in Repos \ {0} : Ahead(task[i], r) => r \in Flaky \/ Ahead(t, r)
  PROVE  Settling'
<1>1. PICK e \in Events : e.type = "error" /\ e.id = i
  BY ErrorEvents
<1>2. Careful(i, t, e)
  BY <1>1 DEF Careful
<1>3. e.type # "fs_event"
  BY <1>1
<1>4. QED
  BY <1>1, <1>2, <1>3, TaskSettles

LEMMA RunGitSettles == \A i \in Requests : IInv /\ Settling /\ RunGit(i) => Settling'
<1> SUFFICES ASSUME IInv, Settling, NEW i \in Requests, RunGit(i) PROVE Settling'
  OBVIOUS
<1> DEFINE run == [NoStatus EXCEPT !.version = disk[Scopes(i)[task[i].scope]]]
           t == [task[i] EXCEPT !.at = "run", !.run = run]
<1>1. task[i].at = "loop" /\ task[i].scope <= Len(Scopes(i)) /\ out' = out /\ TaskUnchanged
  BY DEF RunGit, InLoop
<1>2. /\ Scopes(i)[task[i].scope] \in Repos /\ task[i] \in Tasks /\ task \in [Requests -> Tasks]
      /\ disk[Scopes(i)[task[i].scope]] \in Nat
  BY <1>1, TaskFacts DEF IInv, TypeOK
<1>3. run \in Statuses
  BY <1>2 DEF NoStatus, Statuses
<1>4. task' = [task EXCEPT ![i] = t]
  BY <1>2 DEF RunGit
<1> HIDE DEF run
<1>5. /\ t \in Tasks /\ t.at = "run" /\ t.root = task[i].root /\ t.scope = task[i].scope /\ t.held = task[i].held
      /\ t.status = task[i].status
  BY <1>2, <1>3 DEF Tasks
<1> HIDE DEF t
<1>6. \A r \in Repos : Ahead(task[i], r) => Ahead(t, r)
  BY <1>5 DEF Ahead
<1>7. QED
  BY <1>1, <1>4, <1>5, <1>6, SilentlySettles

LEMMA GitFailsSettles == \A i \in Requests : IInv /\ Settling /\ GitFails(i) => Settling'
<1> SUFFICES ASSUME IInv, Settling, NEW i \in Requests, GitFails(i) PROVE Settling'
  OBVIOUS
<1> DEFINE n == task[i].scope
           t == [task[i] EXCEPT !.at = "loop", !.scope = @ + 1, !.run = NoStatus]
<1>1. task[i].at = "run" /\ Scopes(i)[n] \in Flaky /\ out' = out /\ TaskUnchanged
  BY DEF GitFails
<1>2. task[i] \in Tasks /\ task \in [Requests -> Tasks] /\ n \in Nat \ {0}
  BY <1>1, TaskFacts DEF IInv, TypeOK
<1>3. task' = [task EXCEPT ![i] = t]
  BY <1>2 DEF GitFails
<1>4. /\ t \in Tasks /\ t.at = "loop" /\ t.root = task[i].root /\ t.scope = n + 1 /\ t.held = task[i].held
      /\ t.status = task[i].status
  <2>1. n + 1 \in Nat \ {0} /\ NoStatus \in Statuses
    BY <1>2, RecordTypes
  <2>2. QED
    BY ONLY <1>2, <2>1 DEF Tasks
<1> HIDE DEF t
<1>5. Len(Scopes(i)) \in Nat /\ Scopes(i) = RootRepos[task[i].root]
  BY <1>1, TaskFacts DEF Scopes
<1>6. ASSUME NEW r \in Repos, Ahead(task[i], r) PROVE r \in Flaky \/ Ahead(t, r)
  <2>1. CASE task[i].held = r
    BY <1>4, <2>1 DEF Ahead
  <2>2. CASE task[i].held # r
    <3>1. PICK k \in n..Len(Scopes(i)) : Scopes(i)[k] = r
      BY <1>5, <1>6, <2>2 DEF Ahead
    <3>2. k = n \/ k \in (n + 1)..Len(Scopes(i))
      BY <1>2, <1>5
    <3>3. QED
      BY <1>1, <1>4, <1>5, <3>1, <3>2 DEF Ahead
  <2>3. QED
    BY <2>1, <2>2
<1>7. QED
  BY <1>1, <1>3, <1>4, <1>6, SilentlySettles

LEMMA FinishSettles == \A i \in Requests : IInv /\ Settling /\ Finish(i) => Settling'
<1> SUFFICES ASSUME IInv, Settling, NEW i \in Requests, Finish(i) PROVE Settling'
  OBVIOUS
<1>1. task[i].at = "loop" /\ task[i].scope > Len(Scopes(i)) /\ TaskUnchanged
  BY DEF Finish
<1>2. PICK t \in Tasks : /\ task' = [task EXCEPT ![i] = t] /\ t.root = task[i].root
                         /\ t.held = task[i].held /\ t.status = task[i].status
  BY FinishFacts
<1>3. PICK e \in Events : e = Said(i, TRUE) /\ SaysHeld(i, e)
  BY SaidFacts
<1>4. /\ e.type # "fs_event" /\ e.id = i
      /\ e.type = "git_status" => /\ e.repo = task[i].held /\ e.status.version = task[i].status.version
                                  /\ e.status.raced = task[i].status.raced
      /\ task[i].held # 0 => e.type = "git_status"
  BY <1>3 DEF SaysHeld
<1>5. out' = Append(out, e)
  BY <1>3, FinishFacts
<1>6. ASSUME NEW r \in Repos \ {0}, Ahead(task[i], r) PROVE e.type = "git_status" /\ e.repo = r
  <2>1. task[i].scope \in Nat /\ Len(Scopes(i)) \in Nat /\ Scopes(i) = RootRepos[task[i].root]
    BY <1>1, TaskFacts DEF Scopes
  <2>2. task[i].scope..Len(Scopes(i)) = {}
    BY <1>1, <2>1
  <2>3. task[i].held = r
    BY <1>6, <2>1, <2>2 DEF Ahead
  <2>4. QED
    BY <1>4, <2>3
<1>7. Careful(i, t, e)
  BY <1>2, <1>4, <1>5, <1>6 DEF Careful
<1>8. QED
  BY <1>1, <1>2, <1>4, <1>5, <1>7, TaskSettles

\* What is announced is due.
LEMMA DebounceSettles == IInv /\ Settling /\ Debounce => Settling'
<1> SUFFICES ASSUME IInv, Settling, Debounce, Asking' PROVE Settling'
  BY DEF Settling
<1> DEFINE e == [type |-> "fs_event", dirs |-> burst]
<1>1. /\ told' = [r \in Repos |-> IF r \in burst THEN disk[r] ELSE told[r]]
      /\ task' = [i \in Requests |-> [task[i] EXCEPT !.run.raced = @ \/ task[i].at = "run"]]
      /\ out' = Append(out, e)
      /\ UNCHANGED <<alive, open, root, gitOn, requestId, awaitingFirst, dirs, gitTimer, shown>>
  BY DEF Debounce, diskVars, sessionVars, requestVars
<1>2. requestId # 0 /\ \A r \in Covered(root) : Due(r) \/ Cared(r)
  BY <1>1 DEF Settling, Asking
<1>3. /\ requestId \in Requests /\ task \in [Requests -> Tasks] /\ out \in Seq(Events) /\ root \in Roots
      /\ burst \subseteq Repos
  BY <1>2 DEF IInv, TypeOK
<1>4. /\ e.type = "fs_event" /\ e.dirs = burst /\ Len(out') \in 1..Len(out') /\ out'[Len(out')] = e
      /\ \A k \in 1..Len(out) : k \in 1..Len(out') /\ out'[k] = out[k]
      /\ \A k \in 1..Len(out') : k \in 1..Len(out) \/ out'[k] = e
  <2>1. e \in Events
    BY <1>3 DEF Events
  <2>2. QED
    BY <1>1, <1>3, <2>1, OneMore
<1> HIDE DEF e
<1>5. /\ task'[requestId].held = task[requestId].held /\ task'[requestId].status = task[requestId].status
      /\ task'[requestId].at = task[requestId].at /\ task'[requestId].scope = task[requestId].scope
      /\ task'[requestId].root = task[requestId].root
  BY <1>1, <1>3 DEF Tasks
<1>6. ASSUME NEW r \in Covered(root) PROVE Due(r)' \/ Cared(r)'
  <2>1. r \in Repos
    BY <1>3, <1>6, CoveredTypes
  <2>2. CASE Due(r) \/ r \in burst
    BY <1>1, <1>4, <2>2 DEF Due
  <2>3. CASE Cared(r) /\ r \notin burst
    <3>1. told'[r] = told[r]
      BY <1>1, <2>1, <2>3
    <3>2. \A s : Good(r, s)' <=> Good(r, s)
      BY <3>1 DEF Good
    <3>3. Answers(r)' = Answers(r) /\ \A k \in Answers(r) : out'[k] = out[k]
      BY <1>1, <1>4 DEF Answers
    <3>4. Answered(r)' <=> Answered(r)
      BY <1>1 DEF Answered
    <3>5. Ahead(task[requestId], r)' <=> Ahead(task[requestId], r)
      <4>1. \A t, v : v.at = t.at /\ v.held = t.held /\ v.scope = t.scope /\ v.root = t.root
                        => (Ahead(v, r) <=> Ahead(t, r))
        BY DEF Ahead
      <4>2. Ahead(task'[requestId], r) <=> Ahead(task[requestId], r)
        BY <1>5, <4>1
      <4>3. Ahead(task[requestId], r)' <=> Ahead(task'[requestId], r)
        BY <1>1 DEF Ahead
      <4>4. QED
        BY <4>2, <4>3
    <3>6. (task[requestId].held = r => Good(r, task[requestId].status))'
      BY <1>1, <1>5, <2>3, <3>1 DEF Cared, Good
    <3>7. (\A k \in Answers(r) : Good(r, out[k].status))'
      BY <2>3, <3>2, <3>3 DEF Cared
    <3>8. (Answered(r) => Good(r, shown[r]))'
      BY <1>1, <2>3, <3>1, <3>4 DEF Cared, Good
    <3>9. (r \in Flaky \/ Ahead(task[requestId], r) \/ Answers(r) # {} \/ Answered(r))'
      BY <2>3, <3>3, <3>4, <3>5 DEF Cared
    <3>10. QED
      BY <3>6, <3>7, <3>8, <3>9 DEF Cared
  <2>4. QED
    BY <1>2, <2>2, <2>3
<1>7. QED
  BY <1>1, <1>2, <1>6 DEF Settling, Covered

\* The timer asks for what has changed below the root.
LEMMA FsTimerSettles == IInv /\ Settling /\ FsTimer => Settling'
<1> SUFFICES ASSUME IInv, Settling, FsTimer, Asking' PROVE Settling'
  BY DEF Settling
<1>1. UNCHANGED <<told, task, out, requestId, awaitingFirst, shown, root, open, alive, gitOn>> /\ dirs' = {}
  BY DEF FsTimer, diskVars, daemonVars, sessionVars, requestVars
<1>2. dirs \cap Covered(root) = {} /\ gitTimer' = gitTimer
  BY <1>1, Refreshing DEF FsTimer, Asking
<1>3. requestId # 0 /\ \A r \in Covered(root) : Due(r) \/ Cared(r)
  BY <1>1, <1>2 DEF Settling, Asking
<1>4. ASSUME NEW r \in Covered(root) PROVE Due(r)' \/ Cared(r)'
  <2>1. Due(r) => Due(r)'
    BY <1>1, <1>2 DEF Due
  <2>2. Cared(r) => Cared(r)'
    BY <1>1 DEF Cared, Good, Answers, Answered, Ahead
  <2>3. QED
    BY <1>3, <2>1, <2>2
<1>5. QED
  BY <1>1, <1>3, <1>4 DEF Settling, Covered

\* A new request has everything ahead of it.
LEMMA GitTimerSettles == IInv /\ Settling /\ GitTimer => Settling'
<1> SUFFICES ASSUME IInv, Settling, GitTimer, Asking' PROVE Settling'
  BY DEF Settling
<1>1. Sent \in 0..MaxRequests /\ Sent < MaxRequests /\ MaxRequests \in Nat
  BY SentFacts, GitAssumption DEF GitTimer
<1>2. PICK n \in Requests : n = Sent + 1
  BY <1>1 DEF Requests
<1>3. /\ requestId' = n /\ awaitingFirst' = TRUE /\ alive
      /\ task' = [task EXCEPT ![n] = [NoTask EXCEPT !.at = IF alive THEN "sent" ELSE "over", !.root = root]]
      /\ UNCHANGED <<told, out, open, root, gitOn, dirs, shown>>
  BY <1>2 DEF GitTimer, diskVars, sessionVars, Asking
<1>4. task[n].at = "none"
  <2>1. ~(n <= Sent)
    BY ONLY <1>1, <1>2
  <2>2. QED
    BY <2>1, SentFacts
<1>5. /\ task'[n].at = "sent" /\ task'[n].root = root /\ task'[n].scope = 1 /\ task'[n].held = 0
      /\ task \in [Requests -> Tasks] /\ out \in Seq(Events) /\ root \in Roots
  BY <1>3 DEF IInv, TypeOK, NoTask
<1>6. ASSUME NEW r \in Covered(root) PROVE Cared(r)'
  <2>1. r # 0 /\ \E k \in 1..Len(RootRepos[root]) : RootRepos[root][k] = r
    BY <1>5, CoveredTypes
  <2>2. Ahead(task[requestId], r)'
    BY <1>3, <1>5, <2>1 DEF Ahead
  <2>3. (Answers(r) = {})'
    <3> SUFFICES ASSUME NEW k \in 1..Len(out), out[k].type = "git_status", out[k].id = n PROVE FALSE
      BY <1>3 DEF Answers
    <3>1. QED
      BY <1>4 DEF IInv, OutOK
  <2>4. ~Answered(r)' /\ task'[requestId'].held # r
    BY <1>3, <1>5, <2>1 DEF Answered
  <2>5. QED
    BY <2>2, <2>3, <2>4 DEF Cared
<1>7. n # 0
  BY DEF Requests
<1>8. QED
  BY <1>3, <1>6, <1>7 DEF Settling, Covered

\* A line that is read is not lost: what it announces waits for the timer, what it
\* answers is shown.
LEMMA DispatchSettles == IInv /\ Settling /\ Dispatch => Settling'
<1> SUFFICES ASSUME IInv, Settling, Dispatch, Asking' PROVE Settling'
  BY DEF Settling
<1> DEFINE ev == Head(out)
<1>1. /\ out # <<>> /\ out' = Tail(out) /\ (OnFsEvent(ev) \/ OnGitStatus(ev) \/ OnGitError(ev))
      /\ UNCHANGED <<alive, told, task, open, root, gitOn, gitTimer>>
  BY DEF Dispatch, DispatchUnchanged, diskVars, daemonVars, sessionVars
<1>2. out \in Seq(Events) /\ Len(out) \in Nat \ {0} /\ shown \in [Repos -> Statuses] /\ root \in Roots
  BY <1>1, LenProperties, EmptySeq DEF IInv, TypeOK
<1>3. /\ Len(out') = Len(out) - 1 /\ ev = out[1] /\ ev \in Events
      /\ \A k \in 1..Len(out') : out'[k] = out[k + 1]
  BY <1>1, <1>2, HeadTailProperties
<1>4. /\ 1 \in 1..Len(out) /\ \A k \in 1..Len(out') : k + 1 \in 1..Len(out)
      /\ \A k \in 1..Len(out) : k = 1 \/ (k - 1 \in 1..Len(out') /\ out'[k - 1] = out[k])
  BY <1>2, <1>3
<1>5. open /\ requestId' = requestId
  BY <1>1 DEF OnFsEvent, OnGitStatus, OnGitError, requestVars, Asking
<1>6. requestId # 0 /\ \A r \in Covered(root) : Due(r) \/ Cared(r)
  BY <1>1 DEF Settling, Asking
<1> HIDE DEF ev
<1>7. ASSUME NEW r \in Covered(root) PROVE Due(r)' \/ Cared(r)'
  <2>1. r \in Repos
    BY <1>2, <1>7, CoveredTypes
  <2>2. CASE Due(r)
    <3>1. dirs' = IF ev.type = "fs_event" THEN dirs \cup ev.dirs ELSE dirs
      BY <1>1, <1>5 DEF OnFsEvent, OnGitStatus, OnGitError
    <3>2. CASE r \in dirs
      BY <3>1, <3>2 DEF Due
    <3>3. CASE \E k \in 1..Len(out) : out[k].type = "fs_event" /\ r \in out[k].dirs
      <4>1. PICK k \in 1..Len(out) : out[k].type = "fs_event" /\ r \in out[k].dirs
        BY <3>3
      <4>2. CASE k = 1
        BY <1>3, <3>1, <4>1, <4>2 DEF Due
      <4>3. CASE k # 1
        BY <1>4, <4>1, <4>3 DEF Due
      <4>4. QED
        BY <4>2, <4>3
    <3>4. QED
      BY <2>2, <3>2, <3>3 DEF Due
  <2>3. CASE Cared(r)
    <3>1. \A s : Good(r, s)' <=> Good(r, s)
      BY <1>1 DEF Good
    <3>2. (task[requestId].held = r => Good(r, task[requestId].status))'
      BY <1>1, <1>5, <2>3 DEF Cared, Good
    <3>3. ASSUME NEW k \in Answers(r)' PROVE k + 1 \in Answers(r) /\ out'[k] = out[k + 1]
      BY <1>3, <1>4, <1>5 DEF Answers
    <3>4. (\A k \in Answers(r) : Good(r, out[k].status))'
      BY <2>3, <3>1, <3>3 DEF Cared
    <3>5. \A k \in Answers(r) : k # 1 => k - 1 \in Answers(r)'
      BY <1>4, <1>5 DEF Answers
    <3>6. Ahead(task[requestId], r)' <=> Ahead(task[requestId], r)
      BY <1>1, <1>5 DEF Ahead
    <3>7. CASE 1 \in Answers(r)
      <4>1. ev.type = "git_status" /\ ev.id = requestId /\ ev.repo = r /\ Good(r, ev.status)
        BY <1>3, <2>3, <3>7 DEF Answers, Cared
      <4>2. OnGitStatus(ev)
        BY <1>1, <4>1 DEF OnFsEvent, OnGitError
      <4>3. awaitingFirst' = FALSE /\ shown'[r] = ev.status
        BY <1>5, <2>1, <4>1, <4>2 DEF OnGitStatus
      <4>4. ev.status # NoStatus
        <5>1. ev.status.of = requestId
          BY <1>3, <1>4, <4>1 DEF IInv, OutOK
        <5>2. QED
          BY <1>6, <5>1, RecordTypes
      <4>5. Answered(r)' /\ Good(r, shown[r])'
        BY <3>1, <4>1, <4>3, <4>4 DEF Answered
      <4>6. QED
        BY <3>2, <3>4, <4>5 DEF Cared
    <3>8. CASE 1 \notin Answers(r)
      <4>1. Answers(r) # {} => Answers(r)' # {}
        BY <3>5, <3>8
      <4>2. shown'[r] # NoStatus => shown'[r] = shown[r] /\ (~awaitingFirst' => ~awaitingFirst)
        <5>1. CASE OnFsEvent(ev)
          BY <5>1 DEF OnFsEvent, requestVars
        <5>2. CASE OnGitError(ev)
          BY <2>1, <5>2 DEF OnGitError
        <5>3. CASE OnGitStatus(ev)
          <6>1. ev.id = requestId => ev.repo # r
            BY <1>3, <1>4, <3>8, <5>3 DEF Answers, OnGitStatus
          <6>2. QED
            BY <2>1, <5>3, <6>1 DEF OnGitStatus
        <5>4. QED
          BY <1>1, <5>1, <5>2, <5>3
      <4>3. Answered(r) => Answered(r)'
        <5>1. ASSUME ~awaitingFirst PROVE ~awaitingFirst' /\ (shown'[r] = shown[r])
          <6>1. CASE OnFsEvent(ev)
            BY <5>1, <6>1 DEF OnFsEvent, requestVars
          <6>2. CASE OnGitError(ev)
            BY <5>1, <6>2 DEF OnGitError
          <6>3. CASE OnGitStatus(ev)
            <7>1. ev.id = requestId => ev.repo # r
              BY <1>3, <1>4, <3>8, <6>3 DEF Answers, OnGitStatus
            <7>2. QED
              BY <2>1, <5>1, <6>3, <7>1 DEF OnGitStatus
          <6>4. QED
            BY <1>1, <6>1, <6>2, <6>3
        <5>2. QED
          BY <5>1 DEF Answered
      <4>4. (Answered(r) => Good(r, shown[r]))'
        BY <2>3, <3>1, <4>2 DEF Answered, Cared
      <4>5. (r \in Flaky \/ Ahead(task[requestId], r) \/ Answers(r) # {} \/ Answered(r))'
        BY <2>3, <3>6, <4>1, <4>3 DEF Cared
      <4>6. QED
        BY <3>2, <3>4, <4>4, <4>5 DEF Cared
    <3>9. QED
      BY <3>7, <3>8
  <2>4. QED
    BY <1>6, <2>2, <2>3
<1>8. QED
  BY <1>1, <1>5, <1>6, <1>7 DEF Settling, Covered

\* The commands that concern the marks ask anew; a closed tree and a daemon that has
\* gone show none.
LEMMA CommandSettles == SetRoot \/ Open \/ Close \/ Saved \/ Exit \/ Restarted => Settling'
<1>1. SetRoot \/ Open \/ Saved \/ Restarted => ~Asking'
  BY Refreshing DEF SetRoot, Open, Saved, Restarted
<1>2. Close \/ Exit => ~Asking'
  BY DEF Close, Exit, Asking
<1>3. QED
  BY <1>1, <1>2 DEF Settling

LEMMA NextSettles == IInv /\ Settling /\ [Next]_vars => Settling'
<1> SUFFICES ASSUME IInv, Settling, [Next]_vars PROVE Settling'
  OBVIOUS
<1>1. ASSUME NEW r \in Repos, Change(r) \/ Age(r) PROVE Settling'
  BY <1>1, SameSettling DEF Change, Age, TaskUnchanged, sessionVars, requestVars, Asking
<1>2. ASSUME NEW i \in Requests, Task(i) PROVE Settling'
  BY <1>2, DiscoverSettles, FromCacheSettles, RunGitSettles, GitEndsSettles, GitFailsSettles, FinishSettles DEF Task
<1>3. CASE Debounce \/ Dispatch \/ FsTimer \/ GitTimer
  BY <1>3, DebounceSettles, DispatchSettles, FsTimerSettles, GitTimerSettles
<1>4. CASE SetRoot \/ Open \/ Close \/ Saved \/ Exit \/ Restarted
  BY <1>4, CommandSettles
<1>5. CASE UNCHANGED vars
  BY <1>5, SameSettling DEF vars, daemonVars, sessionVars, requestVars, Asking
<1>6. QED
  BY <1>1, <1>2, <1>3, <1>4, <1>5 DEF Next

\* Nobody is at work: no event, no timer, and no task of git_status.
Quiet == dirs = {} /\ out = <<>> /\ ~gitTimer /\ \A i \in Requests : task[i].at \in {"none", "over"}

\* When an open tree that shows marks is quiet, every repository of its root whose git
\* works is shown with all that was announced, unless a change was announced while git
\* was reading.  MarksSettle, without the time it takes to come to rest.
AtRest ==
  open /\ alive /\ gitOn /\ Quiet =>
    \A r \in Covered(root) \ Flaky : shown[r] # NoStatus /\ (shown[r].version >= told[r] \/ shown[r].raced)

LEMMA RestFacts == IInv /\ Settling => AtRest
<1> SUFFICES ASSUME IInv, Settling, open, alive, gitOn, Quiet, NEW r \in Covered(root) \ Flaky
             PROVE  Answered(r) /\ Good(r, shown[r])
  BY DEF AtRest, Answered, Good
<1>1. requestId # 0 /\ (Due(r) \/ Cared(r))
  BY DEF Settling, Asking, Quiet
<1>2. requestId \in Requests /\ task[requestId].at = "over"
  BY <1>1 DEF IInv, TypeOK, ShownOK, Quiet
<1>3. 1..Len(out) = {}
  BY DEF Quiet
<1>4. ~Due(r) /\ Answers(r) = {} /\ ~Ahead(task[requestId], r)
  BY <1>2, <1>3 DEF Quiet, Due, Answers, Ahead
<1>5. QED
  BY <1>1, <1>4 DEF Cared

----------------------------------------------------------------------------
(* The theorems.                                                           *)

\* Statuses say truly which request and which version they are of, from the run of
\* git (run_git()) through the cache and the events to the screen.
THEOREM Invariant == Spec => []IInv
<1>1. Init => IInv
  BY InitStep
<1>2. IInv /\ [Next]_vars => IInv'
  BY NextStep
<1>3. QED
  BY <1>1, <1>2, PTL DEF Spec

\* Every variable keeps its type; a task goes no further than its last repository.
THEOREM TypeCorrect == Spec => []TypeOK
<1>1. IInv => TypeOK
  BY DEF IInv
<1>2. QED
  BY <1>1, Invariant, PTL

\* git.rs:69: what GitCache holds as clean has every announced change, but for
\* those announced while git was reading.
THEOREM CleanIsCurrentHolds == Spec => []CleanIsCurrent
<1>1. IInv => CleanIsCurrent
  BY DEF IInv
<1>2. QED
  BY <1>1, Invariant, PTL

\* OnGitStatusEvent(): the marks on the screen are those of one request, for the
\* root on the screen.
THEOREM MarksOfOneAnswerHolds == Spec => []MarksOfOneAnswer
<1>1. IInv => MarksOfOneAnswer
  BY DEF IInv
<1>2. QED
  BY <1>1, Invariant, PTL

\* handle_git_status(): whoever waits for an answer has one coming, or its task is
\* still at work.
THEOREM CallbacksEndHolds == Spec => []CallbacksEnd
<1>1. IInv => CallbacksEnd
  BY DEF IInv
<1>2. QED
  BY <1>1, Invariant, PTL

\* From the debounce task to the screen no announcement is forgotten: not by a request
\* that is overtaken, an answer that is dropped, an error, or a timer that runs already.
THEOREM AtRestHolds == Spec => []AtRest
<1>1. Init => Settling
  BY DEF Init, Settling, Asking
<1>2. IInv /\ Settling /\ [Next]_vars => Settling'
  BY NextSettles
<1>3. Spec => []Settling
  BY <1>1, <1>2, Invariant, PTL DEF Spec
<1>4. QED
  BY <1>3, RestFacts, Invariant, PTL
=============================================================================
