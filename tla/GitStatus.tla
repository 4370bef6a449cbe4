----------------------------- MODULE GitStatus -----------------------------
(***************************************************************************)
(* Git marks: the frontend's delayed refresh and what it shows             *)
(* (autoload/simpletree.vim), the git_status task that goes through the    *)
(* repositories of a root (simpletree_daemon.rs), the runs of git and the  *)
(* cache of their results (git.rs), and the debounce task's dirty marks    *)
(* (watch.rs).                                                             *)
(*                                                                         *)
(* The status of a repository is the version of its work tree that git     *)
(* has read.  Requests have ids of their own and are never cancelled, as   *)
(* the frontend does neither; permits and the bounded way out are in       *)
(* RequestLoop, and how git's output is parsed is left out.  The frontend  *)
(* never asks with force.                                                  *)
(***************************************************************************)
EXTENDS Integers, Sequences, FiniteSets

CONSTANTS
  Repos,
  RootRepos,    \* what discover_repos finds for each root, in order
  Flaky,        \* repositories whose git may fail or time out
  MaxRequests,  \* bound: git_status requests
  MaxChanges,   \* bound: changes of work trees
  MaxCalls      \* bound: commands, exits of the daemon included

Roots == DOMAIN RootRepos

ASSUME GitAssumption ==
  /\ RootRepos \in [Roots -> Seq(Repos)] /\ Flaky \subseteq Repos /\ Roots # {}
  /\ 0 \notin Repos
  /\ MaxRequests \in Nat /\ MaxChanges \in Nat /\ MaxCalls \in Nat

Requests == 1..MaxRequests
None == 0     \* no version; a work tree starts at version 1

VARIABLES
  disk,       \* disk[r]: the version of r's work tree
  alive,      \* the daemon runs and its capabilities are known
  cache,      \* GitCache: cache[r]
  burst,      \* repositories with changes the debounce task has not announced
  told,       \* told[r]: r's version when it was last announced
  task,       \* task[i]: handle_git_status for request i
  out,        \* events on their way to Vim
  open, root, \* s_open, s_root
  gitOn,      \* s_root_opts.git
  dirs,       \* s_fs_pending_dirs, by repository; its timer runs if not empty
  gitTimer,   \* s_git_timer runs
  requestId, awaitingFirst,   \* s_git_request_id, s_git_awaiting_first
  bcbs,       \* the git requests that have a callback
  shown,      \* s_git_status: shown[r], the status of r
  changes, calls

diskVars == <<disk, changes>>
daemonVars == <<cache, burst, told, task>>
requestVars == <<requestId, awaitingFirst, bcbs>>
sessionVars == <<open, root, gitOn, calls>>
vars == <<diskVars, daemonVars, requestVars, sessionVars, alive, out, dirs, gitTimer, shown>>

NoStatus == [version |-> None, raced |-> FALSE, of |-> 0]
NoEntry == [status |-> NoStatus, dirty |-> FALSE, aged |-> FALSE]
NoTask == [at |-> "none", root |-> 0, scope |-> 1,
           held |-> 0, status |-> NoStatus, run |-> NoStatus]

Init ==
  /\ disk = [r \in Repos |-> 1] /\ changes = 0
  /\ alive = TRUE /\ out = <<>>
  /\ cache = [r \in Repos |-> NoEntry] /\ burst = {} /\ told = [r \in Repos |-> None]
  /\ task = [i \in Requests |-> NoTask]
  /\ open = FALSE /\ root \in Roots /\ gitOn = TRUE /\ calls = 0
  /\ dirs = {} /\ gitTimer = FALSE
  /\ requestId = 0 /\ awaitingFirst = FALSE /\ bcbs = {}
  /\ shown = [r \in Repos |-> NoStatus]

Sent == Cardinality({i \in Requests : task[i].at # "none"})
Scopes(i) == RootRepos[task[i].root]
Covered(rt) == {RootRepos[rt][k] : k \in 1..Len(RootRepos[rt])}

----------------------------------------------------------------------------
(* The disk, the watches and the debounce task.                            *)

\* A change below a directory that is watched is seen; others are not.
Change(r) ==
  /\ changes < MaxChanges /\ changes' = changes + 1
  /\ disk' = [disk EXCEPT ![r] = @ + 1]
  /\ \/ alive /\ open /\ burst' = burst \cup {r}
     \/ UNCHANGED burst
  /\ UNCHANGED <<alive, cache, told, task, out, sessionVars, requestVars, dirs, gitTimer, shown>>

\* mark_all_dirty()
MarkAllDirty(c) == [r \in Repos |-> IF c[r] = NoEntry THEN NoEntry ELSE [c[r] EXCEPT !.dirty = TRUE]]

\* debounce_task(): the marks are set before the burst is announced.
Debounce ==
  /\ alive /\ burst # {} /\ burst' = {}
  /\ cache' = MarkAllDirty(cache)
  /\ told' = [r \in Repos |-> IF r \in burst THEN disk[r] ELSE told[r]]
  /\ task' = [i \in Requests |-> [task[i] EXCEPT !.run.raced = @ \/ task[i].at = "run"]]
  /\ out' = Append(out, [type |-> "fs_event", dirs |-> burst])
  /\ UNCHANGED <<diskVars, alive, sessionVars, requestVars, dirs, gitTimer, shown>>

----------------------------------------------------------------------------
(* The task of a request.                                                  *)

TaskUnchanged == UNCHANGED <<diskVars, alive, burst, told, sessionVars, requestVars, dirs, gitTimer, shown>>

\* Mutant: entries are good until they are five seconds old.
FreshThoughDirty(r) == cache[r] # NoEntry /\ ~cache[r].aged

\* GitCache::fresh()
Fresh(r) == cache[r] # NoEntry /\ ~cache[r].dirty /\ ~cache[r].aged

\* CACHE_TTL passes.
Age(r) ==
  /\ Fresh(r) /\ cache' = [cache EXCEPT ![r].aged = TRUE]
  /\ UNCHANGED <<task, out>> /\ TaskUnchanged

StatusEvent(i, r, status, done) ==
  [type |-> "git_status", id |-> i, repo |-> r, status |-> [status EXCEPT !.of = i], done |-> done]
ErrorEvent(i) == [type |-> "error", id |-> i]

\* The permit is taken and the repositories are found.
Discover(i) ==
  /\ task[i].at = "sent"
  /\ IF Scopes(i) = <<>>
     THEN /\ task' = [task EXCEPT ![i].at = "over"] /\ out' = Append(out, ErrorEvent(i))
     ELSE /\ task' = [task EXCEPT ![i].at = "loop"] /\ UNCHANGED out
  /\ UNCHANGED cache /\ TaskUnchanged

\* repo_status() of the scope in turn has succeeded: the repository in hand so
\* far is sent, the new one is held back.
Hold(i, status) ==
  /\ task' = [task EXCEPT ![i].at = "loop", ![i].scope = @ + 1,
                          ![i].held = Scopes(i)[task[i].scope], ![i].status = status, ![i].run = NoStatus]
  /\ out' = IF task[i].held = 0 THEN out ELSE Append(out, StatusEvent(i, task[i].held, task[i].status, FALSE))

InLoop(i) == task[i].at = "loop" /\ task[i].scope <= Len(Scopes(i))

\* A fresh entry of the cache is taken.
FromCache(i) ==
  /\ InLoop(i)
  /\ LET r == Scopes(i)[task[i].scope] IN
     /\ Fresh(r)
     /\ Hold(i, cache[r].status)
  /\ UNCHANGED cache /\ TaskUnchanged

\* git is started, and reads the work tree.
RunGit(i) ==
  /\ InLoop(i)
  /\ LET r == Scopes(i)[task[i].scope] IN
     /\ ~Fresh(r)
     /\ task' = [task EXCEPT ![i].at = "run", ![i].run = [NoStatus EXCEPT !.version = disk[r]]]
  /\ UNCHANGED <<cache, out>> /\ TaskUnchanged

\* GitCache::store()
Store(r, status) == [cache EXCEPT ![r] = [status |-> status, dirty |-> FALSE, aged |-> FALSE]]

\* It ends: its result is stored as clean.
GitEnds(i) ==
  /\ task[i].at = "run"
  /\ cache' = Store(Scopes(i)[task[i].scope], task[i].run)
  /\ Hold(i, task[i].run)
  /\ TaskUnchanged

\* Mutant: a repository that fails costs the next one its marks.
GitFailsSkipping(i) ==
  /\ task[i].at = "run" /\ Scopes(i)[task[i].scope] \in Flaky
  /\ task' = [task EXCEPT ![i].at = "loop", ![i].scope = @ + 2, ![i].run = NoStatus]
  /\ UNCHANGED <<cache, out>> /\ TaskUnchanged

\* It fails or times out: the others go on without it.
GitFails(i) ==
  /\ task[i].at = "run" /\ Scopes(i)[task[i].scope] \in Flaky
  /\ task' = [task EXCEPT ![i].at = "loop", ![i].scope = @ + 1, ![i].run = NoStatus]
  /\ UNCHANGED <<cache, out>> /\ TaskUnchanged

\* Mutant: the repository held back is sent as one of several.
FinishUndone(i) ==
  /\ task[i].at = "loop" /\ task[i].scope > Len(Scopes(i))
  /\ task' = [task EXCEPT ![i].at = "over"]
  /\ out' = Append(out, IF task[i].held # 0 THEN StatusEvent(i, task[i].held, task[i].status, FALSE)
                        ELSE ErrorEvent(i))
  /\ UNCHANGED cache /\ TaskUnchanged

\* After the last: the one held back is done, or every one has failed.
Finish(i) ==
  /\ task[i].at = "loop" /\ task[i].scope > Len(Scopes(i))
  /\ task' = [task EXCEPT ![i].at = "over"]
  /\ out' = Append(out, IF task[i].held # 0 THEN StatusEvent(i, task[i].held, task[i].status, TRUE)
                        ELSE ErrorEvent(i))
  /\ UNCHANGED cache /\ TaskUnchanged

Task(i) == Discover(i) \/ FromCache(i) \/ RunGit(i) \/ GitEnds(i) \/ GitFails(i) \/ Finish(i)

----------------------------------------------------------------------------
(* The frontend.                                                           *)

\* GitStatusRefresh() of a tree that is open: the timer starts, or starts anew.
GitStatusRefresh == gitTimer' = (gitTimer \/ (open' /\ gitOn' /\ alive'))

DispatchUnchanged == UNCHANGED <<diskVars, alive, daemonVars, sessionVars, gitTimer>>

\* OnFsEvent(): once the tree is closed nobody asks.
OnFsEvent(ev) ==
  /\ ev.type = "fs_event"
  /\ dirs' = IF open THEN dirs \cup ev.dirs ELSE dirs
  /\ UNCHANGED <<requestVars, shown>>

\* Mutant: whatever arrives is shown.
OnGitStatusOfAny(ev) ==
  /\ ev.type = "git_status"
  /\ bcbs' = IF ev.done THEN bcbs \ {ev.id} ELSE bcbs
  /\ IF ~open THEN UNCHANGED <<awaitingFirst, shown>>
     ELSE /\ awaitingFirst' = FALSE
          /\ shown' = [r \in Repos |-> IF r = ev.repo THEN ev.status
                                       ELSE IF awaitingFirst THEN NoStatus ELSE shown[r]]
  /\ UNCHANGED <<requestId, dirs>>

\* Mutant: the first answer does not clear what an earlier request has shown.
OnGitStatusExtending(ev) ==
  /\ ev.type = "git_status"
  /\ bcbs' = IF ev.id # requestId \/ ev.done THEN bcbs \ {ev.id} ELSE bcbs
  /\ IF ev.id # requestId \/ ~open THEN UNCHANGED <<awaitingFirst, shown>>
     ELSE awaitingFirst' = FALSE /\ shown' = [shown EXCEPT ![ev.repo] = ev.status]
  /\ UNCHANGED <<requestId, dirs>>

\* OnGitStatusEvent(): answers to another request than the last are dropped;
\* the first of an answer clears what was shown before.
OnGitStatus(ev) ==
  /\ ev.type = "git_status"
  /\ bcbs' = IF ev.id # requestId \/ ev.done THEN bcbs \ {ev.id} ELSE bcbs
  /\ IF ev.id # requestId \/ ~open THEN UNCHANGED <<awaitingFirst, shown>>
     ELSE /\ awaitingFirst' = FALSE
          /\ shown' = [r \in Repos |-> IF r = ev.repo THEN ev.status
                                       ELSE IF awaitingFirst THEN NoStatus ELSE shown[r]]
  /\ UNCHANGED <<requestId, dirs>>

\* The error callback of SendGitStatus(): without a first answer the marks are
\* those of an earlier question.
OnGitError(ev) ==
  /\ ev.type = "error"
  /\ bcbs' = bcbs \ {ev.id}
  /\ IF ev.id \in bcbs /\ ev.id = requestId /\ awaitingFirst
     THEN awaitingFirst' = FALSE /\ shown' = [r \in Repos |-> NoStatus]
     ELSE UNCHANGED <<awaitingFirst, shown>>
  /\ UNCHANGED <<requestId, dirs>>

\* DispatchLine()
Dispatch ==
  /\ out # <<>> /\ out' = Tail(out)
  /\ OnFsEvent(Head(out)) \/ OnGitStatus(Head(out)) \/ OnGitError(Head(out))
  /\ DispatchUnchanged

\* Mutant: the directories of this tick are kept for the next event.
FsTimerWaiting ==
  /\ dirs # {} /\ dirs' = {} /\ UNCHANGED gitTimer
  /\ UNCHANGED <<diskVars, alive, daemonVars, out, sessionVars, requestVars, shown>>

\* The timer of OnFsEvent(): RefreshDirs() of what the tree shows.
FsTimer ==
  /\ dirs # {} /\ dirs' = {}
  /\ UNCHANGED <<diskVars, alive, daemonVars, out, sessionVars, requestVars, shown>>
  /\ IF open /\ dirs \cap Covered(root) # {} THEN GitStatusRefresh ELSE UNCHANGED gitTimer

\* The timer of GitStatusRefresh(): SendGitStatus() of the root there is now.
\* The request cannot be sent when the daemon has gone.
GitTimer ==
  /\ gitTimer /\ gitTimer' = FALSE
  /\ Sent < MaxRequests
  /\ requestId' = Sent + 1 /\ awaitingFirst' = TRUE
  /\ task' = [task EXCEPT ![Sent + 1] =
                [NoTask EXCEPT !.at = IF alive THEN "sent" ELSE "over", !.root = root]]
  /\ bcbs' = IF alive THEN bcbs \cup {Sent + 1} ELSE bcbs
  /\ UNCHANGED <<diskVars, alive, cache, burst, told, out, sessionVars, dirs, shown>>

Call == calls < MaxCalls /\ calls' = calls + 1

\* Mutant: the request under way is not disowned.
DiscardRootKeepingRequest ==
  /\ shown' = [r \in Repos |-> NoStatus]
  /\ UNCHANGED <<requestId, awaitingFirst>>

\* DiscardRootScopedState()
DiscardRootScopedState ==
  /\ shown' = [r \in Repos |-> NoStatus]
  /\ requestId' = 0 /\ awaitingFirst' = FALSE

\* SetRoot(), whose opts may turn the marks off.
SetRoot ==
  /\ Call /\ root' \in Roots /\ gitOn' \in BOOLEAN
  /\ DiscardRootScopedState
  /\ UNCHANGED <<diskVars, open, alive, daemonVars, out, bcbs, dirs>>
  /\ GitStatusRefresh

\* Toggle() of a closed tree.
Open ==
  /\ Call /\ ~open /\ open' = TRUE
  /\ \/ UNCHANGED <<root, gitOn, requestId, awaitingFirst, shown>>
     \/ root' \in Roots \ {root} /\ gitOn' = TRUE /\ DiscardRootScopedState
  /\ UNCHANGED <<diskVars, alive, daemonVars, out, bcbs, dirs>>
  /\ GitStatusRefresh

\* EndFrontendSession() and CancelFrontendWork()
Close ==
  /\ Call /\ open /\ open' = FALSE
  /\ dirs' = {} /\ gitTimer' = FALSE /\ bcbs' = {}
  /\ UNCHANGED <<diskVars, alive, daemonVars, out, root, gitOn, requestId, awaitingFirst, shown>>

\* A file is saved, or a file operation has ended: UpdateDecorations() and
\* InvalidateAndRescan().
Saved ==
  /\ Call /\ UNCHANGED <<open, root, gitOn, alive>> /\ GitStatusRefresh
  /\ UNCHANGED <<diskVars, daemonVars, out, requestVars, dirs, shown>>

\* The daemon is gone: OnBackendExit().
Exit ==
  /\ Call /\ alive /\ alive' = FALSE
  /\ cache' = [r \in Repos |-> NoEntry] /\ burst' = {} /\ out' = <<>>
  /\ task' = [i \in Requests |-> IF task[i] = NoTask THEN NoTask ELSE [task[i] EXCEPT !.at = "over"]]
  /\ bcbs' = {} /\ shown' = [r \in Repos |-> NoStatus]
  /\ UNCHANGED <<diskVars, told, open, root, gitOn, requestId, awaitingFirst, dirs, gitTimer>>

\* The next one answers the handshake: ApplyCapabilities().
Restarted ==
  /\ ~alive /\ alive' = TRUE
  /\ UNCHANGED <<diskVars, daemonVars, out, requestVars, sessionVars, dirs, shown>>
  /\ GitStatusRefresh

----------------------------------------------------------------------------
Next ==
  \/ \E r \in Repos : Change(r) \/ Age(r)
  \/ \E i \in Requests : Task(i)
  \/ Debounce \/ Dispatch \/ FsTimer \/ GitTimer
  \/ SetRoot \/ Open \/ Close \/ Saved \/ Exit \/ Restarted

Spec == Init /\ [][Next]_vars

\* Tasks are polled, git ends or is timed out, timers fire and Vim reads; a
\* change, an expiry, a command and a new daemon are owed to nobody.
Fairness ==
  /\ WF_vars(Debounce) /\ WF_vars(Dispatch) /\ WF_vars(FsTimer) /\ WF_vars(GitTimer)
  /\ \A i \in Requests : WF_vars(Task(i))

FairSpec == Spec /\ Fairness

----------------------------------------------------------------------------
(* Properties.                                                             *)

Statuses == [version : Nat, raced : BOOLEAN, of : Requests \cup {0}]
Tasks == [at : {"none", "sent", "loop", "run", "over"}, root : Roots \cup {0}, scope : Nat \ {0},
          held : Repos \cup {0}, status : Statuses, run : Statuses]
Events == [type : {"fs_event"}, dirs : SUBSET Repos]
          \cup [type : {"git_status"}, id : Requests, repo : Repos, status : Statuses, done : BOOLEAN]
          \cup [type : {"error"}, id : Requests]

\* Types.  A task never looks further than one past its last repository.
TypeOK ==
  /\ disk \in [Repos -> Nat \ {0}] /\ alive \in BOOLEAN /\ out \in Seq(Events)
  /\ cache \in [Repos -> [status : Statuses, dirty : BOOLEAN, aged : BOOLEAN]]
  /\ burst \subseteq Repos /\ told \in [Repos -> Nat] /\ task \in [Requests -> Tasks]
  /\ \A i \in Requests : task[i].root # 0 => task[i].scope <= Len(Scopes(i)) + 1
  /\ open \in BOOLEAN /\ root \in Roots /\ gitOn \in BOOLEAN
  /\ dirs \subseteq Repos /\ gitTimer \in BOOLEAN
  /\ requestId \in Requests \cup {0} /\ awaitingFirst \in BOOLEAN /\ bcbs \subseteq Requests
  /\ shown \in [Repos -> Statuses]
  /\ changes \in 0..MaxChanges /\ calls \in 0..MaxCalls

\* The marks on the screen are those of one request, which was for the root on
\* the screen: late answers and earlier roots leave none behind.
MarksOfOneAnswer ==
  \A r \in Repos : shown[r] # NoStatus =>
    /\ task[shown[r].of].root = root
    /\ \A q \in Repos : shown[q] # NoStatus => shown[q].of = shown[r].of

\* A callback is waiting only while its request is at work or its last event
\* is on the way.
CallbacksEnd ==
  \A i \in bcbs : task[i].at # "over" \/
    \E k \in 1..Len(out) : \/ out[k].type = "git_status" /\ out[k].id = i /\ out[k].done
                           \/ out[k] = ErrorEvent(i)

\* Once the user leaves the tree alone, every repository whose git works
\* is shown with all that was announced, unless the run it is shown from had
\* a change announced while git was reading.  (A timer that the bound on
\* requests holds up is not owed anything.)
MarksSettle ==
  \A r \in Repos \ Flaky :
    <>[](open /\ alive /\ gitOn /\ r \in Covered(root) /\ ~gitTimer
           => shown[r] # NoStatus /\ (shown[r].version >= told[r] \/ shown[r].raced))
=============================================================================
