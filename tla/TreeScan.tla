------------------------------ MODULE TreeScan ------------------------------
(***************************************************************************)
(* The tree's listings: what the frontend scans, cancels, times out,       *)
(* caches and watches (autoload/simpletree.vim), over a daemon that keeps  *)
(* the promise of FreshListing and may die at any time.                    *)
(*                                                                         *)
(* The tree is a root and one directory below it, which the first page of  *)
(* the root's listing names.  A listing is a version of its directory, in  *)
(* two pages; pages are shown as they come, as they are for the order by   *)
(* name.  Commands, timers and lines change the plugin's script variables, *)
(* ui, as a whole: what the functions they call do to them is the          *)
(* operators on u below.  Polling by modification time, reveals and        *)
(* metadata are left out, and so is the session number of a callback:      *)
(* closing the tree throws its callbacks away.                             *)
(***************************************************************************)
EXTENDS Integers, Sequences, FiniteSets

CONSTANTS
  Root, Sub,    \* the two directories
  MaxRequests,  \* bound: list requests
  MaxChanges,   \* bound: changes on disk
  MaxCalls      \* bound: commands and exits

Dirs == {Root, Sub}
Requests == 1..MaxRequests

ASSUME TreeAssumption ==
  Root # Sub /\ MaxRequests \in Nat /\ MaxChanges \in Nat /\ MaxCalls \in Nat

NoList == [ver |-> 0, whole |-> FALSE, by |-> 0]
NoCallback == [dir |-> Root, live |-> FALSE, keep |-> FALSE, acc |-> NoList]
NoTask == [at |-> "none", dir |-> Root, floor |-> 0, ver |-> 0]

VARIABLES
  ui,        \* the script variables, the daemon's state as the supervisor has it,
             \* and the lines on their way to the daemon
  disk,      \* disk[d]: the version of d, from 1
  watches,   \* directories the daemon watches
  news,      \* watched directories with changes it has not announced
  announced, \* announced[d]: d's version in the last fs_event about it
  task,      \* task[r]: the daemon's work on list request r
  out,       \* lines on their way to Vim
  told,      \* history: told[d], what an fs_event said of d in this session
  leftover,  \* history: listings cut short by OnCollapseAll()
  changes, calls

daemonVars == <<watches, news, announced, task>>
vars == <<ui, disk, daemonVars, out, told, leftover, changes, calls>>

\* A tree that has been opened: its root is listed and watched.
Init ==
  /\ ui = [open |-> TRUE, expanded |-> {Root},
           cache |-> [d \in Dirs |-> IF d = Root THEN [NoList EXCEPT !.ver = 1, !.whole = TRUE] ELSE NoList],
           loading |-> {}, pending |-> [d \in Dirs |-> 0], errors |-> {},
           watched |-> {Root}, watchFailed |-> {}, watchCallbacks |-> {},
           bcbs |-> [r \in Requests |-> NoCallback], next |-> 1,
           fsDirs |-> {}, render |-> FALSE,
           daemon |-> "ready", tripped |-> FALSE, stdin |-> <<>>]
  /\ disk = [d \in Dirs |-> 1] /\ watches = {Root} /\ news = {} /\ announced = [d \in Dirs |-> 1]
  /\ task = [r \in Requests |-> NoTask] /\ out = <<>>
  /\ told = [d \in Dirs |-> 0] /\ leftover = {}
  /\ changes = 0 /\ calls = 0

----------------------------------------------------------------------------
(* What the plugin's functions do to its variables u.                      *)

BSend(u, line) == IF u.daemon = "down" THEN u ELSE [u EXCEPT !.stdin = Append(@, line)]

\* OnBackendStart() and the exit forget what a daemon had been asked.
ResetBackendSessionState(u) == [u EXCEPT !.watched = {}, !.watchFailed = {}]

\* BEnsureBackend(): the supervisor starts a daemon unless it has given up.
Ensure(u) ==
  IF u.daemon # "down" \/ u.tripped THEN u
  ELSE [ResetBackendSessionState(u) EXCEPT !.daemon = "up"]

\* Mutant: the daemon is told, the callback stays.
BCancelKeeping(u, r) == BSend(u, [type |-> "cancel", id |-> r])

BCancel(u, r) == BSend([u EXCEPT !.bcbs[r] = NoCallback], [type |-> "cancel", id |-> r])

CancelPending(u, d) ==
  IF u.pending[d] = 0 THEN u ELSE [BCancel(u, u.pending[d]) EXCEPT !.pending[d] = 0]

\* Every pending request is cancelled.
CancelAll(u) == CancelPending(CancelPending(u, Root), Sub)

\* Mutant: a watch that has failed is tried again.
WatchDirAgain(u, d) ==
  IF u.daemon # "ready" \/ d \in u.watched THEN u
  ELSE BSend([u EXCEPT !.watched = @ \cup {d}, !.watchCallbacks = @ \cup {d}], [type |-> "watch", dir |-> d])

\* WatchDir(), once the daemon has said that it can.
WatchDir(u, d) ==
  IF u.daemon # "ready" \/ d \in u.watched \cup u.watchFailed THEN u
  ELSE BSend([u EXCEPT !.watched = @ \cup {d}, !.watchCallbacks = @ \cup {d}], [type |-> "watch", dir |-> d])

UnwatchDir(u, d) ==
  IF d \notin u.watched THEN u
  ELSE BSend([u EXCEPT !.watched = @ \ {d}], [type |-> "unwatch", dir |-> d])

WatchExpandedDirs(u) ==
  LET w == WatchDir(u, Root) IN IF Sub \in u.expanded THEN WatchDir(w, Sub) ELSE w

\* The callback for an error, a timeout included; the entry goes with it.
OnError(u, r) ==
  LET d == u.bcbs[r].dir IN
  [u EXCEPT !.bcbs[r] = NoCallback, !.loading = @ \ {d}, !.cache[d] = NoList,
            !.errors = @ \cup {d}, !.render = TRUE,
            !.pending[d] = IF @ = r THEN 0 ELSE @]

\* Mutant: a forced scan trusts what there is, too.
ScanDirTrusting(u, d, force) ==
  IF ~u.open \/ u.cache[d] # NoList \/ d \in u.errors \cup u.loading THEN u
  ELSE LET v == Ensure(CancelPending(u, d)) IN
       IF v.daemon = "down" THEN [v EXCEPT !.errors = @ \cup {d}, !.render = TRUE]
       ELSE BSend([v EXCEPT !.loading = @ \cup {d}, !.pending[d] = v.next, !.next = @ + 1,
                            !.bcbs[v.next] = [dir |-> d, live |-> TRUE, keep |-> FALSE, acc |-> NoList]],
                  [type |-> "list", id |-> v.next, dir |-> d])

\* ScanDirAsync(): forced, it scans whatever there is, and keeps showing it
\* until the new listing is whole.  BList() fails if no daemon can be started.
ScanDirAsync(u, d, force) ==
  IF ~u.open \/ (~force /\ (u.cache[d] # NoList \/ d \in u.errors \cup u.loading)) THEN u
  ELSE LET v == Ensure(CancelPending([u EXCEPT !.errors = @ \ {d}], d)) IN
       IF v.daemon = "down"
       THEN [v EXCEPT !.loading = @ \ {d}, !.cache[d] = NoList, !.errors = @ \cup {d}, !.render = TRUE]
       ELSE BSend([v EXCEPT !.loading = @ \cup {d}, !.pending[d] = v.next, !.next = @ + 1,
                            !.bcbs[v.next] = [dir |-> d, live |-> TRUE, keep |-> u.cache[d] # NoList, acc |-> NoList]],
                  [type |-> "list", id |-> v.next, dir |-> d])

\* A page.
OnChunk(u, r, ver) ==
  LET d == u.bcbs[r].dir
      acc == [ver |-> ver, whole |-> FALSE, by |-> r] IN
  [u EXCEPT !.bcbs[r].acc = acc, !.errors = @ \ {d},
            !.cache[d] = IF u.bcbs[r].keep THEN @ ELSE acc,
            !.render = @ \/ ~u.bcbs[r].keep]

\* Mutant: only the pages that came last are shown.
OnDoneForgetting(u, r) ==
  LET d == u.bcbs[r].dir IN
  WatchDir([u EXCEPT !.bcbs[r] = NoCallback, !.loading = @ \ {d}, !.render = TRUE,
                     !.pending[d] = IF @ = r THEN 0 ELSE @], d)

\* The last page: the listing replaces what there was, and is watched from now on.
OnDone(u, r) ==
  LET d == u.bcbs[r].dir IN
  WatchDir([u EXCEPT !.bcbs[r] = NoCallback, !.loading = @ \ {d}, !.render = TRUE,
                     !.cache[d] = [u.bcbs[r].acc EXCEPT !.whole = TRUE],
                     !.pending[d] = IF @ = r THEN 0 ELSE @], d)

\* Render(): a directory that is to be shown and has nothing is scanned.
Render(u) ==
  LET v == ScanDirAsync([u EXCEPT !.render = FALSE], Root, FALSE) IN
  IF ~u.open THEN u
  ELSE IF v.cache[Root] # NoList /\ Sub \in v.expanded THEN ScanDirAsync(v, Sub, FALSE) ELSE v

InvalidateAndRescan(u, d) ==
  LET v == [CancelPending(u, d) EXCEPT !.cache[d] = NoList, !.loading = @ \ {d}, !.errors = @ \ {d}] IN
  IF d \in u.expanded THEN ScanDirAsync(v, d, FALSE) ELSE v

\* Mutant: a scan that is under way is taken to have seen the change.
RefreshDirUnlessLoading(u, d) ==
  IF d \in u.loading THEN u
  ELSE IF d \in u.expanded THEN ScanDirAsync(u, d, TRUE)
  ELSE [CancelPending(u, d) EXCEPT !.cache[d] = NoList, !.errors = @ \ {d}, !.loading = @ \ {d}]

\* RefreshDirs() of one directory.
RefreshDir(u, d) ==
  IF d \in u.expanded THEN ScanDirAsync(u, d, TRUE)
  ELSE [CancelPending(u, d) EXCEPT !.cache[d] = NoList, !.errors = @ \ {d}, !.loading = @ \ {d}]

ClearBackendCallbacks(u) ==
  [u EXCEPT !.bcbs = [r \in Requests |-> NoCallback], !.watchCallbacks = {}]

----------------------------------------------------------------------------
(* The frontend's commands, timers and lines.                              *)

DiskUnchanged == UNCHANGED <<disk, changes>>
Call == calls < MaxCalls /\ calls' = calls + 1

\* A step of the plugin; the bound leaves out those that would need more
\* requests than there are.
Do(u) == ui' = u /\ ui'.next <= MaxRequests + 1

CommandUnchanged == DiskUnchanged /\ UNCHANGED <<daemonVars, out>>

\* Toggle() of a closed tree.
Open ==
  /\ Call /\ ~ui.open
  /\ LET u == Ensure([ui EXCEPT !.open = TRUE]) IN
     Do(IF u.daemon = "down" THEN u
        ELSE Render(ScanDirAsync(WatchExpandedDirs(u), Root, FALSE)))
  /\ UNCHANGED <<told, leftover>> /\ CommandUnchanged

\* CancelFrontendWork(): pages without an end are no listing.
CancelFrontendWork(u) ==
  [ClearBackendCallbacks(CancelAll(u)) EXCEPT
     !.cache = [d \in Dirs |-> IF d \in u.loading THEN NoList ELSE u.cache[d]],
     !.loading = {}, !.fsDirs = {}, !.render = FALSE]

\* EndFrontendSession()
Close ==
  /\ Call /\ ui.open
  /\ Do(CancelFrontendWork([UnwatchDir(UnwatchDir(ui, Root), Sub) EXCEPT
                              !.open = FALSE, !.watchFailed = {}]))
  /\ told' = [d \in Dirs |-> 0]
  /\ leftover' = leftover \ {d \in Dirs : ui'.cache[d] = NoList}
  /\ CommandUnchanged

\* ToggleDir()
ToggleDir ==
  /\ Call /\ ui.open /\ ui.cache[Root] # NoList
  /\ IF Sub \in ui.expanded
     THEN Do(Render(UnwatchDir([ui EXCEPT !.expanded = @ \ {Sub}], Sub)))
     ELSE LET u == [ui EXCEPT !.expanded = @ \cup {Sub}] IN
          Do(Render(IF u.cache[Sub] = NoList /\ Sub \notin u.loading
                    THEN ScanDirAsync(u, Sub, FALSE) ELSE WatchDir(u, Sub)))
  /\ UNCHANGED <<told, leftover>> /\ CommandUnchanged

\* OnCollapseAll(): all but the root.
OnCollapseAll ==
  /\ Call /\ ui.open
  /\ Do(Render(UnwatchDir([CancelPending(ui, Sub) EXCEPT !.expanded = {Root}, !.loading = @ \ {Sub}], Sub)))
  /\ leftover' = IF Sub \in ui.loading THEN leftover \cup {Sub} ELSE leftover
  /\ UNCHANGED told /\ CommandUnchanged

\* Refresh()
Refresh ==
  /\ Call /\ ui.open
  /\ Do(Render(ScanDirAsync([CancelAll(ui) EXCEPT
                               !.loading = {}, !.cache = [d \in Dirs |-> NoList], !.errors = {}], Root, FALSE)))
  /\ leftover' = {} /\ UNCHANGED told /\ CommandUnchanged

\* A file operation has ended in d.
FileOpDone ==
  /\ Call /\ ui.open
  /\ \E d \in Dirs : Do(Render(InvalidateAndRescan(ui, d))) /\ leftover' = leftover \ {d}
  /\ UNCHANGED told /\ CommandUnchanged

RenderTimer ==
  /\ ui.render /\ Do(Render(ui))
  /\ UNCHANGED <<told, leftover, calls>> /\ CommandUnchanged

\* The timer of OnFsEvent(): RefreshDirs().
FsTimer ==
  /\ ui.fsDirs # {}
  /\ LET u == [ui EXCEPT !.fsDirs = {}, !.render = TRUE]
         v == IF Root \in ui.fsDirs THEN RefreshDir(u, Root) ELSE u IN
     Do(IF Sub \in ui.fsDirs THEN RefreshDir(v, Sub) ELSE v)
  /\ leftover' = leftover \ ui.fsDirs
  /\ UNCHANGED <<told, calls>> /\ CommandUnchanged

\* ListRequestTimedOut(): the daemon is told, and the scan has failed.
ListRequestTimedOut(r) ==
  /\ ui.bcbs[r].live
  /\ Do(OnError(BSend(ui, [type |-> "cancel", id |-> r]), r))
  /\ UNCHANGED <<told, leftover, calls>> /\ CommandUnchanged

\* DispatchLine()
Dispatch ==
  /\ out # <<>> /\ out' = Tail(out)
  /\ LET ev == Head(out) IN
     \/ /\ ev.type = "list_chunk"
        /\ LET u == IF ui.bcbs[ev.id].live THEN OnChunk(ui, ev.id, ev.ver) ELSE ui IN
           Do(IF ui.bcbs[ev.id].live /\ ev.done THEN OnDone(u, ev.id) ELSE u)
        /\ leftover' = IF ui.bcbs[ev.id].live /\ ev.done THEN leftover \ {ui.bcbs[ev.id].dir} ELSE leftover
        /\ UNCHANGED told
     \/ /\ ev.type = "error"
        /\ Do(IF ui.bcbs[ev.id].live THEN OnError(ui, ev.id) ELSE ui)
        /\ UNCHANGED <<told, leftover>>
     \/ /\ ev.type = "watch_failed"
        /\ Do(IF ev.dir \in ui.watchCallbacks
              THEN [ui EXCEPT !.watched = @ \ {ev.dir}, !.watchFailed = @ \cup {ev.dir},
                              !.watchCallbacks = @ \ {ev.dir}]
              ELSE ui)
        /\ UNCHANGED <<told, leftover>>
     \/ /\ ev.type = "fs_event"
        /\ Do(IF ui.open THEN [ui EXCEPT !.fsDirs = @ \cup {ev.dir}] ELSE ui)
        /\ told' = IF ui.open THEN [told EXCEPT ![ev.dir] = ev.ver] ELSE told
        /\ UNCHANGED leftover
  /\ UNCHANGED <<disk, daemonVars, changes, calls>>

\* The pong: ApplyCapabilities().
Pong ==
  /\ ui.daemon = "up" /\ Do(WatchExpandedDirs([ui EXCEPT !.daemon = "ready"]))
  /\ UNCHANGED <<told, leftover, calls>> /\ CommandUnchanged

\* Mutant: scans that were under way are forgotten, and nothing else.
BackendCrashedForgetting(u) ==
  LET v == [CancelAll(u) EXCEPT !.pending = [d \in Dirs |-> 0]] IN IF u.open THEN Render(v) ELSE v

\* BackendCrashed(), after FailPendingFsOps(): what was being scanned has failed.
BackendCrashed(u) ==
  LET v == [CancelAll(u) EXCEPT
              !.loading = {}, !.errors = @ \cup u.loading,
              !.cache = [d \in Dirs |-> IF d \in u.loading THEN NoList ELSE u.cache[d]]] IN
  IF u.open THEN Render(v) ELSE v

\* The daemon is gone: OnBackendExit(), with the breaker tripped by this exit or
\* not, and a file operation in some directory waiting or not.
Exit ==
  /\ Call /\ ui.daemon # "down"
  /\ \E t \in BOOLEAN, ops \in {{}, {Root}, {Sub}} :
       LET u == ResetBackendSessionState(ClearBackendCallbacks(
                  [ui EXCEPT !.daemon = "down", !.tripped = t, !.stdin = <<>>])) IN
       /\ Do(BackendCrashed(IF ops = {} THEN u ELSE InvalidateAndRescan(u, CHOOSE d \in ops : TRUE)))
       /\ leftover' = leftover \ {d \in Dirs : ui'.cache[d] = NoList}
  /\ out' = <<>> /\ watches' = {} /\ news' = {}
  /\ task' = [r \in Requests |-> NoTask]
  /\ UNCHANGED <<told, announced>> /\ DiskUnchanged

\* The restart timer of the supervisor.
RestartTimer ==
  /\ ui.daemon = "down" /\ ~ui.tripped /\ Do(Ensure(ui))
  /\ UNCHANGED <<told, leftover, calls>> /\ CommandUnchanged

----------------------------------------------------------------------------
(* The daemon, and the disk.                                               *)

DaemonUnchanged == UNCHANGED <<disk, changes, told, leftover, calls>>

\* The next line.  What a request may be answered with depends on what has
\* been announced when it is made: FreshListing!Ask.
Accept ==
  /\ ui.daemon # "down" /\ ui.stdin # <<>>
  /\ ui' = [ui EXCEPT !.stdin = Tail(@)]
  /\ LET line == Head(ui.stdin) IN
     \/ /\ line.type = "list"
        /\ task' = [task EXCEPT ![line.id] =
                      [at |-> "asked", dir |-> line.dir, floor |-> announced[line.dir], ver |-> 0]]
        /\ UNCHANGED <<watches, news, out>>
     \/ /\ line.type = "cancel"
        /\ task' = [task EXCEPT ![line.id] = [NoTask EXCEPT !.at = "over"]]
        /\ UNCHANGED <<watches, news, out>>
     \/ /\ line.type = "watch"
        /\ \/ watches' = watches \cup {line.dir} /\ UNCHANGED out
           \/ out' = Append(out, [type |-> "watch_failed", dir |-> line.dir]) /\ UNCHANGED watches
        /\ UNCHANGED <<task, news>>
     \/ /\ line.type = "unwatch"
        /\ watches' = watches \ {line.dir} /\ news' = news \ {line.dir}
        /\ UNCHANGED <<task, out>>
  /\ UNCHANGED announced /\ DaemonUnchanged

\* The listing has been made, of any version that FreshListing!Answer allows,
\* and its first page is sent; or it cannot be made.
Scan(r) ==
  /\ task[r].at = "asked"
  /\ \/ \E v \in task[r].floor..disk[task[r].dir] :
          /\ task' = [task EXCEPT ![r].at = "paging", ![r].ver = v]
          /\ out' = Append(out, [type |-> "list_chunk", id |-> r, ver |-> v, done |-> FALSE])
     \/ /\ task' = [task EXCEPT ![r] = [NoTask EXCEPT !.at = "over"]]
        /\ out' = Append(out, [type |-> "error", id |-> r])
  /\ UNCHANGED <<ui, watches, news, announced>> /\ DaemonUnchanged

LastPage(r) ==
  /\ task[r].at = "paging" /\ task' = [task EXCEPT ![r] = [NoTask EXCEPT !.at = "over"]]
  /\ out' = Append(out, [type |-> "list_chunk", id |-> r, ver |-> task[r].ver, done |-> TRUE])
  /\ UNCHANGED <<ui, watches, news, announced>> /\ DaemonUnchanged

\* FreshListing!Change and !Announce.
Change(d) ==
  /\ changes < MaxChanges /\ changes' = changes + 1
  /\ disk' = [disk EXCEPT ![d] = @ + 1]
  /\ news' = IF d \in watches THEN news \cup {d} ELSE news
  /\ UNCHANGED <<ui, watches, announced, task, out, told, leftover, calls>>

Announce(d) ==
  /\ d \in news /\ news' = news \ {d}
  /\ announced' = [announced EXCEPT ![d] = disk[d]]
  /\ out' = Append(out, [type |-> "fs_event", dir |-> d, ver |-> disk[d]])
  /\ UNCHANGED <<ui, watches, task>> /\ DaemonUnchanged

----------------------------------------------------------------------------
Command == Open \/ Close \/ ToggleDir \/ OnCollapseAll \/ Refresh \/ FileOpDone

\* What Vim's event loop comes to, and what a living daemon does by itself.
Loop ==
  \/ RenderTimer \/ FsTimer \/ Dispatch \/ Pong
  \/ \E r \in Requests : ListRequestTimedOut(r)

Daemon ==
  \/ Accept
  \/ \E r \in Requests : Scan(r) \/ LastPage(r)
  \/ \E d \in Dirs : Announce(d)

Next ==
  \/ Command \/ Loop \/ Daemon
  \/ Exit \/ RestartTimer
  \/ \E d \in Dirs : Change(d)

Spec == Init /\ [][Next]_vars

\* Nothing more than that Vim and the daemon go on while they have something to do.
Fairness == WF_vars(Loop) /\ WF_vars(Daemon)

FairSpec == Spec /\ Fairness

----------------------------------------------------------------------------
(* Properties.                                                             *)

Shown(d) == ui.open /\ (d = Root \/ (Sub \in ui.expanded /\ ui.cache[Root] # NoList))

\* Types.  A directory is not both watched and known to be beyond watching.
TypeOK ==
  /\ ui.open \in BOOLEAN /\ Root \in ui.expanded /\ ui.expanded \subseteq Dirs
  /\ ui.cache \in [Dirs -> [ver : Nat, whole : BOOLEAN, by : Requests \cup {0}]]
  /\ ui.pending \in [Dirs -> Requests \cup {0}] /\ ui.next \in 1..(MaxRequests + 1)
  /\ ui.watched \cup ui.watchFailed \cup ui.watchCallbacks \cup ui.fsDirs \cup ui.errors \subseteq Dirs
  /\ ui.watched \cap ui.watchFailed = {}
  /\ ui.daemon \in {"down", "up", "ready"}
  /\ ui.loading \subseteq Dirs
  /\ watches \cup news \subseteq Dirs /\ announced \in [Dirs -> Nat \ {0}]
  /\ \A r \in Requests : task[r].at \in {"none", "asked", "paging", "over"}

\* A directory that is marked as being scanned has its own request waiting with
\* a callback and a timeout: nothing else would ever end the scan.
ScansAnswerable ==
  /\ ui.loading = {d \in Dirs : ui.pending[d] # 0}
  /\ \A d \in ui.loading : LET r == ui.pending[d] IN ui.bcbs[r].live /\ ui.bcbs[r].dir = d

\* A listing in the cache is whole and as new as the last fs_event about its
\* directory; if not, the directory is being scanned, or waits for the timer that
\* has it scanned again, or OnCollapseAll() has cut the listing short.
CacheCurrent ==
  \A d \in Dirs : ui.cache[d] # NoList =>
    \/ d \in ui.loading \cup leftover
    \/ ui.cache[d].whole /\ (d \in ui.fsDirs \/ ui.cache[d].ver >= told[d])

\* What comes into the cache comes from the one scan that is under way for the
\* directory, never from one that was cancelled, timed out or given up.
OnlyCurrentScan ==
  [][\A d \in Dirs : (ui'.cache[d] # ui.cache[d] /\ ui'.cache[d] # NoList)
       => ui'.cache[d].by = ui.pending[d] /\ ui.pending[d] # 0]_vars

\* Once the user leaves the tree alone, what is shown of a directory is at
\* least as new as the last fs_event about it, or says that it has failed,
\* unless OnCollapseAll() has cut its scan short or the supervisor has given up.
\* (A timer that the bound on requests holds up is not owed anything.)
TreeSettles ==
  \A d \in Dirs :
    <>[]((Shown(d) /\ ui.fsDirs = {} /\ ~ui.render /\ ~ui.tripped) =>
           \/ d \in ui.errors \cup leftover
           \/ ui.cache[d] # NoList /\ ui.cache[d].ver >= told[d])
=============================================================================
