# Verification of simpletree

TLA+ models of simpletree (a file tree for Vim9: a Vim frontend, a supervisor for
its daemon, and the Rust daemon `simpletree-daemon`), the TLC runs that check
them on small instances, and proofs, checked by TLAPS, of what holds for every
instance. Every definition is translated from the source; `PROJECT.json` maps
each to its lines.

## The system

| Component | Source | State it keeps | Operations |
| --- | --- | --- | --- |
| request loop | `simpletree_daemon.rs`, `server.rs` | active requests by id and generation, scan permits, request tasks | accept, supersede, cancel, refuse, drain, exit |
| output path | `server.rs` | bounded stdout queue, the stall bit | send with a deadline, write, stall |
| listing | `scan.rs` | scan cache with an epoch | scan, store, evict, clear, page out |
| watch service | `watch.rs` | watched directories, raw changes, the debounced burst | watch, unwatch, map, debounce, announce |
| git status | `git.rs` | statuses per repository, dirty marks | discover, run git, parse, aggregate, cache |
| file operations | `fsops.rs` | staged copies and backups on disk | copy, move, remove, roll back |
| search | `search.rs` | a walker and its batch channel | walk, match, stream, cancel |
| supervisor | `autoload/simpletree/core.vim` | job and generation, restart intent, breaker, timers | Ensure, Stop, Restart, OnExit |
| backend session | `autoload/simpletree.vim` | capabilities, list and fs_op callbacks | dispatch, time out, fail on exit |
| tree | `autoload/simpletree.vim` | listings, scans under way, watches, expansion, render cache | scan, refresh, reveal, filter, render |
| file commands | `autoload/simpletree.vim` | clipboard, paste jobs, buffer renames | copy, cut, paste, rename, delete |
| persistence | `autoload/simpletree.vim` | bookmarks, marks, session state file | load, merge, save |

The frontend sends JSON lines to the daemon's stdin through the supervisor and
gets JSON lines back. In the daemon one thread runs the request loop, the
request tasks, the debounce task and the writer, interleaved at their awaits;
blocking work (scans, searches, file operations) and the watcher's callback run
on other threads. In Vim one thread runs commands, timers and callbacks, each to
its end.

What makes it hard: listings cached while the disk changes and watches come and
go; ids that are reused while the older request still runs; a bounded queue
between a client that may stop reading and tasks that must end; file operations
that may fail, be cancelled or be killed between any two calls; a daemon that
dies at any time while its exit, its last lines and the timers about it arrive
late; and a frontend that goes on meanwhile.

What makes each part correct:

- listing and watches: a cached listing that is out of date is invalidated; an
  answer is never older than what the client had been told;
- request loop and output path: the table and the tasks agree; nothing of a
  superseded request enters the queue once the newer one is accepted (what was
  queued before is still written, ahead of the newer one's events); every request
  ends; the daemon exits at the end of its input;
- file operations: the target is never truncated, the source never lost, the
  reply true;
- supervisor: one daemon, and no other lost; no start that nobody wants; a promised
  start happens; a crash loop stops; no fs_op outlives its daemon;
- session and tree: every callback is called once; no scan stays loading; what
  is shown is of the current root, session and daemon;
- git status: a change marked while git runs is not lost;
- search: a cancelled search gives its permit back;
- paste: what was cut and not moved stays in the clipboard, and nothing is
  replaced that the user was not asked about;
- persistence: two Vims do not lose each other's state.

## Modules

- `FreshListing` is what a client may rely on: a list is answered with
  a listing at least as new as every `fs_event` sent before it was made.
- `Listing` is how the daemon does it: the disk and the operating system's
  watches, raw changes, the debounce task, the watched set, the scan cache with
  its epoch, and one list request at a time from acceptance to its last page. A
  listing is abstracted to the versions of what it was computed from (its
  directory and the ignore rules). Directories may be inside one another: a
  directory that is removed or created again changes the listing of the one it is
  in, and `Owning` (`owning_watched_dir`) files what the outer one's watch reports
  under the inner one if that is watched too. `misfiled` is the history of changes
  it filed that way. It implements `FreshListing`.
- `RequestLoop` has everything around the handlers: the loop and where it is
  parked, the table of active ids, one task per accepted request, the permits,
  the stdout queue with parked senders, the writer, the client's end, the
  debounce task's sends, draining and exit. What a request computes is abstracted
  to a number of events.
- `FileOp` is what whoever asks for a copy, a move or a removal may rely on: the
  target is replaced in one step or not at all, a move takes the source away in that
  step or leaves it, and the reply says what has come of it.
- `FsOps` is one copy, move or remove, one file system call at a time. A tree is
  the parts it is copied and removed in, with the version of each. Others may
  edit the source and create the target, the token may be set between any two
  calls, and the daemon may be killed. It implements `FileOp`.
- `Search` is a search from the key press to the screen: the thread that walks
  the tree, the bounded batch channel, the task with its permit, the bounded way
  out, and the two users of searches in the frontend (the tree filter and
  `:SimpleTreeSearch`) with the callbacks that drop what is late. Matches are
  numbers in walk order.
- `GitStatus` is the way of a git mark: a change, the debounce task's dirty mark,
  the cache, the run of git over each repository of the root in turn, the
  answers, and the frontend's delayed refresh, its current request and the marks
  it shows. A status is the version of the work tree that git has read.
  `MCGitStatus` gives the roots their repositories.
- `TreeScan` is the frontend's half of a listing: which directory is scanned by
  which request, what a page and the last page do, forced rescans that keep
  showing the old listing, timeouts, watches, collapses, the tree closed and
  opened, and `OnBackendExit`. Its daemon is `FreshListing` made into messages:
  `Accept`, `Scan`, `Change` and `Announce` are its `Ask`, `Answer`, `Change` and
  `Announce`. The plugin's variables are one record, `ui`, and the functions that
  commands and callbacks share are operators from `ui` to `ui`, since one command
  calls many of them before anybody else runs.
- `Paste` is the clipboard and the chain of jobs of each paste, over fs_ops that
  keep the promise of `FileOp` (the target is there as a whole, or nothing has
  changed), a daemon that may be stopped or die, and the user who cuts and pastes
  on. What Vim is in the middle of is the queue `busy`; only the daemon acts
  meanwhile.
- `Supervisor` has `core.vim` with the settings the plugin gives it, the daemon
  processes by generation, and the frontend's session: the capabilities and the
  fs_op callbacks. Vim's loop runs an exit callback some time after the death, but
  `job_status()` runs it then and there when it is the first to see the process
  dead, so `IsRunning()` may run `OnExit` inside `Ensure`, `Stop`, `Restart` or a
  start. `exits[g]` is the `OnExit` of generation g: noticed, in the plugin's
  callbacks (which may call the supervisor again), done, and then back to the call
  it runs inside of (`Back`), which goes on with what it had been told. The
  history `nested` has the generations started while an `Ensure` further out was
  still to start its own. Taken as one moment: a call asks for the status once; a
  death within `BSend` is one before `FsOpsEnabled` asked; the kill timer of a
  process that has died comes after its `OnExit`, which stops it. `wanted` is set
  when a call answers; a stop does not clear it for a daemon that was lost, which
  no stop can reach.

The modules meet at promises: `Listing` implements `FreshListing` and `TreeScan`
relies on it; `FsOps` implements `FileOp` for one operation, and `Paste` relies on that
for each of its own, except that its operations never fail to roll back;
`RequestLoop` has what `Listing`, `Search` and `GitStatus` leave out of the way of
a request (permits for all of them, supersession, draining).

`ListingProofs`, `RequestLoopProofs`, `FsOpsProofs`, `SupervisorProofs`, `SearchProofs`,
`PasteProofs`, `GitStatusProofs` and `TreeScanProofs` hold the theorems. An operator
whose comment begins with "Mutant" is not part of a model: it is a bug the named
definition does not have, and shows that a property would notice it.

## Runs

| Run | Question | Bounds |
| --- | --- | --- |
| `listing` | Does the daemon implement `FreshListing`, do stale listings have an invalidation on its way unless it was misfiled, and are they dropped in the end? | a directory, which holds the ignore rules, and one inside it, which may be replaced; one view; one list at a time; one cache slot; two changes; the epoch moves once by a client's request |
| `listing_nested` | The same without the exception: no (below) | the same |
| `listing_unwatch` | Is a cached listing fresh while its directory is watched? No (below) | two unrelated directories, without ignore rules changing |
| `request_loop` | Do table and tasks agree, does nothing of a superseded request enter the queue, does every task end, does the daemon exit? | two ids, two requests, one active request, one permit, a queue of one, two events per request, one inline reply, one `fs_event` |
| `request_loop_stall` | Does a stalled daemon exit when stdin is closed? No (below) | the same or smaller |
| `fs_ops` | Is the target never truncated, the source never lost, does the operation implement `FileOp`? | two parts, one edit of each |
| `search` | Do cancelled searches give their permits back, are walkers bounded, is what is shown the whole answer to the right query? | two searches of one or five matches, batches of two, a channel of one batch, one permit, one event on the way out; limits of three and five results |
| `git_status` | Is what is shown one answer for this root, does every callback end, do the marks settle? | two repositories, one of which may fail, under one root, and a root with none; two requests, one change, two commands or exits |
| `tree_scan` | Can every scan end, is what is cached whole and as new as what was told, or about to be replaced, does the tree settle? | a root and a directory below it, three requests, one change, two commands or exits |
| `paste` | Is no cut forgotten, does no paste replace what nobody was asked about, does every paste end? | two directories, two names, two files, two pastes of up to two items, two cuts, copies, stops or deaths |
| `supervisor` | No daemon lost but by a nested start, breaker, wanted starts, kept promises, stops that end, fs_ops that end with their daemon? | three generations, three calls, one automatic restart, one fs_op |
| `supervisor_nested` | Is there ever more than one daemon? Yes (below) | the same |

Why these are enough: every limit is at its smallest non-trivial value, so that
a full table, queue, cache, channel or breaker is the normal case; but for the limit of
watches in `listing`, where both directories have to be watched: `TypeCorrect` proves
it for every `MaxWatches`. Two directories give
one whose entry the other is. Two requests on one id are one
supersession; with one active request allowed the second id is refused. A
queue of one parks a sender as soon as the writer is behind. Two parts are a
tree that is half copied, half removed or half edited. Five matches in batches of
two fill the channel, leave a walker blocked with a batch and another to send, and end in a
batch that is not full; one permit makes the second search wait for the first. Two
repositories are one that is held back while the next is asked for. Three list
requests are a scan, its replacement and one that waits for neither. Two pastes
of two items with two names are enough for one to meet, in the middle, what the
other has installed, and for a cut between them. Three generations are a
daemon, its replacement, and one more start that should or should not happen, or a
daemon that dies, the one its callback starts and the one the call around it starts;
three calls get there, and one automatic restart is reached and exceeded within them. The safety properties
listed under Theorems are proved for every value of these constants.
`CHECK_DEADLOCK FALSE` is stated where the system may stop: the requests are
over, the operation is done, the daemon has exited, or the bound is reached.

Fairness. In `Listing` the notify thread and the debounce task keep running, and no
more is needed; in `RequestLoop` and `Search` every task that can go on is polled,
deadlines pass, and blocking work ends, because the runtime does so; in `RequestLoop` the
writer is strongly fair since a client that reads again and again takes something
each time; the client, the disk and the user owe nothing. `FilterEnds` assumes in its
statement that Vim reads. In `GitStatus` Vim comes to its lines and timers, the
debounce task and the tasks of requests go on; in `TreeScan` and `Paste` there is one fairness condition for
Vim's loop and one for the daemon: whatever they choose, they go on while they have something
to do. In `Supervisor` Vim comes to every timer
and callback that is due, and a process dies of SIGKILL. A crash, an answer or a
call is never owed anywhere. `FsOps` states no liveness.

## Findings

1. `listing_unwatch`: whether a listing may be cached is decided when its request
   is accepted (`simpletree_daemon.rs:274`) and the epoch is read when its task
   starts (`:752`). An unwatch between the two leaves a listing in the cache that
   nothing invalidates, and a later watch makes it answer requests.
2. `request_loop_stall`: after the output path is declared dead the daemon
   drains and then waits for its writer, which waits for the client
   (`simpletree_daemon.rs:420`): the way out that `:192-195` speaks of is missing
   for a client that neither reads nor leaves.
3. `supervisor_nested`: `job_status()` in `Ensure` (by `IsRunning()` at `core.vim:820`,
   or at `:927` for a process dead as soon as it is started) may run `OnExit`, and a
   callback of `OnExit` may start a daemon: `BackendCrashed` renders, rendering scans
   (`simpletree.vim:3786`), and a scan calls `BEnsureBackend`. The `Ensure` around it
   does not ask again. It starts one more (`:878`), or forgets the job (`:928`), and
   the callback's daemon runs on out of reach. `core.vim:691-699` takes care of such a
   callback in `OnExit`, and `tests/vim_core.vim:1020` wants one replacement.
   `OnlyNestedLost` and `StopEnds` exempt just these daemons (`nested`).
4. `listing_nested`: with a directory and one of its entries both watched,
   `owning_watched_dir` (`watch.rs:128`) files the entry's removal or creation under
   the entry, also when the outer watch reported it; the outer listing is neither
   evicted nor announced. `misfiled` in `StaleImpliesPending` and `StaleDropped`.

Met while modelling, and stated as the exception of a property that holds
otherwise:

5. `OnCollapseAll` cancels scans and keeps what their first pages put in the cache,
   which is then taken for a whole listing (`simpletree.vim:4706`, against `:1769`;
   `leftover` in `CacheCurrent` and `TreeSettles`).
6. A change announced while git is reading is forgotten when the result is stored
   as clean (`git.rs:89`; `raced` in `MarksSettle`).
7. A filter whose option is above the daemon's own limit is cut short and not
   marked truncated (`simpletree.vim:2905`, `search.rs:11`; `FilterComplete`).
8. A paste that ends overwrites what was cut or copied while it ran
   (`simpletree.vim:5041`; `overruled` in `CutKept`).
9. Two pastes under way do not know of each other's targets: the second replaces
   what the first installs and asks nobody (`simpletree.vim:5087`;
   `OnlyOthersReplaced`).

## Theorems

All from the assumptions the modules state on their constants.

- `Listing`: `TypeCorrect`, `NoLostInvalidation` (`StaleImpliesPending`),
  `Freshness` (`FreshSpec`, the refinement). The inductive invariant `IInv` says that nothing is
  announced that did not happen; that every cached listing, and every one whose
  epoch still allows it to be stored, reflects what was announced; and that what
  it misses of a source under an unbroken watch is not yet delivered, on its way
  through the debounce task under the source's own directory, or misfiled. The property alone is not inductive, since it says nothing of
  a listing that is about to be stored.
- `RequestLoop`: `TypeCorrect`, `OwnedCorrect` (`IdsOwned`), `NewestCorrect`
  (`NewestOnly`), `EndsAccountedHolds`, `PermitsHeldHolds`, `ExitCompleteHolds`. The strengthening says which generations have been given out and
  that a task which is not cancelled is the one its id stands for; with it a
  parked send of a superseded task cannot enter the queue. `EndInv` is about the end:
  a request that ends without an answer was cancelled or its client given up
  (`EndsAccountedHolds`), a permit is always with a task that has not ended
  (`PermitsHeldHolds`), and the daemon exits only when every task has ended and
  everything sent is written, or a write has failed (`ExitCompleteHolds`).
- `FsOps`: `InvCorrect`, `TypeCorrect`, `Untruncated` (`NeverTruncated`),
  `SourceSafe` (`SourceKept`), `Honest` (`ReplyHonest`), `Implements` (`FileOpSpec`, the
  refinement). The invariant says for each phase where the old target is (`Clean`,
  `Aside`, `Installed`), that only a whole copy is ever installed, and where the
  source's newest version is. For the refinement each
  file system call is shown to be one step of `FileOp` (`SetsAside`, `PutsBack`,
  `Installs`, `Retires`, `Removes`) or to change nothing that it speaks of (`Stays`), in
  an error path and a rollback too. `ReplyHonest` is a part of it (`Kept`) and has no run
  of its own.
- `Supervisor`: `TypeCorrect`, `OnlyNestedLostHolds`, `CapsHold` (`CapsOfCurrent`),
  `BreakerNeverGives` (`BreakerHolds`), `OnlyWantedStartsHolds`, `StartComingHolds`,
  `StopComingHolds`. `IInv` says that what lives is the job's or nested (`JobRuns`);
  that an `OnExit` that is still to run is that of the newest process, whatever calls
  it is inside of (`Frames`); that an open breaker means that what ran has exited
  (`Closed`, without which the count of crashes has no bound); and that a restart
  about to be scheduled is for a crash that is counted and has none yet (`Counted`).
  `WInv` adds that there is one restart timer at most, the one the supervisor knows,
  none for a daemon that is being stopped or is staged to be replaced; so a stop
  disarms everything that could start a daemon but what it cannot reach. `PInv` adds
  what liveness rests on: a start that was promised is coming, and a stop has its
  kill timer.
- `Search`: `TypeCorrect`, `WalkersBoundedHolds`, `FilterCompleteHolds`,
  `QuickfixOfNewestHolds`. `IInv` follows a match from the walker to the screen: while
  a search is heard and not cancelled, what was found is in the batch, in the
  channel, with the task, on the way out or shown (`Delivering`), the last event of a
  search is behind all its others and is sent when the walk is `Full` (`OutOK`), and
  a walker has a task with a permit. A search that was not started is known to nobody
  (`Unborn`), so ids are never shared. `AnswersComingHolds` is what `FilterEnds` says
  without time: a callback waits for a search that is not cancelled and is on its way,
  at work or about to be announced as over, unless the output path has been given up;
  and a filter that is searching has its callback, unless the callbacks were thrown away.
- `Paste`: `TypeCorrect`, `CutKeptHolds`, `OnlyOthersReplacedHolds`. `IInv` says that
  what a paste still has to do is as it was planned (`Plan`): no source twice, and a
  target that an earlier job has is one the user was asked about. So a target
  nobody was asked about holds nothing, or another paste's file, until its own
  job is done (`FreeOK`), also when an operation that was given up goes on
  (`StraysOK`); and a paste of the last cut accounts for all of it (`HeldOK`).
  `NobodyStuckHolds` is what `PastesEnd` says without time: a paste in its loop is the
  one Vim runs, with the others behind it each once (`BusyOK`), and one that waits for
  the daemon has an operation there, or is about to be told that there is no answer
  (`AnswerComing`).
- `GitStatus`: `TypeCorrect`, `CleanIsCurrentHolds`, `MarksOfOneAnswerHolds`,
  `CallbacksEndHolds`, `AtRestHolds`. `IInv` says that a run of git has read what was announced or
  is marked as overtaken (`TaskOK`), which is what its result is stored with; that
  a status on its way says which request it is of (`OutOK`); and that the marks are
  of the last request, or it still waits for the first answer, which clears them
  (`ShownOK`). Requests are numbered as they are made (`Numbered`), so a new one
  has no marks, no events and no callback of an earlier one. `AtRestHolds` is what
  `MarksSettle` says without time: when nothing goes on, what is shown has every
  announcement. `Settling` follows each announcement: it is due at the timer, or the last
  request has that repository still ahead of it, brings a status good enough, or has
  shown one; this is what a request that is overtaken, an answer that is dropped, an
  error and a timer that runs already must not break.
- `TreeScan`: `TypeCorrect`, `ScansAnswerableHolds`, `CacheCurrentHolds`,
  `OnlyCurrentScanHolds`, `AtRestHolds`. A handler is a chain of the plugin's functions, and the
  script variables need not be `Sound` half way through it; so there is a lemma for
  each function of what it needs and what it leaves (`Keeps`), and a handler is proved
  from these. The heart of `IInv` is that a callback is of the request its directory
  waits for (`Base`), the other way round (`Answerable`), and that the directories
  that wait are those marked as being scanned (`Marked`): a page that finds a
  callback is then of the scan under way. It also needs that changes are queued
  for the timer only while the tree is open (`Queued`), or the timer would not
  repair a listing cut short. That the cache is as new as what Vim was told (`Fresh`,
  `Known`) is followed from the `fs_event` through the request, the daemon's task and
  the page to the cache; `Flow` says what each function may do to requests and callbacks
  on the way, and that numbers not yet used are unknown to the daemon. `AtRestHolds` is
  what `TreeSettles` says without time; it needs `Seen`: what is shown and has no listing
  is being scanned, due to be rendered, or failed.

Only model-checked: the liveness properties (`StaleDropped`, `EveryTaskEnds`,
`EofExits`, `PromiseKept`, `StopEnds`, `OpsEnd`, `CancelFreesPermit`, `FilterEnds`,
`MarksSettle`, `TreeSettles`, `PastesEnd`), which rest on fairness and are beyond the
prover. Of seven of them the half that is a safety property (how it ends, or that there is
always something to wait for or nothing left to do) is proved: `EndsAccounted`
(`EveryTaskEnds`) in `RequestLoopProofs`, `StartComing` and `StopComing` (`PromiseKept`,
`StopEnds`) in `SupervisorProofs`, `AnswersComing` (`FilterEnds`) in `SearchProofs`,
`AtRest` in `GitStatusProofs` (`MarksSettle`) and in `TreeScanProofs` (`TreeSettles`),
`NobodyStuck` (`PastesEnd`) in `PasteProofs`. Of `EofExits` it is proved what the exit
means (`ExitComplete`), and nothing is proved towards `StaleDropped` and `CancelFreesPermit`.

## Not modelled

The content of one directory scan (ignore rules, sorting), the parsing of git's output and
the aggregation of marks, which names a search matches, JSON and line framing,
paths as text, and delays as numbers: a timer fires some time. In `core.vim` the
built-in handshake, `Request()` and the json codec, which this plugin does not
configure or call. In `TreeScan` polling by modification time, reveals and the
metadata of entries; in `Paste` delete, rename and new files, the buffers of moved
files, a rollback that fails (`FsOps` has it), and what simplecc's preview shows. The session state file, bookmarks, rendering,
the user interface, colours, and installation. Two file operations on the
same target at once, one call at a time. A request task that panics
(`finish_request_task`, `simpletree_daemon.rs:426`), whose id would stay in the table.
In `Search` the depth limit and the entries the walk skips for an error: a match is an
entry the walk meets. `Paste` plans a paste in one step although `input()`
(`simpletree.vim:1037`, `:1064`) lets the callbacks of another paste run between two
questions. An exit that is noticed inside a call is modelled in `Supervisor`; in
`TreeScan`, `Paste`, `GitStatus` and `Search` it comes just before that call.
`FsOps` takes the checks of `validate` as one that may refuse, and leaves out the
permissions `make_tree_removable` sets before a tree is removed.

## Plan

1. `SessionState`: two Vims, one state file; marks and bookmarks.
2. Algorithms as functions against reference definitions: porcelain parsing and
   aggregation, fuzzy matching, root containment, the subtree cache.
3. Delete and rename with the buffers they move, over the same promise of `FileOp`.
