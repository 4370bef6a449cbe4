------------------------------ MODULE Listing ------------------------------
(***************************************************************************)
(* Directory listings in the daemon: the watch service (watch.rs), its     *)
(* debounce task, the scan cache (scan.rs) and the life of a list request  *)
(* (simpletree_daemon.rs), interleaved as the runtime interleaves them:    *)
(*  - one runtime thread runs the request loop, the list tasks and the     *)
(*    debounce task; an action of theirs is what runs between two awaits;  *)
(*  - the notify callback thread (Deliver) and the blocking scanner        *)
(*    (ScanRead) run beside it, and so does whoever changes the disk.      *)
(*                                                                         *)
(* A listing is abstracted to the versions of the sources it was computed  *)
(* from: its directory, and the ignore rules kept in RuleHome.             *)
(***************************************************************************)
EXTENDS Integers, FiniteSets, FiniteSetsExt

CONSTANTS
  Dirs,        \* directories, as the paths the client sends
  Inside,      \* Inside[d]: the directory d is an entry of
  NoDir,       \* none of Dirs: a parent out of sight, a path that is a plain file's
  Rules,       \* the ignore rules (.gitignore, .ignore, exclude), a source
  RuleHome,    \* the directory that holds them
  Views,       \* the option triples of a cache key (hidden, gitignore, meta)
  Requests,    \* list requests the client may send
  Replaceable, \* directories the environment may delete and create again
  MaxCached,   \* MAX_CACHED_DIRS
  MaxWatches,  \* MAX_WATCHES
  MaxChanges,  \* bound: changes on disk
  MaxEpoch     \* bound: no unwatch is requested once the epoch is there

ASSUME ListingAssumption ==
  /\ IsFiniteSet(Dirs) /\ IsFiniteSet(Views)
  /\ Rules \notin Dirs /\ RuleHome \in Dirs /\ Replaceable \subseteq Dirs
  /\ NoDir \notin Dirs \cup {Rules}
  /\ Inside \in [Dirs -> Dirs \cup {NoDir}] /\ \A d \in Dirs : Inside[d] # d
  /\ MaxCached \in Nat \ {0} /\ MaxWatches \in Nat
  /\ MaxChanges \in Nat /\ MaxEpoch \in Nat

Sources == Dirs \cup {Rules}
Versions == [Sources -> Nat]
Keys == Dirs \X Views

\* The directory whose watch reports a change of source x.
Owner(x) == IF x = Rules THEN RuleHome ELSE x

\* The sources a listing of d is computed from.
Facets(d) == {d, Rules}

\* The empty listing: a cancelled scan's result, older than any real one.
Blank == [x \in Sources |-> -1]

\* A cache slot: seen is the stored listing; live is history, the sources whose
\* watch has been unbroken since the entry's request was accepted.
NoEntry == [has |-> FALSE, seen |-> Blank, live |-> {}]

NoKey == <<"none", "none">>

Listings == [Sources -> Nat \cup {-1}]
Slots == [has : BOOLEAN, seen : Listings, live : SUBSET Sources]

Change == [src : Sources, ver : Nat]

\* What the operating system reports: a change, and the path that changed if it
\* is one of Dirs.
Report == [src : Sources, ver : Nat, path : Dirs \cup {NoDir}]

\* RawChange: a change, and the watched directory it was filed under.
RawChange == [src : Sources, ver : Nat, dir : Dirs]

VARIABLES
  ver,        \* ver[x]: how often source x has changed on disk
  present,    \* the directories that exist
  kernel,     \* directories the operating system watches
  watched,    \* WatchService.watched
  events,     \* operating system events the notify thread has not handled
  raw,        \* raw changes on their way through the debounce task
  epoch,      \* CacheInner.epoch
  cache,      \* CacheInner.map, NoEntry for a missing key
  req,        \* req[r]: the task of request r
  announced,  \* history: newest version of x an fs_event for its owner has reported
  misfiled    \* history: changes filed under another directory than their owner

disk == <<ver, present>>
watch == <<kernel, watched>>
history == <<announced, misfiled>>
vars == <<disk, watch, events, raw, epoch, cache, req, history>>

InFlight == {"ready", "waiting", "scanning", "scanned"}

ReqStates == InFlight \cup {"idle", "answered", "dropped"}

Tasks == [st : ReqStates, key : Keys \cup {NoKey}, cacheable : BOOLEAN,
          cancelled : BOOLEAN, epoch : Nat, snap : Listings, floor : Listings,
          live : SUBSET Sources]

\* floor and live are history: what had been announced when the request was
\* accepted, and as in a cache slot.  No task holds the id: what the last one delivered is kept (history).
NoTask(st, snap) ==
  [st |-> st, key |-> NoKey, cacheable |-> FALSE, cancelled |-> FALSE,
   epoch |-> 0, snap |-> snap, floor |-> Blank, live |-> {}]

Init ==
  /\ ver = [x \in Sources |-> 0] /\ present = Dirs
  /\ kernel = {} /\ watched = {}
  /\ events = {} /\ raw = {}
  /\ epoch = 0 /\ cache = [k \in Keys |-> NoEntry]
  /\ req = [r \in Requests |-> NoTask("idle", Blank)]
  /\ announced = [x \in Sources |-> 0] /\ misfiled = {}

OfOthers(d, xs) == {x \in xs : Owner(x) # d}

\* History: slots or requests f once the watch on d has ended.
Narrow(d, f) == [k \in DOMAIN f |-> [f[k] EXCEPT !.live = OfOthers(d, @)]]

----------------------------------------------------------------------------
(* The file system and the notify thread.                                  *)

\* The bound on what the environment does: n more sources may change.
MayChange(n) == MapThenSumSet(LAMBDA x : ver[x], Sources) + n <= MaxChanges

\* The sources of xs change.
Changed(xs) == [x \in Sources |-> IF x \in xs THEN ver[x] + 1 ELSE ver[x]]

\* The events that report it, of path p: only a watched directory has any.
Reports(xs, p) ==
  {[src |-> x, ver |-> ver[x] + 1, path |-> p] : x \in {y \in xs : Owner(y) \in kernel}}

\* A plain file changes source x.
DiskChange(x) ==
  /\ MayChange(1) /\ Owner(x) \in present
  /\ ver' = Changed({x})
  /\ events' = events \cup Reports({x}, NoDir)
  /\ UNCHANGED <<present, watch, raw, epoch, cache, req, history>>

\* Directory d, empty of directories, is deleted or moved away.  The watch on it
\* and the watch on its parent both report this, and both name d; the one on d
\* goes with its inode.
DirRemoved(d) ==
  /\ d \in Replaceable \cap present /\ MayChange(2)
  /\ \A c \in present : Inside[c] # d
  /\ present' = present \ {d}
  /\ ver' = Changed({d, Inside[d]})
  /\ events' = events \cup Reports(Sources \cap {d, Inside[d]}, d)
  /\ kernel' = kernel \ {d}
  /\ cache' = Narrow(d, cache) /\ req' = Narrow(d, req)
  /\ UNCHANGED <<watched, raw, epoch, history>>

\* It is there again, with no watch but its parent's, which names it.
DirCreated(d) ==
  /\ d \notin present
  /\ \/ Inside[d] = NoDir
     \/ Inside[d] \in present /\ ver[Inside[d]] < MaxChanges
  /\ present' = present \cup {d}
  /\ ver' = Changed({Inside[d]})
  /\ events' = events \cup Reports(Sources \cap {Inside[d]}, d)
  /\ UNCHANGED <<watch, raw, epoch, cache, req, history>>

\* Mutant: the parent of a path is not tried.
OwningPathOnly(e) == IF e.path \in watched THEN e.path ELSE NoDir

\* owning_watched_dir: the path itself if it is watched, else its parent if that
\* is; a change of a watched directory's entry that is watched too is filed
\* under the entry.
Owning(e) ==
  CASE e.path \in watched -> e.path
    [] e.path \notin watched /\ Owner(e.src) \in watched -> Owner(e.src)
    [] OTHER -> NoDir

\* The notify callback handles one event.
Deliver(e) ==
  /\ e \in events
  /\ events' = events \ {e}
  /\ LET dir == Owning(e) IN
     /\ raw' = IF dir = NoDir THEN raw
               ELSE raw \cup {[src |-> e.src, ver |-> e.ver, dir |-> dir]}
     /\ misfiled' = IF dir \in {NoDir, Owner(e.src)} THEN misfiled
                    ELSE misfiled \cup {[src |-> e.src, ver |-> e.ver]}
  /\ UNCHANGED <<disk, watch, epoch, cache, req, announced>>

----------------------------------------------------------------------------
(* ScanCache.                                                              *)

EvictDirs(ds) == [k \in Keys |-> IF k[1] \in ds THEN NoEntry ELSE cache[k]]

Cached == {k \in Keys : cache[k].has}

\* Mutant: the map grows without a limit.
StoreUnlimited(k, entry, e) ==
  cache' = IF e # epoch THEN cache ELSE [cache EXCEPT ![k] = entry]

\* Mutant: an invalidation during the scan is not noticed.
StoreAnyEpoch(k, entry, e) ==
  cache' = IF Cardinality(Cached) >= MaxCached
           THEN [j \in Keys |-> IF j = k THEN entry ELSE NoEntry]
           ELSE [cache EXCEPT ![k] = entry]

\* store_if_epoch: refused after any invalidation; a full map is emptied first.
StoreIfEpoch(k, entry, e) ==
  cache' = IF e # epoch THEN cache
           ELSE IF Cardinality(Cached) >= MaxCached
                THEN [j \in Keys |-> IF j = k THEN entry ELSE NoEntry]
                ELSE [cache EXCEPT ![k] = entry]

----------------------------------------------------------------------------
(* The debounce task.                                                      *)

\* The sources whose owner the changes b are filed under, with the version.
Filed(b) == {[src |-> c.src, ver |-> c.ver] : c \in {r \in b : r.dir = Owner(r.src)}}

\* History: f is what is announced once the changes b have been reported.
Announces(b, f) ==
  \A x \in Sources :
    /\ f[x] = announced[x] \/ [src |-> x, ver |-> f[x]] \in Filed(b)
    /\ announced[x] <= f[x]
    /\ \A c \in Filed(b) : c.src = x => c.ver <= f[x]

\* The task has collected the changes b when the quiet window or the hard
\* deadline passes: it invalidates, then tells the client.  What it collected
\* and what still waits in the channel are one set, since nothing tells them
\* apart before this step.  No list task runs between two evict_dir calls of
\* one batch, so one step of the epoch stands for all of them.
DebounceFlush(b) ==
  /\ b # {} /\ b \subseteq raw
  /\ raw' = raw \ b
  /\ epoch' = epoch + 1
  /\ cache' = EvictDirs(IF \E c \in b : c.src = Rules THEN Dirs
                        ELSE {c.dir : c \in b})
  /\ \E f \in [Sources -> 0..MaxChanges] : Announces(b, f) /\ announced' = f
  /\ UNCHANGED <<disk, watch, events, req, misfiled>>

----------------------------------------------------------------------------
(* Watch and unwatch requests, handled inline by the request loop.         *)

\* WatchService::watch.  A directory in the set is not watched again; a full
\* set refuses.  The notify thread can run between the operating system's watch
\* and the insertion, and drop an event: the change might as well have come
\* before the watch, so one step stands for both halves.
Watch(d) ==
  /\ d \notin watched /\ d \in present
  /\ Cardinality(watched) < MaxWatches
  /\ kernel' = kernel \cup {d}
  /\ watched' = watched \cup {d}
  /\ UNCHANGED <<disk, events, raw, epoch, cache, req, history>>

\* WatchService::unwatch: leaves the set, then the operating system's watch,
\* and evicts whether or not d was watched.
Unwatch(d) ==
  /\ epoch < MaxEpoch
  /\ watched' = watched \ {d}
  /\ kernel' = IF d \in watched THEN kernel \ {d} ELSE kernel
  /\ epoch' = epoch + 1
  /\ cache' = Narrow(d, EvictDirs({d})) /\ req' = Narrow(d, req)
  /\ UNCHANGED <<disk, events, raw, history>>

----------------------------------------------------------------------------
(* List requests.                                                          *)

\* The loop accepts a list under an id that is free: whether the cache may be used is decided here.
ListAccept(r, d, v) ==
  /\ req[r].st \notin InFlight
  /\ req' = [req EXCEPT ![r] =
       [st |-> "ready", key |-> <<d, v>>, cacheable |-> d \in watched,
        cancelled |-> FALSE, epoch |-> 0, snap |-> Blank,
        floor |-> [x \in Sources |-> IF x \in Facets(d) THEN announced[x] ELSE 0],
        live |-> {x \in Facets(d) : Owner(x) \in watched \cap kernel}]]
  /\ UNCHANGED <<disk, watch, events, raw, epoch, cache, history>>

\* The task starts: a hit is answered from the cache, a miss waits for a permit.
ListStart(r) ==
  /\ req[r].st = "ready"
  /\ LET hit == req[r].cacheable /\ req[r].key \in Cached IN
     req' = [req EXCEPT ![r] =
       IF req[r].cancelled THEN NoTask("dropped", Blank)
       ELSE IF hit THEN NoTask("answered", cache[req[r].key].seen)
       ELSE [@ EXCEPT !.st = "waiting"]]
  /\ UNCHANGED <<disk, watch, events, raw, epoch, cache, history>>

\* The permit is granted: the epoch is read and the scan handed to its thread.
\* A request cancelled while it waits never scans.
ListPermit(r) ==
  /\ req[r].st = "waiting"
  /\ req' = [req EXCEPT ![r] =
       IF req[r].cancelled THEN NoTask("dropped", Blank)
       ELSE [@ EXCEPT !.st = "scanning", !.epoch = epoch]]
  /\ UNCHANGED <<disk, watch, events, raw, epoch, cache, history>>

\* What scan_directory reads: the directory as it is now, under the rules as
\* they are now.
Snapshot(d) == [x \in Sources |-> IF x \in Facets(d) THEN ver[x] ELSE 0]

\* scan_directory reads the directory.  A cancelled one returns an empty result.
ScanRead(r) ==
  /\ req[r].st = "scanning" /\ req[r].key[1] \in present
  /\ req' = [req EXCEPT ![r].st = "scanned",
       ![r].snap = IF req[r].cancelled THEN Blank ELSE Snapshot(req[r].key[1])]
  /\ UNCHANGED <<disk, watch, events, raw, epoch, cache, history>>

\* The directory cannot be read: the request is answered with an error.
ScanFail(r) ==
  /\ req[r].st = "scanning"
  /\ req' = [req EXCEPT ![r] = NoTask("dropped", Blank)]
  /\ UNCHANGED <<disk, watch, events, raw, epoch, cache, history>>

\* Mutant: a scan that stopped at its cancellation is answered all the same.
FinishCancelled(r) ==
  /\ req[r].st = "scanned"
  /\ req' = [req EXCEPT ![r] = NoTask("answered", req[r].snap)]
  /\ UNCHANGED <<disk, watch, events, raw, epoch, cache, history>>

\* The task resumes after its scan: the result is stored if the cache may be
\* used and nothing was invalidated since the epoch was read, then answered.
ListFinish(r) ==
  /\ req[r].st = "scanned"
  /\ IF req[r].cancelled
     THEN /\ req' = [req EXCEPT ![r] = NoTask("dropped", Blank)]
          /\ UNCHANGED cache
     ELSE /\ req' = [req EXCEPT ![r] = NoTask("answered", req[r].snap)]
          /\ IF req[r].cacheable
             THEN StoreIfEpoch(req[r].key,
                    [has |-> TRUE, seen |-> req[r].snap, live |-> req[r].live], req[r].epoch)
             ELSE UNCHANGED cache
  /\ UNCHANGED <<disk, watch, events, raw, epoch, history>>

\* A cancel request, or a newer request under the same id.
CancelList(r) ==
  /\ req[r].st \in InFlight /\ ~req[r].cancelled
  /\ req' = [req EXCEPT ![r].cancelled = TRUE]
  /\ UNCHANGED <<disk, watch, events, raw, epoch, cache, history>>

----------------------------------------------------------------------------
Debounce == \E b \in SUBSET raw : DebounceFlush(b)

Task(r) == ListStart(r) \/ ListPermit(r) \/ ScanRead(r) \/ ScanFail(r) \/ ListFinish(r)

Next ==
  \/ \E x \in Sources : DiskChange(x)
  \/ \E d \in Dirs : DirRemoved(d) \/ DirCreated(d) \/ Watch(d) \/ Unwatch(d)
  \/ \E e \in events : Deliver(e)
  \/ Debounce
  \/ \E r \in Requests :
       \/ \E d \in Dirs, v \in Views : ListAccept(r, d, v)
       \/ Task(r) \/ CancelList(r)

\* The notify thread and the debounce task keep running, which is all that liveness
\* needs; clients, disks and cancels owe nothing.
Fairness ==
  /\ WF_vars(\E e \in events : Deliver(e))
  /\ WF_vars(Debounce)

Spec == Init /\ [][Next]_vars
FairSpec == Spec /\ Fairness

----------------------------------------------------------------------------
(* Properties.                                                             *)

\* The types, with the two limits the code keeps (MAX_WATCHES, MAX_CACHED_DIRS).
TypeOK ==
  /\ ver \in Versions /\ announced \in Versions
  /\ present \subseteq Dirs /\ kernel \subseteq Dirs
  /\ watched \subseteq Dirs /\ Cardinality(watched) <= MaxWatches
  /\ events \subseteq Report /\ raw \subseteq RawChange /\ misfiled \subseteq Change
  /\ epoch \in Nat
  /\ cache \in [Keys -> Slots]
  /\ Cardinality(Cached) <= MaxCached
  /\ req \in [Requests -> Tasks]

\* Version v of source x is on its way to the cache.
Carried(x, v) ==
  \/ \E e \in events : e.src = x /\ e.ver = v
  \/ \E c \in raw : c.src = x /\ c.ver = v /\ c.dir = Owner(x)

\* The changes of x that the cached listing of k does not show, although the
\* watch that reports them has been in place ever since its request was accepted.
Missed(k, x) ==
  IF k \in Cached /\ x \in cache[k].live THEN cache[k].seen[x] + 1 .. ver[x] ELSE {}

Misfiled(x, v) == [src |-> x, ver |-> v] \in misfiled

\* scan.rs:38-40, the reason reuse is safe: under an unbroken watch no change
\* that is filed under its directory is lost between the disk and the cache.
\* What a cached listing does not show has its invalidation on the way.
StaleImpliesPending ==
  \A k \in Keys, x \in Sources : \A v \in Missed(k, x) : Carried(x, v) \/ Misfiled(x, v)

\* The same without the exception: what owning_watched_dir promises ("the path
\* itself (directory-level events) or its parent (child create/remove/modify)",
\* watch.rs:126-127) when a watched directory is inside a watched one.
NothingMissed ==
  \A k \in Keys, x \in Sources : \A v \in Missed(k, x) : Carried(x, v)

Stale == \E k \in Keys, x \in Sources : \E v \in Missed(k, x) : ~Misfiled(x, v)

\* ... and the invalidation arrives: whatever is out of date in the cache, there comes
\* a moment when nothing is.
StaleDropped == Stale ~> ~Stale

\* What is stated without the history: the listing of a directory that is
\* watched is current, or its invalidation is on the way
\* (simpletree_daemon.rs:272-273, "Cached listings are only trusted while the
\* directory is watched; only a watch delivers invalidation").
WatchedListingFresh ==
  \A k \in Cached : LET d == k[1] IN
    d \in watched => \A v \in cache[k].seen[d] + 1 .. ver[d] : Carried(d, v)

\* The client's view of a request: a list answered from the cache or from a
\* scan is never older than what the client had been told had changed.
Ask(r) ==
  [st |-> IF req[r].st \in InFlight THEN "asked" ELSE req[r].st,
   uses |-> IF req[r].st \in InFlight THEN Facets(req[r].key[1]) ELSE {},
   floor |-> req[r].floor,
   seen |-> IF req[r].st = "answered" THEN req[r].snap ELSE Blank]

Fresh == INSTANCE FreshListing WITH asks <- [r \in Requests |-> Ask(r)]

\* simpletree_daemon.rs:728-771 and watch.rs:164-177 together: whatever the
\* interleaving of watches, evictions, scans and cancels, a list is answered
\* with a listing at least as new as every fs_event sent before it was made.
FreshSpec == Fresh!Spec
=============================================================================
