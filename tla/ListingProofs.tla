---------------------------- MODULE ListingProofs ----------------------------
(***************************************************************************)
(* Proofs about Listing, for every number of directories, views, requests  *)
(* and changes.  The inductive invariant has three parts:                  *)
(*   TypeInv    the types (TypeOK without the two cardinalities);          *)
(*   CoverInv   what a cached or scanned listing reflects of what has been *)
(*              announced, which is what makes every answer fresh;         *)
(*   QueueInv   under an unbroken watch, a change that a cached or a still *)
(*              storable listing misses is in a queue, unless it was filed *)
(*              under a watched directory inside its own.                  *)
(***************************************************************************)
EXTENDS Listing, FiniteSetTheorems, TLAPS

TypeInv ==
  /\ ver \in Versions /\ announced \in Versions
  /\ present \subseteq Dirs /\ kernel \subseteq Dirs
  /\ watched \subseteq Dirs
  /\ events \subseteq Report /\ raw \subseteq RawChange /\ misfiled \subseteq Change
  /\ epoch \in Nat
  /\ cache \in [Keys -> Slots]
  /\ req \in [Requests -> Tasks]
  /\ \A r \in Requests : req[r].st \in InFlight => req[r].key \in Keys

\* A scan whose result ListFinish may still store.
Storable(r) ==
  req[r].st = "scanned" /\ ~req[r].cancelled /\ req[r].epoch = epoch

\* Nothing is announced, and no event reports, what has not happened yet.
EventInv ==
  /\ \A x \in Sources : announced[x] <= ver[x]
  /\ \A e \in events \cup raw : e.ver <= ver[e.src]

\* A cached listing reflects everything announced.
CacheCover ==
  \A k \in Cached : \A x \in Facets(k[1]) :
    announced[x] <= cache[k].seen[x] /\ cache[k].seen[x] <= ver[x]

\* So does a scanned one as long as it may be stored; any scanned one reflects
\* what had been announced when its request was accepted.
TaskCover(r) ==
  req[r].st \in InFlight =>
    /\ req[r].epoch <= epoch
    /\ \A x \in Facets(req[r].key[1]) :
         /\ req[r].floor[x] <= announced[x]
         /\ req[r].st = "scanned" /\ ~req[r].cancelled =>
              req[r].floor[x] <= req[r].snap[x] /\ req[r].snap[x] <= ver[x]
         /\ Storable(r) => announced[x] <= req[r].snap[x]

CoverInv == EventInv /\ CacheCover /\ \A r \in Requests : TaskCover(r)

Queued(x, v) == Carried(x, v) \/ Misfiled(x, v)

\* What a cached listing misses of a source that is still watched is queued.
CacheQueued ==
  \A k \in Cached : \A x \in cache[k].live :
    /\ x \in Facets(k[1]) /\ Owner(x) \in watched /\ Owner(x) \in kernel
    /\ \A v \in cache[k].seen[x] + 1 .. ver[x] : Queued(x, v)

TaskQueued(r) ==
  \A x \in req[r].live :
    /\ x \in Facets(req[r].key[1]) /\ Owner(x) \in watched /\ Owner(x) \in kernel
    /\ Storable(r) => \A v \in req[r].snap[x] + 1 .. ver[x] : Queued(x, v)

QueueInv == CacheQueued /\ \A r \in Requests : TaskQueued(r)

IInv == TypeInv /\ CoverInv /\ QueueInv

----------------------------------------------------------------------------
(* Types.                                                                  *)

LEMMA BlankType == Blank \in Listings /\ NoEntry \in Slots
BY DEF Blank, Listings, NoEntry, Slots

LEMMA InitType == Init => TypeInv
BY ListingAssumption, BlankType
DEF Init, TypeInv, Versions, NoTask, Tasks, ReqStates, InFlight

\* What an ended task leaves behind.
LEMMA NoTaskType ==
  ASSUME NEW st \in {"idle", "answered", "dropped"}, NEW snap \in Listings
  PROVE  /\ NoTask(st, snap) \in Tasks
         /\ NoTask(st, snap).st = st /\ NoTask(st, snap).snap = snap
         /\ NoTask(st, snap).live = {} /\ NoTask(st, snap).st \notin InFlight
BY BlankType DEF NoTask, Tasks, ReqStates, InFlight

\* A step that changes one request record keeps the type of req.
LEMMA OneRequest ==
  ASSUME req \in [Requests -> Tasks], NEW r \in Requests, NEW t \in Tasks,
         \A q \in Requests : req[q].st \in InFlight => req[q].key \in Keys,
         t.st \in InFlight => t.key \in Keys,
         req' = [req EXCEPT ![r] = t]
  PROVE  /\ req' \in [Requests -> Tasks]
         /\ \A q \in Requests : req'[q].st \in InFlight => req'[q].key \in Keys
         /\ req'[r] = t /\ \A q \in Requests \ {r} : req'[q] = req[q]
OBVIOUS

\* Ending a watch only narrows the history of the slots and the requests.
LEMMA NarrowSlots ==
  ASSUME NEW d, NEW c \in [Keys -> Slots]
  PROVE  /\ Narrow(d, c) \in [Keys -> Slots]
         /\ \A k \in Keys : /\ Narrow(d, c)[k].has = c[k].has
                           /\ Narrow(d, c)[k].seen = c[k].seen
                           /\ Narrow(d, c)[k].live = OfOthers(d, c[k].live)
<1>1. ASSUME NEW k \in Keys
      PROVE  /\ [c[k] EXCEPT !.live = OfOthers(d, @)] \in Slots
             /\ [c[k] EXCEPT !.live = OfOthers(d, @)].has = c[k].has
             /\ [c[k] EXCEPT !.live = OfOthers(d, @)].seen = c[k].seen
             /\ [c[k] EXCEPT !.live = OfOthers(d, @)].live = OfOthers(d, c[k].live)
  <2>1. OfOthers(d, c[k].live) \in SUBSET Sources
    BY DEF OfOthers, Slots
  <2>2. QED
    BY <2>1 DEF Slots
<1>2. QED
  BY <1>1 DEF Narrow

LEMMA NarrowTasks ==
  ASSUME NEW d, NEW q \in [Requests -> Tasks]
  PROVE  /\ Narrow(d, q) \in [Requests -> Tasks]
         /\ \A r \in Requests :
              LET t == Narrow(d, q)[r] IN
              /\ t.st = q[r].st /\ t.key = q[r].key /\ t.cancelled = q[r].cancelled
              /\ t.epoch = q[r].epoch /\ t.snap = q[r].snap /\ t.floor = q[r].floor
              /\ t.live = OfOthers(d, q[r].live)
<1>1. ASSUME NEW r \in Requests
      PROVE  LET t == [q[r] EXCEPT !.live = OfOthers(d, @)] IN
             /\ t \in Tasks
             /\ t.st = q[r].st /\ t.key = q[r].key /\ t.cancelled = q[r].cancelled
             /\ t.epoch = q[r].epoch /\ t.snap = q[r].snap /\ t.floor = q[r].floor
             /\ t.live = OfOthers(d, q[r].live)
  <2>1. OfOthers(d, q[r].live) \in SUBSET Sources
    BY DEF OfOthers, Tasks
  <2>2. QED
    BY <2>1 DEF Tasks
<1>2. QED
  BY <1>1 DEF Narrow

LEMMA EvictType ==
  ASSUME NEW ds, cache \in [Keys -> Slots]
  PROVE  EvictDirs(ds) \in [Keys -> Slots]
BY BlankType DEF EvictDirs

\* What the disk does keeps the types of the versions and of the events.
LEMMA ReportType ==
  ASSUME TypeInv, NEW xs, NEW p \in Dirs \cup {NoDir}
  PROVE  /\ Changed(xs) \in Versions
         /\ events \cup Reports(Sources \cap xs, p) \subseteq Report
         /\ xs \subseteq Sources => events \cup Reports(xs, p) \subseteq Report
BY DEF TypeInv, Changed, Reports, Versions, Report

LEMMA TypeStep == TypeInv /\ [Next]_vars => TypeInv'
<1> SUFFICES ASSUME TypeInv, [Next]_vars PROVE TypeInv'
  OBVIOUS
<1> USE ListingAssumption DEF TypeInv
\* Steps that change the record of one request and nothing but the cache beside it.
<1>q. ASSUME NEW r \in Requests, NEW t \in Tasks, t.st \in InFlight => t.key \in Keys,
             req' = [req EXCEPT ![r] = t], cache' \in [Keys -> Slots],
             UNCHANGED <<disk, watch, events, raw, epoch, history>>
      PROVE  TypeInv'
  <2>1. /\ req' \in [Requests -> Tasks]
        /\ \A q \in Requests : req'[q].st \in InFlight => req'[q].key \in Keys
    BY <1>q, OneRequest
  <2>2. QED
    BY <1>q, <2>1 DEF disk, watch, history
<1>1. ASSUME NEW x \in Sources, DiskChange(x) PROVE TypeInv'
  <2>1. ver' \in Versions /\ events' \subseteq Report
    BY <1>1, ReportType DEF DiskChange
  <2>2. QED
    BY <1>1, <2>1 DEF DiskChange, watch, history
<1>2. ASSUME NEW d \in Dirs, DirRemoved(d) PROVE TypeInv'
  <2>1. ver' \in Versions /\ events' \subseteq Report
    BY <1>2, ReportType DEF DirRemoved
  <2>2. /\ cache' \in [Keys -> Slots] /\ req' \in [Requests -> Tasks]
        /\ \A r \in Requests : req'[r].st = req[r].st /\ req'[r].key = req[r].key
    BY <1>2, NarrowSlots, NarrowTasks DEF DirRemoved
  <2>3. QED
    BY <1>2, <2>1, <2>2 DEF DirRemoved, history
<1>16. ASSUME NEW d \in Dirs, DirCreated(d) PROVE TypeInv'
  <2>1. ver' \in Versions /\ events' \subseteq Report
    BY <1>16, ReportType DEF DirCreated
  <2>2. QED
    BY <1>16, <2>1 DEF DirCreated, watch, history
<1>3. ASSUME NEW d \in Dirs, Watch(d) PROVE TypeInv'
  BY <1>3 DEF Watch, disk, history
<1>4. ASSUME NEW d \in Dirs, Unwatch(d) PROVE TypeInv'
  <2>1. /\ cache' \in [Keys -> Slots] /\ req' \in [Requests -> Tasks]
        /\ \A r \in Requests : req'[r].st = req[r].st /\ req'[r].key = req[r].key
    BY <1>4, EvictType, NarrowSlots, NarrowTasks DEF Unwatch
  <2>2. kernel' \subseteq Dirs /\ watched' \subseteq Dirs /\ epoch' \in Nat
    BY <1>4 DEF Unwatch
  <2>3. UNCHANGED <<ver, present, events, raw, announced, misfiled>>
    BY <1>4 DEF Unwatch, disk, history
  <2>4. QED
    BY <2>1, <2>2, <2>3
<1>5. ASSUME NEW e \in events, Deliver(e) PROVE TypeInv'
  <2>1. e \in Report /\ Owning(e) \in Dirs \cup {NoDir}
    BY DEF Owning
  <2>2. /\ Owning(e) # NoDir => [src |-> e.src, ver |-> e.ver, dir |-> Owning(e)] \in RawChange
        /\ [src |-> e.src, ver |-> e.ver] \in Change
    BY <2>1 DEF Report, RawChange, Change
  <2>3. raw' \subseteq RawChange /\ misfiled' \subseteq Change /\ events' \subseteq Report
    BY <1>5, <2>2 DEF Deliver
  <2>4. QED
    BY <1>5, <2>3 DEF Deliver, disk, watch
<1>6. ASSUME NEW b \in SUBSET raw, DebounceFlush(b) PROVE TypeInv'
  BY <1>6, EvictType DEF DebounceFlush, Versions, disk, watch
<1>7. ASSUME NEW r \in Requests, NEW d \in Dirs, NEW v \in Views, ListAccept(r, d, v)
      PROVE  TypeInv'
  <2> DEFINE t == [st |-> "ready", key |-> <<d, v>>, cacheable |-> d \in watched,
        cancelled |-> FALSE, epoch |-> 0, snap |-> Blank,
        floor |-> [x \in Sources |-> IF x \in Facets(d) THEN announced[x] ELSE 0],
        live |-> {x \in Facets(d) : Owner(x) \in watched \cap kernel}]
  <2>1. <<d, v>> \in Keys
    BY DEF Keys
  <2>2. [x \in Sources |-> IF x \in Facets(d) THEN announced[x] ELSE 0] \in Listings
    BY DEF Versions, Listings
  <2>3. {x \in Facets(d) : Owner(x) \in watched \cap kernel} \in SUBSET Sources
    BY DEF Facets, Sources
  <2>4. t \in Tasks /\ t.key \in Keys
    BY <2>1, <2>2, <2>3, BlankType DEF Tasks, ReqStates, InFlight
  <2>5. req' = [req EXCEPT ![r] = t]
    BY <1>7 DEF ListAccept
  <2> HIDE DEF t
  <2>6. QED
    BY <1>7, <2>4, <2>5, <1>q DEF ListAccept
<1>8. ASSUME NEW r \in Requests, ListStart(r) PROVE TypeInv'
  <2>1. req[r].key \in Keys
    BY <1>8 DEF ListStart, InFlight
  <2>2. /\ NoTask("dropped", Blank) \in Tasks /\ NoTask("dropped", Blank).st \notin InFlight
        /\ NoTask("answered", cache[req[r].key].seen) \in Tasks
        /\ NoTask("answered", cache[req[r].key].seen).st \notin InFlight
    BY <2>1, NoTaskType, BlankType DEF Slots
  <2>3. /\ [req[r] EXCEPT !.st = "waiting"] \in Tasks
        /\ [req[r] EXCEPT !.st = "waiting"].key \in Keys
    <3>1. "waiting" \in ReqStates /\ req[r] \in Tasks
      BY DEF ReqStates, InFlight
    <3>2. QED
      BY ONLY <2>1, <3>1 DEF Tasks
  <2>4. PICK t \in Tasks : /\ t.st \in InFlight => t.key \in Keys
                          /\ req' = [req EXCEPT ![r] = t]
    BY <1>8, <2>2, <2>3 DEF ListStart
  <2>5. /\ UNCHANGED <<disk, watch, events, raw, epoch, history>>
        /\ cache' \in [Keys -> Slots]
    BY <1>8 DEF ListStart
  <2>6. QED
    BY ONLY <2>4, <1>q, <2>5
<1>9. ASSUME NEW r \in Requests, ListPermit(r) PROVE TypeInv'
  <2>1. NoTask("dropped", Blank) \in Tasks /\ NoTask("dropped", Blank).st \notin InFlight
    BY NoTaskType, BlankType
  <2>2. /\ [req[r] EXCEPT !.st = "scanning", !.epoch = epoch] \in Tasks
        /\ [req[r] EXCEPT !.st = "scanning", !.epoch = epoch].key \in Keys
    <3>1. req[r].key \in Keys /\ req[r] \in Tasks
      BY <1>9 DEF ListPermit, InFlight
    <3>2. "scanning" \in ReqStates /\ epoch \in Nat
      BY DEF ReqStates, InFlight
    <3>3. QED
      BY ONLY <3>1, <3>2 DEF Tasks
  <2>3. PICK t \in Tasks : /\ t.st \in InFlight => t.key \in Keys
                          /\ req' = [req EXCEPT ![r] = t]
    BY <1>9, <2>1, <2>2 DEF ListPermit
  <2>4. /\ UNCHANGED <<disk, watch, events, raw, epoch, history>>
        /\ cache' \in [Keys -> Slots]
    BY <1>9 DEF ListPermit
  <2>5. QED
    BY ONLY <2>3, <1>q, <2>4
<1>10. ASSUME NEW r \in Requests, ScanRead(r) PROVE TypeInv'
  <2> DEFINE snap == IF req[r].cancelled THEN Blank ELSE Snapshot(req[r].key[1])
  <2>1. snap \in Listings
    BY BlankType DEF Snapshot, Versions, Listings
  <2> HIDE DEF snap
  <2>2. /\ [req[r] EXCEPT !.st = "scanned", !.snap = snap] \in Tasks
        /\ [req[r] EXCEPT !.st = "scanned", !.snap = snap].key \in Keys
    <3>1. req[r].key \in Keys /\ req[r] \in Tasks
      BY <1>10 DEF ScanRead, InFlight
    <3>2. "scanned" \in ReqStates
      BY DEF ReqStates, InFlight
    <3>3. QED
      BY ONLY <2>1, <3>1, <3>2 DEF Tasks
  <2>3. req' = [req EXCEPT ![r] = [req[r] EXCEPT !.st = "scanned", !.snap = snap]]
    BY <1>10 DEF ScanRead, snap
  <2>4. /\ UNCHANGED <<disk, watch, events, raw, epoch, history>>
        /\ cache' \in [Keys -> Slots]
    BY <1>10 DEF ScanRead
  <2>5. QED
    BY ONLY <2>2, <2>3, <1>q, <2>4
<1>11. ASSUME NEW r \in Requests, ScanFail(r) PROVE TypeInv'
  BY <1>11, NoTaskType, BlankType, <1>q DEF ScanFail
<1>12. ASSUME NEW r \in Requests, ListFinish(r) PROVE TypeInv'
  <2>1. /\ req[r].key \in Keys /\ req[r].snap \in Listings
        /\ [has |-> TRUE, seen |-> req[r].snap, live |-> req[r].live] \in Slots
    BY <1>12 DEF ListFinish, Tasks, Slots, InFlight
  <2>2. cache' \in [Keys -> Slots]
    BY <1>12, <2>1, BlankType DEF ListFinish, StoreIfEpoch
  <2>3. PICK t \in Tasks : t.st \notin InFlight /\ req' = [req EXCEPT ![r] = t]
    BY <1>12, <2>1, NoTaskType, BlankType DEF ListFinish
  <2>4. QED
    BY <1>12, <2>2, <2>3, <1>q DEF ListFinish
<1>13. ASSUME NEW r \in Requests, CancelList(r) PROVE TypeInv'
  <2>1. [req[r] EXCEPT !.cancelled = TRUE] \in Tasks
    <3>1. req[r] \in Tasks
      OBVIOUS
    <3>2. QED
      BY ONLY <3>1 DEF Tasks
  <2>2. [req[r] EXCEPT !.cancelled = TRUE].key \in Keys
    <3>1. req[r] \in Tasks /\ req[r].key \in Keys
      BY <1>13 DEF CancelList
    <3>2. QED
      BY ONLY <3>1 DEF Tasks
  <2>3. req' = [req EXCEPT ![r] = [req[r] EXCEPT !.cancelled = TRUE]]
    BY <1>13 DEF CancelList
  <2>4. QED
    BY <1>13, <2>1, <2>2, <2>3, <1>q DEF CancelList
<1>14. CASE UNCHANGED vars
  BY <1>14 DEF vars, disk, watch, history
<1>15. QED
  BY <1>1, <1>2, <1>3, <1>4, <1>5, <1>6, <1>7, <1>8, <1>9, <1>10, <1>11, <1>12, <1>13,
     <1>14, <1>16 DEF Next, Debounce, Task

----------------------------------------------------------------------------
(* CoverInv.                                                               *)

LEMMA FacetsType == \A d \in Dirs : Facets(d) \subseteq Sources
BY DEF Facets, Sources

LEMMA KeyFacets ==
  \A k \in Keys : k[1] \in Dirs /\ Facets(k[1]) \subseteq Sources /\ k[1] \in Facets(k[1])
BY DEF Keys, Facets, Sources

LEMMA InitCover == Init => CoverInv /\ QueueInv
BY NoTaskType, BlankType DEF Init, CoverInv, EventInv, CacheCover, TaskCover, QueueInv,
   CacheQueued, TaskQueued, Cached, NoEntry

\* A task the step leaves alone keeps its part, when nothing new is announced.
LEMMA TaskFrame ==
  ASSUME TypeInv, TypeInv', NEW r \in Requests, TaskCover(r),
         req'[r] = req[r], epoch <= epoch',
         \A x \in Sources : announced'[x] = announced[x] /\ ver[x] <= ver'[x]
  PROVE  TaskCover(r)'
<1>1. CASE req[r].st \notin InFlight
  BY <1>1 DEF TaskCover
<1>2. CASE req[r].st \in InFlight
  <2>1. req[r].key \in Keys /\ req[r] \in Tasks
    BY <1>2 DEF TypeInv
  <2>2. req[r].epoch \in Nat /\ epoch \in Nat /\ epoch' \in Nat
    BY <2>1 DEF Tasks, TypeInv
  <2>3. ASSUME NEW x \in Facets(req[r].key[1])
        PROVE  /\ x \in Sources /\ ver[x] \in Nat /\ ver'[x] \in Nat
               /\ req[r].snap[x] \in Int
    BY <2>1, KeyFacets DEF TypeInv, Versions, Tasks, Listings
  <2>4. req[r].epoch <= epoch'
    BY <1>2, <2>2 DEF TaskCover
  <2>5. Storable(r)' => Storable(r)
    BY <1>2, <2>2 DEF Storable, TaskCover
  <2>6. QED
    BY <1>2, <2>3, <2>4, <2>5 DEF TaskCover
<1>3. QED
  BY <1>1, <1>2

\* The epoch has moved: a result scanned before can no longer be stored.
LEMMA EpochMoved ==
  ASSUME TypeInv, TypeInv', NEW r \in Requests, TaskCover(r),
         req'[r].st = req[r].st, req'[r].epoch = req[r].epoch, epoch' = epoch + 1
  PROVE  ~Storable(r)' /\ (req[r].st \in InFlight => req'[r].epoch <= epoch')
<1>1. req[r].epoch \in Nat /\ epoch \in Nat
  BY DEF TypeInv, Tasks
<1>2. req[r].st = "scanned" => req[r].st \in InFlight
  BY DEF InFlight
<1>3. QED
  BY <1>1, <1>2 DEF TaskCover, Storable

LEMMA CoverStep == TypeInv /\ CoverInv /\ [Next]_vars => CoverInv'
<1> SUFFICES ASSUME TypeInv, CoverInv, [Next]_vars PROVE CoverInv'
  OBVIOUS
<1> USE DEF CoverInv
<1>t. TypeInv'
  BY TypeStep
<1>n. /\ epoch \in Nat /\ epoch' \in Nat
      /\ \A x \in Sources : /\ ver[x] \in Nat /\ ver'[x] \in Nat
                            /\ announced[x] \in Nat /\ announced'[x] \in Nat
      /\ \A e \in events \cup raw \cup events' \cup raw' : e.src \in Sources /\ e.ver \in Nat
  BY <1>t DEF TypeInv, Versions, Report, RawChange
\* Steps that leave the epoch, the announcements and the cache alone.
<1>f. ASSUME \A x \in Sources : ver[x] <= ver'[x],
             UNCHANGED <<announced, epoch, cache>>
      PROVE  /\ CacheCover'
             /\ \A r \in Requests : req'[r] = req[r] => TaskCover(r)'
             /\ \A x \in Sources : announced'[x] <= ver'[x]
  <2>1. ASSUME NEW k \in Cached, NEW x \in Facets(k[1])
        PROVE  x \in Sources /\ cache[k].seen[x] \in Int
    BY KeyFacets DEF Cached, TypeInv, Slots, Listings
  <2>2. CacheCover'
    BY <1>f, <1>n, <2>1 DEF CacheCover, Cached
  <2>3. ASSUME NEW r \in Requests, req'[r] = req[r] PROVE TaskCover(r)'
    BY <1>f, <1>t, <1>n, <2>3, TaskFrame
  <2>4. QED
    BY <1>f, <1>n, <2>2, <2>3 DEF EventInv
\* What the disk does: nothing is reported before it happens.
<1>d. ASSUME NEW xs, NEW ys \in SUBSET (xs \cap Sources), NEW p, ver' = Changed(xs),
             events' = events \cup Reports(ys, p), UNCHANGED <<raw, announced>>
      PROVE  EventInv' /\ \A y \in Sources : ver[y] <= ver'[y]
  <2>1. \A y \in Sources : ver[y] <= ver'[y] /\ (y \in xs => ver'[y] = ver[y] + 1)
    BY <1>d, <1>n DEF Changed
  <2>2. ASSUME NEW e \in Reports(ys, p) PROVE e.ver <= ver'[e.src]
    <3>1. PICK y \in ys : e = [src |-> y, ver |-> ver[y] + 1, path |-> p]
      BY DEF Reports
    <3>2. QED
      BY <1>n, <2>1, <3>1
  <2>3. QED
    BY <1>d, <1>n, <2>1, <2>2 DEF EventInv
<1>1. ASSUME NEW x \in Sources, DiskChange(x) PROVE CoverInv'
  <2>1. EventInv' /\ \A y \in Sources : ver[y] <= ver'[y]
    BY <1>1, <1>d DEF DiskChange, history
  <2>2. QED
    BY <1>1, <1>f, <2>1 DEF DiskChange, history
<1>16. ASSUME NEW d \in Dirs, DirCreated(d) PROVE CoverInv'
  <2>1. EventInv' /\ \A y \in Sources : ver[y] <= ver'[y]
    BY <1>16, <1>d DEF DirCreated, history
  <2>2. QED
    BY <1>16, <1>f, <2>1 DEF DirCreated, history
<1>2. ASSUME NEW d \in Dirs, DirRemoved(d) PROVE CoverInv'
  <2>1. \A y \in Sources : ver[y] <= ver'[y]
    BY <1>2, <1>d DEF DirRemoved, history
  <2>2. EventInv'
    BY <1>2, <1>d DEF DirRemoved, history
  <2>3. CacheCover'
    <3>1. \A k \in Keys : cache'[k].has = cache[k].has /\ cache'[k].seen = cache[k].seen
      BY <1>2, NarrowSlots DEF DirRemoved, TypeInv
    <3>2. ASSUME NEW k \in Cached, NEW x \in Facets(k[1])
          PROVE  x \in Sources /\ cache[k].seen[x] \in Int
      BY KeyFacets DEF Cached, TypeInv, Slots, Listings
    <3>3. UNCHANGED announced
      BY <1>2 DEF DirRemoved, history
    <3>4. ASSUME NEW k \in Keys, cache'[k].has, NEW x \in Facets(k[1])
          PROVE  announced'[x] <= cache'[k].seen[x] /\ cache'[k].seen[x] <= ver'[x]
      <4>1. k \in Cached /\ x \in Sources /\ cache[k].seen[x] \in Int
        BY <3>1, <3>2, <3>4 DEF Cached
      <4>2. announced[x] <= cache[k].seen[x] /\ cache[k].seen[x] <= ver[x]
        BY <4>1 DEF CacheCover
      <4>3. QED
        BY <1>n, <2>1, <3>1, <3>3, <4>1, <4>2
    <3>5. QED
      BY <3>4 DEF CacheCover, Cached
  <2>4. ASSUME NEW r \in Requests PROVE TaskCover(r)'
    <3>1. /\ req'[r].st = req[r].st /\ req'[r].key = req[r].key
          /\ req'[r].cancelled = req[r].cancelled /\ req'[r].epoch = req[r].epoch
          /\ req'[r].snap = req[r].snap /\ req'[r].floor = req[r].floor
      BY <1>2, NarrowTasks DEF DirRemoved, TypeInv
    <3>2. ASSUME req[r].st \in InFlight, NEW x \in Facets(req[r].key[1])
          PROVE  x \in Sources /\ req[r].snap[x] \in Int
      BY <3>2, KeyFacets DEF TypeInv, Tasks, Listings
    <3>3. epoch' = epoch /\ announced' = announced
      BY <1>2 DEF DirRemoved, history
    <3>4. QED
      BY <1>n, <2>1, <3>1, <3>2, <3>3 DEF TaskCover, Storable
  <2>5. QED
    BY <2>2, <2>3, <2>4
<1>3. ASSUME NEW d \in Dirs, Watch(d) PROVE CoverInv'
  BY <1>3, <1>f, <1>n DEF Watch, EventInv, disk, history
<1>4. ASSUME NEW d \in Dirs, Unwatch(d) PROVE CoverInv'
  <2>1. EventInv'
    BY <1>4 DEF Unwatch, EventInv, disk, history
  <2>2. \A k \in Keys : cache'[k].has => cache[k].has /\ cache'[k].seen = cache[k].seen
    <3>1. EvictDirs({d}) \in [Keys -> Slots]
      BY EvictType DEF TypeInv
    <3>2. \A k \in Keys : /\ cache'[k].has = EvictDirs({d})[k].has
                          /\ cache'[k].seen = EvictDirs({d})[k].seen
      BY <1>4, <3>1, NarrowSlots DEF Unwatch
    <3>3. QED
      BY <3>2 DEF EvictDirs, NoEntry
  <2>3. CacheCover'
    BY <1>4, <2>2 DEF Unwatch, CacheCover, Cached, disk, history
  <2>4. ASSUME NEW r \in Requests PROVE TaskCover(r)'
    <3>1. /\ req'[r].st = req[r].st /\ req'[r].key = req[r].key
          /\ req'[r].cancelled = req[r].cancelled /\ req'[r].epoch = req[r].epoch
          /\ req'[r].snap = req[r].snap /\ req'[r].floor = req[r].floor
      BY <1>4, NarrowTasks DEF Unwatch, TypeInv
    <3>2. epoch' = epoch + 1 /\ ver' = ver /\ announced' = announced
      BY <1>4 DEF Unwatch, disk, history
    <3>3. ~Storable(r)' /\ (req[r].st \in InFlight => req'[r].epoch <= epoch')
      BY <1>t, <3>1, <3>2, EpochMoved
    <3>4. QED
      BY <3>1, <3>2, <3>3 DEF TaskCover
  <2>5. QED
    BY <2>1, <2>3, <2>4
<1>5. ASSUME NEW e \in events, Deliver(e) PROVE CoverInv'
  <2>1. /\ UNCHANGED <<ver, epoch, cache, req, announced>> /\ events' \subseteq events
        /\ raw' \subseteq raw \cup {[src |-> e.src, ver |-> e.ver, dir |-> Owning(e)]}
    BY <1>5 DEF Deliver, disk
  <2>2. EventInv'
    BY <2>1 DEF EventInv
  <2>3. QED
    BY <1>f, <1>n, <2>1, <2>2
<1>6. ASSUME NEW b \in SUBSET raw, DebounceFlush(b) PROVE CoverInv'
  <2>1. /\ epoch' = epoch + 1 /\ UNCHANGED <<ver, events, req>> /\ raw' = raw \ b
        /\ \A x \in Sources : announced[x] <= announced'[x]
        /\ \A x \in Sources :
             announced'[x] = announced[x] \/ [src |-> x, ver |-> announced'[x]] \in Filed(b)
    BY <1>6 DEF DebounceFlush, Announces, disk
  <2>2. EventInv'
    <3>1. ASSUME NEW x \in Sources, [src |-> x, ver |-> announced'[x]] \in Filed(b)
          PROVE  announced'[x] <= ver[x]
      <4>1. PICK c \in b : c.src = x /\ c.ver = announced'[x]
        BY <3>1 DEF Filed
      <4>2. QED
        BY <4>1 DEF EventInv
    <3>2. QED
      BY <2>1, <3>1 DEF EventInv
  <2>3. ASSUME NEW k \in Keys, cache'[k].has, NEW x \in Facets(k[1])
        PROVE  cache[k].has /\ cache'[k] = cache[k] /\ announced'[x] = announced[x]
    <3>1. cache[k].has /\ cache'[k] = cache[k]
      BY <1>6, <2>3 DEF DebounceFlush, EvictDirs, NoEntry
    <3>2. ~\E c \in b : c.src = Rules
      BY <1>6, <2>3, KeyFacets DEF DebounceFlush, EvictDirs, NoEntry
    <3>3. k[1] \notin {c.dir : c \in b}
      BY <1>6, <2>3, <3>2 DEF DebounceFlush, EvictDirs, NoEntry
    <3>4. x \in Sources /\ (x = k[1] \/ x = Rules)
      BY KeyFacets DEF Facets
    <3>5. ASSUME announced'[x] # announced[x] PROVE FALSE
      <4>1. PICK c \in b : c.src = x /\ c.dir = Owner(x)
        BY <2>1, <3>4, <3>5 DEF Filed
      <4>2. QED
        BY <3>2, <3>3, <3>4, <4>1 DEF Owner
    <3>6. QED
      BY <3>1, <3>5
  <2>4. CacheCover'
    BY <2>1, <2>3 DEF CacheCover, Cached
  <2>5. ASSUME NEW r \in Requests PROVE TaskCover(r)'
    <3>1. ~Storable(r)' /\ (req[r].st \in InFlight => req'[r].epoch <= epoch')
      BY <1>t, <2>1, EpochMoved
    <3>2. ASSUME req[r].st \in InFlight, NEW x \in Facets(req[r].key[1])
          PROVE  x \in Sources /\ req[r].floor[x] \in Int
      BY <3>2, KeyFacets DEF TypeInv, Tasks, Listings
    <3>3. QED
      BY <1>n, <2>1, <3>1, <3>2 DEF TaskCover
  <2>6. QED
    BY <2>2, <2>4, <2>5
<1>7. ASSUME NEW r \in Requests, NEW d \in Dirs, NEW v \in Views, ListAccept(r, d, v)
      PROVE  CoverInv'
  <2>1. UNCHANGED <<ver, events, raw, epoch, cache, announced>>
    BY <1>7 DEF ListAccept, disk, history
  <2>2. req'[r].st = "ready" /\ req'[r].epoch = 0 /\ req'[r].key = <<d, v>>
    BY <1>7 DEF ListAccept, TypeInv
  <2>3. \A x \in Facets(d) : req'[r].floor[x] = announced[x]
    BY <1>7, FacetsType DEF ListAccept, TypeInv
  <2>4. TaskCover(r)'
    BY <1>n, <2>1, <2>2, <2>3, FacetsType DEF TaskCover, Storable
  <2>5. \A q \in Requests \ {r} : req'[q] = req[q]
    BY <1>7 DEF ListAccept, TypeInv
  <2>6. QED
    BY <1>f, <1>n, <2>1, <2>4, <2>5 DEF EventInv
\* A task that ends leaves nothing to cover.
<1>e. ASSUME NEW r \in Requests, req'[r].st \notin InFlight PROVE TaskCover(r)'
  BY <1>e DEF TaskCover
<1>8. ASSUME NEW r \in Requests, ListStart(r) PROVE CoverInv'
  <2>1. UNCHANGED <<ver, events, raw, epoch, cache, announced>>
    BY <1>8 DEF ListStart, disk, history
  <2>2. req[r].st = "ready" /\ req[r].key \in Keys
    BY <1>8 DEF ListStart, TypeInv, InFlight
  <2>3. \/ req'[r].st \notin InFlight
        \/ req'[r] = [req[r] EXCEPT !.st = "waiting"]
    BY <1>8, <2>2, NoTaskType, BlankType DEF ListStart, TypeInv, Slots
  <2>4. TaskCover(r)'
    <3>1. CASE req'[r] = [req[r] EXCEPT !.st = "waiting"]
      BY <2>1, <2>2, <3>1 DEF TaskCover, Storable, InFlight, TypeInv, Tasks
    <3>2. QED
      BY <1>e, <2>3, <3>1
  <2>5. \A q \in Requests \ {r} : req'[q] = req[q]
    BY <1>8 DEF ListStart, TypeInv
  <2>6. QED
    BY <1>f, <1>n, <2>1, <2>4, <2>5 DEF EventInv
<1>9. ASSUME NEW r \in Requests, ListPermit(r) PROVE CoverInv'
  <2>1. UNCHANGED <<ver, events, raw, epoch, cache, announced>>
    BY <1>9 DEF ListPermit, disk, history
  <2>2. \/ req'[r].st \notin InFlight
        \/ req'[r] = [req[r] EXCEPT !.st = "scanning", !.epoch = epoch]
    BY <1>9, NoTaskType, BlankType DEF ListPermit, TypeInv
  <2>3. TaskCover(r)'
    <3>1. CASE req'[r] = [req[r] EXCEPT !.st = "scanning", !.epoch = epoch]
      <4>1. /\ req'[r].st = "scanning" /\ req'[r].epoch = epoch
            /\ req'[r].key = req[r].key /\ req'[r].floor = req[r].floor
        BY <3>1 DEF TypeInv, Tasks
      <4>2. req[r].st \in InFlight
        BY <1>9 DEF ListPermit, InFlight
      <4>3. QED
        BY <1>n, <2>1, <4>1, <4>2 DEF TaskCover, Storable
    <3>2. QED
      BY <1>e, <2>2, <3>1
  <2>4. \A q \in Requests \ {r} : req'[q] = req[q]
    BY <1>9 DEF ListPermit, TypeInv
  <2>5. QED
    BY <1>f, <1>n, <2>1, <2>3, <2>4 DEF EventInv
<1>10. ASSUME NEW r \in Requests, ScanRead(r) PROVE CoverInv'
  <2> DEFINE snap == IF req[r].cancelled THEN Blank ELSE Snapshot(req[r].key[1])
  <2>1. UNCHANGED <<ver, events, raw, epoch, cache, announced>>
    BY <1>10 DEF ScanRead, disk, history
  <2>2. req[r].st = "scanning" /\ req[r].st \in InFlight /\ req[r].key \in Keys
    BY <1>10 DEF ScanRead, InFlight, TypeInv
  <2>3. req'[r] = [req[r] EXCEPT !.st = "scanned", !.snap = snap]
    BY <1>10 DEF ScanRead, TypeInv
  <2>4. ~req[r].cancelled => \A x \in Facets(req[r].key[1]) : snap[x] = ver[x]
    BY <2>2, KeyFacets DEF Snapshot
  <2> HIDE DEF snap
  <2>5. /\ req'[r].st = "scanned" /\ req'[r].snap = snap /\ req'[r].key = req[r].key
        /\ req'[r].cancelled = req[r].cancelled /\ req'[r].epoch = req[r].epoch
        /\ req'[r].floor = req[r].floor
    BY <2>3 DEF TypeInv, Tasks
  <2>6. \A x \in Facets(req[r].key[1]) :
          x \in Sources /\ req[r].floor[x] \in Int
    BY <2>2, KeyFacets DEF TypeInv, Tasks, Listings
  <2>7. TaskCover(r)'
    BY <1>n, <2>1, <2>2, <2>4, <2>5, <2>6 DEF TaskCover, Storable, EventInv
  <2>8. \A q \in Requests \ {r} : req'[q] = req[q]
    BY <1>10 DEF ScanRead, TypeInv
  <2>9. QED
    BY <1>f, <1>n, <2>1, <2>7, <2>8 DEF EventInv
<1>11. ASSUME NEW r \in Requests, ScanFail(r) PROVE CoverInv'
  <2>1. UNCHANGED <<ver, events, raw, epoch, cache, announced>>
    BY <1>11 DEF ScanFail, disk, history
  <2>2. req'[r].st \notin InFlight /\ \A q \in Requests \ {r} : req'[q] = req[q]
    BY <1>11, NoTaskType, BlankType DEF ScanFail, TypeInv
  <2>3. QED
    BY <1>e, <1>f, <1>n, <2>1, <2>2 DEF EventInv
<1>12. ASSUME NEW r \in Requests, ListFinish(r) PROVE CoverInv'
  <2>1. UNCHANGED <<ver, events, raw, epoch, announced>>
    BY <1>12 DEF ListFinish, disk, history
  <2>2. /\ req[r].st = "scanned" /\ req[r].key \in Keys /\ req[r].snap \in Listings
        /\ req[r].st \in InFlight
    BY <1>12 DEF ListFinish, TypeInv, Tasks, InFlight
  <2>3. req'[r].st \notin InFlight /\ \A q \in Requests \ {r} : req'[q] = req[q]
    BY <1>12, <2>2, NoTaskType, BlankType DEF ListFinish, TypeInv
  <2>4. ASSUME NEW k \in Keys, cache'[k].has
        PROVE  \/ cache'[k] = cache[k]
               \/ k = req[r].key /\ Storable(r) /\ cache'[k].seen = req[r].snap
    BY <1>12, <2>2, <2>4 DEF ListFinish, StoreIfEpoch, Storable, NoEntry, TypeInv
  <2>5. CacheCover'
    BY <2>1, <2>2, <2>4 DEF CacheCover, Cached, TaskCover, Storable
  <2>6. ASSUME NEW q \in Requests PROVE TaskCover(q)'
    BY <1>e, <1>n, <1>t, <2>1, <2>3, TaskFrame
  <2>7. QED
    BY <2>1, <2>5, <2>6 DEF EventInv
<1>13. ASSUME NEW r \in Requests, CancelList(r) PROVE CoverInv'
  <2>1. UNCHANGED <<ver, events, raw, epoch, cache, announced>>
    BY <1>13 DEF CancelList, disk, history
  <2>2. req'[r] = [req[r] EXCEPT !.cancelled = TRUE] /\ req[r].st \in InFlight
    BY <1>13 DEF CancelList, TypeInv
  <2>3. /\ req'[r].st = req[r].st /\ req'[r].key = req[r].key /\ req'[r].cancelled
        /\ req'[r].epoch = req[r].epoch /\ req'[r].floor = req[r].floor
    BY <2>2 DEF TypeInv, Tasks
  <2>4. TaskCover(r)'
    BY <2>1, <2>2, <2>3 DEF TaskCover, Storable
  <2>5. \A q \in Requests \ {r} : req'[q] = req[q]
    BY <1>13 DEF CancelList, TypeInv
  <2>6. QED
    BY <1>f, <1>n, <2>1, <2>4, <2>5 DEF EventInv
<1>14. CASE UNCHANGED vars
  BY <1>14, <1>f, <1>n DEF vars, EventInv, disk, history
<1>15. QED
  BY <1>1, <1>2, <1>3, <1>4, <1>5, <1>6, <1>7, <1>8, <1>9, <1>10, <1>11, <1>12, <1>13,
     <1>14, <1>16 DEF Next, Debounce, Task

----------------------------------------------------------------------------
(* QueueInv.                                                               *)

LEMMA QueueStep == TypeInv /\ CoverInv /\ QueueInv /\ [Next]_vars => QueueInv'
<1> SUFFICES ASSUME TypeInv, CoverInv, QueueInv, [Next]_vars PROVE QueueInv'
  OBVIOUS
<1> USE DEF QueueInv
<1>t. TypeInv'
  BY TypeStep
\* A step that touches neither the disk, the queues nor the watches keeps the
\* slots and the tasks it leaves alone.
<1>f. ASSUME UNCHANGED <<ver, kernel, watched, events, raw, epoch, misfiled>>
      PROVE  /\ \A k \in Keys : cache'[k] = cache[k] =>
                  \A x \in cache[k].live : cache[k].has =>
                    /\ x \in Facets(k[1]) /\ Owner(x) \in watched' /\ Owner(x) \in kernel'
                    /\ \A v \in cache'[k].seen[x] + 1 .. ver'[x] : Queued(x, v)'
             /\ \A r \in Requests : req'[r] = req[r] => TaskQueued(r)'
  BY <1>f DEF CacheQueued, TaskQueued, Cached, Queued, Carried, Misfiled, Storable
\* A task that ends leaves nothing to queue.
<1>e. ASSUME NEW r \in Requests, req'[r].live = {} PROVE TaskQueued(r)'
  BY <1>e DEF TaskQueued
\* What the disk does is queued if it is watched, and so is what was.
<1>d. ASSUME NEW xs, NEW p, ver' = Changed(xs),
             events' = events \cup Reports(Sources \cap xs, p), UNCHANGED <<raw, misfiled>>
      PROVE  \A y \in Sources, n \in Int :
               Owner(y) \in kernel /\ (\A v \in n + 1 .. ver[y] : Queued(y, v))
                 => \A v \in n + 1 .. ver'[y] : Queued(y, v)'
  <2> SUFFICES ASSUME NEW y \in Sources, NEW n \in Int, Owner(y) \in kernel,
                      \A v \in n + 1 .. ver[y] : Queued(y, v),
                      NEW v \in n + 1 .. ver'[y]
               PROVE  Queued(y, v)'
    OBVIOUS
  <2>1. ver[y] \in Nat /\ ver'[y] = (IF y \in xs THEN ver[y] + 1 ELSE ver[y])
    BY <1>d DEF TypeInv, Versions, Changed
  <2>2. CASE v \in n + 1 .. ver[y]
    BY <1>d, <2>2 DEF Queued, Carried, Misfiled
  <2>3. CASE v \notin n + 1 .. ver[y]
    <3>1. y \in xs /\ v = ver[y] + 1
      BY <2>1, <2>3
    <3>2. [src |-> y, ver |-> v, path |-> p] \in events'
      BY <1>d, <3>1 DEF Reports
    <3>3. QED
      BY <3>2 DEF Queued, Carried
  <2>4. QED
    BY <2>2, <2>3
<1>s. /\ \A k \in Keys : cache[k].live \subseteq Sources
      /\ \A k \in Keys, x \in Sources : cache[k].seen[x] \in Int
      /\ \A r \in Requests : req[r].live \subseteq Sources
      /\ \A r \in Requests, x \in Sources : req[r].snap[x] \in Int
  BY DEF TypeInv, Slots, Tasks, Listings
\* A change on disk leaves the watches alone.
<1>w. ASSUME NEW xs, NEW p, ver' = Changed(xs),
             events' = events \cup Reports(Sources \cap xs, p),
             UNCHANGED <<raw, misfiled, kernel, watched, epoch, cache, req>>
      PROVE  QueueInv'
  <2>1. \A y \in Sources, n \in Int :
          Owner(y) \in kernel /\ (\A v \in n + 1 .. ver[y] : Queued(y, v))
            => \A v \in n + 1 .. ver'[y] : Queued(y, v)'
    BY <1>w, <1>d
  <2>2. CacheQueued'
    BY <1>s, <1>w, <2>1 DEF CacheQueued, Cached
  <2>3. ASSUME NEW r \in Requests PROVE TaskQueued(r)'
    BY <1>s, <1>w, <2>1 DEF TaskQueued, Storable
  <2>4. QED
    BY <2>2, <2>3
<1>1. ASSUME NEW x \in Sources, DiskChange(x) PROVE QueueInv'
  <2>1. Sources \cap {x} = {x}
    OBVIOUS
  <2>2. QED
    BY <1>1, <1>w, <2>1 DEF DiskChange, watch, history
<1>16. ASSUME NEW d \in Dirs, DirCreated(d) PROVE QueueInv'
  BY <1>16, <1>w DEF DirCreated, watch, history
<1>2. ASSUME NEW d \in Dirs, DirRemoved(d) PROVE QueueInv'
  <2>1. UNCHANGED <<watched, raw, epoch, misfiled>> /\ kernel' = kernel \ {d}
    BY <1>2 DEF DirRemoved, history
  <2>2. \A y \in Sources, n \in Int :
          Owner(y) \in kernel /\ (\A v \in n + 1 .. ver[y] : Queued(y, v))
            => \A v \in n + 1 .. ver'[y] : Queued(y, v)'
    BY <1>2, <1>d DEF DirRemoved, history
  <2>4. \A k \in Keys : /\ cache'[k].has = cache[k].has /\ cache'[k].seen = cache[k].seen
                        /\ cache'[k].live = OfOthers(d, cache[k].live)
    BY <1>2, NarrowSlots DEF DirRemoved, TypeInv
  <2>5. \A r \in Requests :
          /\ req'[r].st = req[r].st /\ req'[r].key = req[r].key
          /\ req'[r].cancelled = req[r].cancelled /\ req'[r].epoch = req[r].epoch
          /\ req'[r].snap = req[r].snap /\ req'[r].live = OfOthers(d, req[r].live)
    BY <1>2, NarrowTasks DEF DirRemoved, TypeInv
  <2>7. CacheQueued'
    BY <1>s, <2>1, <2>2, <2>4 DEF CacheQueued, Cached, OfOthers
  <2>8. ASSUME NEW r \in Requests PROVE TaskQueued(r)'
    BY <1>s, <2>1, <2>2, <2>5 DEF TaskQueued, Storable, OfOthers
  <2>9. QED
    BY <2>7, <2>8
<1>3. ASSUME NEW d \in Dirs, Watch(d) PROVE QueueInv'
  BY <1>3 DEF Watch, CacheQueued, TaskQueued, Cached, Queued, Carried, Misfiled, Storable, disk, history
<1>4. ASSUME NEW d \in Dirs, Unwatch(d) PROVE QueueInv'
  <2>1. /\ UNCHANGED <<ver, events, raw, misfiled>> /\ epoch' = epoch + 1
        /\ watched' = watched \ {d} /\ kernel \ {d} \subseteq kernel'
    BY <1>4 DEF Unwatch, disk, history
  <2>2. \A k \in Keys : cache'[k].has =>
          /\ cache[k].has /\ cache'[k].seen = cache[k].seen
          /\ cache'[k].live = OfOthers(d, cache[k].live)
    <3>1. EvictDirs({d}) \in [Keys -> Slots]
      BY EvictType DEF TypeInv
    <3>2. \A k \in Keys : /\ cache'[k].has = EvictDirs({d})[k].has
                          /\ cache'[k].seen = EvictDirs({d})[k].seen
                          /\ cache'[k].live = OfOthers(d, EvictDirs({d})[k].live)
      BY <1>4, <3>1, NarrowSlots DEF Unwatch
    <3>3. QED
      BY <3>2 DEF EvictDirs, NoEntry
  <2>3. CacheQueued'
    BY <2>1, <2>2 DEF CacheQueued, Cached, OfOthers, Queued, Carried, Misfiled
  <2>4. ASSUME NEW r \in Requests PROVE TaskQueued(r)'
    <3>1. /\ req'[r].st = req[r].st /\ req'[r].key = req[r].key
          /\ req'[r].epoch = req[r].epoch /\ req'[r].live = OfOthers(d, req[r].live)
      BY <1>4, NarrowTasks DEF Unwatch, TypeInv
    <3>2. ~Storable(r)'
      BY <1>t, <2>1, <3>1, EpochMoved DEF CoverInv
    <3>3. QED
      BY <2>1, <3>1, <3>2 DEF TaskQueued, OfOthers
  <2>5. QED
    BY <2>3, <2>4
<1>5. ASSUME NEW e \in events, Deliver(e) PROVE QueueInv'
  <2>1. /\ UNCHANGED <<ver, kernel, watched, epoch, cache, req>> /\ events' = events \ {e}
        /\ raw \subseteq raw' /\ misfiled \subseteq misfiled'
    BY <1>5 DEF Deliver, disk, watch
  <2>2. ASSUME NEW y, NEW v, Queued(y, v), Owner(y) \in watched PROVE Queued(y, v)'
    <3>1. CASE y = e.src /\ v = e.ver
      <4>1. Owning(e) \in Dirs /\ Owning(e) # NoDir
        BY <2>2, <3>1, ListingAssumption DEF Owning, TypeInv
      <4>2. CASE Owning(e) = Owner(y)
        <5>1. [src |-> y, ver |-> v, dir |-> Owner(y)] \in raw'
          BY <1>5, <3>1, <4>1, <4>2 DEF Deliver
        <5>2. QED
          BY <5>1 DEF Queued, Carried
      <4>3. CASE Owning(e) # Owner(y)
        <5>1. [src |-> y, ver |-> v] \in misfiled'
          BY <1>5, <3>1, <4>1, <4>3 DEF Deliver
        <5>2. QED
          BY <5>1 DEF Queued, Misfiled
      <4>4. QED
        BY <4>2, <4>3
    <3>2. CASE ~(y = e.src /\ v = e.ver)
      BY <2>1, <2>2, <3>2 DEF Queued, Carried, Misfiled
    <3>3. QED
      BY <3>1, <3>2
  <2>3. QED
    BY <2>1, <2>2 DEF CacheQueued, TaskQueued, Cached, Storable
<1>6. ASSUME NEW b \in SUBSET raw, DebounceFlush(b) PROVE QueueInv'
  <2>1. /\ epoch' = epoch + 1 /\ UNCHANGED <<ver, kernel, watched, events, req, misfiled>>
        /\ raw' = raw \ b
    BY <1>6 DEF DebounceFlush, disk, watch
  <2>2. ASSUME NEW k \in Keys, cache'[k].has
        PROVE  /\ cache[k].has /\ cache'[k] = cache[k]
               /\ \A x \in Facets(k[1]) : \A v : Queued(x, v) => Queued(x, v)'
    <3>1. cache[k].has /\ cache'[k] = cache[k]
      BY <1>6, <2>2 DEF DebounceFlush, EvictDirs, NoEntry
    <3>2. ~\E c \in b : c.src = Rules
      BY <1>6, <2>2, KeyFacets DEF DebounceFlush, EvictDirs, NoEntry
    <3>3. k[1] \notin {c.dir : c \in b}
      BY <1>6, <2>2, <3>2 DEF DebounceFlush, EvictDirs, NoEntry
    <3>4. \A x \in Facets(k[1]) : \A c \in b : ~(c.src = x /\ c.dir = Owner(x))
      BY <3>2, <3>3 DEF Facets, Owner
    <3>5. QED
      BY <2>1, <3>1, <3>4 DEF Queued, Carried, Misfiled
  <2>3. CacheQueued'
    BY <2>1, <2>2 DEF CacheQueued, Cached
  <2>4. ASSUME NEW r \in Requests PROVE TaskQueued(r)'
    <3>1. ~Storable(r)'
      BY <1>t, <2>1, EpochMoved DEF CoverInv
    <3>2. QED
      BY <2>1, <3>1 DEF TaskQueued
  <2>5. QED
    BY <2>3, <2>4
<1>7. ASSUME NEW r \in Requests, NEW d \in Dirs, NEW v \in Views, ListAccept(r, d, v)
      PROVE  QueueInv'
  <2>1. UNCHANGED <<ver, kernel, watched, events, raw, epoch, cache, misfiled>>
    BY <1>7 DEF ListAccept, disk, watch, history
  <2>2. /\ req'[r].st = "ready" /\ req'[r].key = <<d, v>>
        /\ req'[r].live = {x \in Facets(d) : Owner(x) \in watched \cap kernel}
        /\ \A q \in Requests \ {r} : req'[q] = req[q]
    BY <1>7 DEF ListAccept, TypeInv
  <2>3. TaskQueued(r)'
    BY <2>1, <2>2 DEF TaskQueued, Storable
  <2>4. CacheQueued'
    BY <2>1 DEF CacheQueued, Cached, Queued, Carried, Misfiled
  <2>5. QED
    BY <1>f, <2>1, <2>2, <2>3, <2>4
<1>8. ASSUME NEW r \in Requests, ListStart(r) PROVE QueueInv'
  <2>1. UNCHANGED <<ver, kernel, watched, events, raw, epoch, cache, misfiled>>
    BY <1>8 DEF ListStart, disk, watch, history
  <2>2. req[r].key \in Keys /\ req[r].st = "ready"
    BY <1>8 DEF ListStart, TypeInv, InFlight
  <2>3. \/ req'[r].live = {}
        \/ req'[r] = [req[r] EXCEPT !.st = "waiting"]
    BY <1>8, <2>2, NoTaskType, BlankType DEF ListStart, TypeInv, Slots
  <2>4. TaskQueued(r)'
    BY <1>e, <2>1, <2>2, <2>3 DEF TaskQueued, Storable, TypeInv, Tasks
  <2>5. CacheQueued' /\ \A q \in Requests \ {r} : req'[q] = req[q]
    BY <1>8, <2>1 DEF CacheQueued, Cached, Queued, Carried, Misfiled, ListStart, TypeInv
  <2>6. QED
    BY <1>f, <2>1, <2>4, <2>5
<1>9. ASSUME NEW r \in Requests, ListPermit(r) PROVE QueueInv'
  <2>1. UNCHANGED <<ver, kernel, watched, events, raw, epoch, cache, misfiled>>
    BY <1>9 DEF ListPermit, disk, watch, history
  <2>2. \/ req'[r].live = {}
        \/ req'[r] = [req[r] EXCEPT !.st = "scanning", !.epoch = epoch]
    BY <1>9, NoTaskType, BlankType DEF ListPermit, TypeInv
  <2>6. ASSUME req'[r] = [req[r] EXCEPT !.st = "scanning", !.epoch = epoch]
        PROVE  TaskQueued(r)'
    <3>1. req'[r].st = "scanning" /\ req'[r].live = req[r].live /\ req'[r].key = req[r].key
      BY <2>6 DEF TypeInv, Tasks
    <3>2. TaskQueued(r)
      BY DEF QueueInv
    <3>3. ~Storable(r)'
      BY <3>1 DEF Storable
    <3>4. QED
      BY <2>1, <3>1, <3>2, <3>3 DEF TaskQueued
  <2>3. TaskQueued(r)'
    BY <1>e, <2>2, <2>6
  <2>4. CacheQueued' /\ \A q \in Requests \ {r} : req'[q] = req[q]
    BY <1>9, <2>1 DEF CacheQueued, Cached, Queued, Carried, Misfiled, ListPermit, TypeInv
  <2>5. QED
    BY <1>f, <2>1, <2>3, <2>4
<1>10. ASSUME NEW r \in Requests, ScanRead(r) PROVE QueueInv'
  <2> DEFINE snap == IF req[r].cancelled THEN Blank ELSE Snapshot(req[r].key[1])
  <2>1. UNCHANGED <<ver, kernel, watched, events, raw, epoch, cache, misfiled>>
    BY <1>10 DEF ScanRead, disk, watch, history
  <2>2. req'[r] = [req[r] EXCEPT !.st = "scanned", !.snap = snap]
    BY <1>10 DEF ScanRead, TypeInv
  <2>3. req[r].key \in Keys
    BY <1>10 DEF ScanRead, TypeInv, InFlight
  <2>4. ~req[r].cancelled => \A x \in Facets(req[r].key[1]) : snap[x] = ver[x]
    BY <2>3, KeyFacets DEF Snapshot
  <2> HIDE DEF snap
  <2>5. TaskQueued(r)'
    <3>1. /\ req'[r].st = "scanned" /\ req'[r].live = req[r].live
          /\ req'[r].key = req[r].key /\ req'[r].snap = snap
          /\ req'[r].cancelled = req[r].cancelled
      BY <2>2 DEF TypeInv, Tasks
    <3>2. TaskQueued(r)
      BY DEF QueueInv
    <3>3. ASSUME NEW x \in req'[r].live, Storable(r)'
          PROVE  snap[x] + 1 .. ver[x] = {}
      <4>1. x \in Facets(req[r].key[1]) /\ ~req[r].cancelled
        BY <3>1, <3>2, <3>3 DEF TaskQueued, Storable
      <4>2. snap[x] = ver[x] /\ ver[x] \in Nat
        BY <2>3, <2>4, <4>1, KeyFacets DEF TypeInv, Versions
      <4>3. QED
        BY <4>2
    <3>4. QED
      BY <2>1, <3>1, <3>2, <3>3 DEF TaskQueued
  <2>6. CacheQueued' /\ \A q \in Requests \ {r} : req'[q] = req[q]
    BY <1>10, <2>1 DEF CacheQueued, Cached, Queued, Carried, Misfiled, ScanRead, TypeInv
  <2>7. QED
    BY <1>f, <2>1, <2>5, <2>6
<1>11. ASSUME NEW r \in Requests, ScanFail(r) PROVE QueueInv'
  <2>1. UNCHANGED <<ver, kernel, watched, events, raw, epoch, cache, misfiled>>
    BY <1>11 DEF ScanFail, disk, watch, history
  <2>2. req'[r].live = {} /\ \A q \in Requests \ {r} : req'[q] = req[q]
    BY <1>11, NoTaskType, BlankType DEF ScanFail, TypeInv
  <2>3. CacheQueued'
    BY <2>1 DEF CacheQueued, Cached, Queued, Carried, Misfiled
  <2>4. QED
    BY <1>e, <1>f, <2>1, <2>2, <2>3
<1>12. ASSUME NEW r \in Requests, ListFinish(r) PROVE QueueInv'
  <2>1. UNCHANGED <<ver, kernel, watched, events, raw, epoch, misfiled>>
    BY <1>12 DEF ListFinish, disk, watch, history
  <2>2. /\ req[r].st = "scanned" /\ req[r].key \in Keys /\ req[r].snap \in Listings
    BY <1>12 DEF ListFinish, TypeInv, Tasks, InFlight
  <2>3. req'[r].live = {} /\ \A q \in Requests \ {r} : req'[q] = req[q]
    BY <1>12, <2>2, NoTaskType, BlankType DEF ListFinish, TypeInv
  <2>4. ASSUME NEW k \in Keys, cache'[k].has
        PROVE  \/ cache'[k] = cache[k]
               \/ /\ k = req[r].key /\ Storable(r) /\ cache'[k].seen = req[r].snap
                  /\ cache'[k].live = req[r].live
    BY <1>12, <2>2, <2>4 DEF ListFinish, StoreIfEpoch, Storable, NoEntry, TypeInv
  <2>5. TaskQueued(r)
    OBVIOUS
  <2>6. CacheQueued'
    BY <2>1, <2>2, <2>4, <2>5 DEF CacheQueued, Cached, TaskQueued, Queued, Carried, Misfiled
  <2>7. QED
    BY <1>e, <1>f, <2>1, <2>3, <2>6
<1>13. ASSUME NEW r \in Requests, CancelList(r) PROVE QueueInv'
  <2>1. UNCHANGED <<ver, kernel, watched, events, raw, epoch, cache, misfiled>>
    BY <1>13 DEF CancelList, disk, watch, history
  <2>2. req'[r] = [req[r] EXCEPT !.cancelled = TRUE]
    BY <1>13 DEF CancelList, TypeInv
  <2>3. TaskQueued(r)'
    BY <2>1, <2>2 DEF TaskQueued, Storable, TypeInv, Tasks
  <2>4. CacheQueued' /\ \A q \in Requests \ {r} : req'[q] = req[q]
    BY <1>13, <2>1 DEF CacheQueued, Cached, Queued, Carried, Misfiled, CancelList, TypeInv
  <2>5. QED
    BY <1>f, <2>1, <2>3, <2>4
<1>14. CASE UNCHANGED vars
  BY <1>14 DEF vars, disk, watch, history, CacheQueued, TaskQueued, Cached, Queued, Carried, Misfiled, Storable
<1>15. QED
  BY <1>1, <1>2, <1>3, <1>4, <1>5, <1>6, <1>7, <1>8, <1>9, <1>10, <1>11, <1>12, <1>13,
     <1>14, <1>16 DEF Next, Debounce, Task

----------------------------------------------------------------------------
(* The theorems.                                                           *)

\* IInv is inductive: it holds in every reachable state.
THEOREM InvCorrect == Spec => []IInv
<1>1. Init => IInv
  BY InitType, InitCover DEF IInv
<1>2. IInv /\ [Next]_vars => IInv'
  BY TypeStep, CoverStep, QueueStep DEF IInv
<1>3. QED
  BY <1>1, <1>2, PTL DEF Spec

\* Under an unbroken watch no change that is filed under its directory is lost
\* between the disk and the cache: what a cached listing does not show has its
\* invalidation on the way.
THEOREM NoLostInvalidation == Spec => []StaleImpliesPending
<1>1. IInv => StaleImpliesPending
  BY DEF IInv, QueueInv, CacheQueued, StaleImpliesPending, Missed, Queued
<1>2. QED
  BY <1>1, InvCorrect, PTL

----------------------------------------------------------------------------
(* The two limits.                                                         *)

SizeInv == Cardinality(watched) <= MaxWatches /\ Cardinality(Cached) <= MaxCached

\* Every set of watched directories, and every set of cached keys, is finite.
LEMMA AllFinite ==
  TypeInv => IsFiniteSet(watched) /\ IsFiniteSet(Cached) /\ Cached \subseteq Keys
<1>1. IsFiniteSet(Keys)
  BY ListingAssumption, FS_Product DEF Keys
<1>2. QED
  BY <1>1, ListingAssumption, FS_Subset DEF TypeInv, Cached

\* A step that caches nothing new keeps the number of cached listings down.
LEMMA FewerCached ==
  ASSUME TypeInv, SizeInv, \A k \in Keys : cache'[k].has => cache[k].has
  PROVE  Cardinality(Cached)' <= MaxCached
<1>1. Cached' \subseteq Cached
  BY DEF Cached
<1>2. /\ IsFiniteSet(Cached') /\ Cardinality(Cached') <= Cardinality(Cached)
      /\ Cardinality(Cached') \in Nat /\ Cardinality(Cached) \in Nat
  BY <1>1, AllFinite, FS_Subset, FS_CardinalityType
<1>3. QED
  BY <1>2, ListingAssumption DEF SizeInv

\* store_if_epoch keeps the map within its limit: it empties a full one first.
LEMMA StoreSize ==
  ASSUME TypeInv, SizeInv, NEW k \in Keys, NEW entry \in Slots, NEW e \in Nat,
         entry.has, StoreIfEpoch(k, entry, e)
  PROVE  Cardinality(Cached)' <= MaxCached
<1>f. Cardinality(Cached) \in Nat
  BY AllFinite, FS_CardinalityType
<1>1. CASE e # epoch
  BY <1>1, FewerCached DEF StoreIfEpoch
<1>2. CASE e = epoch /\ Cardinality(Cached) >= MaxCached
  <2>1. Cached' \subseteq {k}
    BY <1>2 DEF StoreIfEpoch, Cached, NoEntry
  <2>2. IsFiniteSet({k}) /\ Cardinality({k}) = 1
    BY FS_Singleton
  <2>3. Cardinality(Cached') <= 1 /\ Cardinality(Cached') \in Nat
    BY <2>1, <2>2, FS_Subset, FS_CardinalityType
  <2>4. QED
    BY <2>3, ListingAssumption
<1>3. CASE e = epoch /\ ~(Cardinality(Cached) >= MaxCached)
  <2>1. Cached' = Cached \cup {k}
    BY <1>3 DEF StoreIfEpoch, Cached, TypeInv
  <2>2. /\ IsFiniteSet(Cached)
        /\ Cardinality(Cached \cup {k}) \in {Cardinality(Cached), Cardinality(Cached) + 1}
    BY AllFinite, FS_AddElement
  <2>3. Cardinality(Cached') \in Nat
    BY <2>1, AllFinite, FS_AddElement, FS_CardinalityType
  <2>4. Cardinality(Cached') <= Cardinality(Cached) + 1
    BY <2>1, <2>2, <1>f
  <2>5. QED
    BY <1>3, <1>f, <2>3, <2>4, ListingAssumption
<1>4. QED
  BY <1>1, <1>2, <1>3

\* Both limits survive every step.
LEMMA SizeStep == TypeInv /\ SizeInv /\ [Next]_vars => SizeInv'
<1> SUFFICES ASSUME TypeInv, SizeInv, [Next]_vars PROVE SizeInv'
  OBVIOUS
<1>f. /\ IsFiniteSet(watched) /\ Cardinality(watched) \in Nat
      /\ Cardinality(watched) <= MaxWatches
  BY AllFinite, FS_CardinalityType DEF SizeInv
<1>c. ASSUME UNCHANGED cache PROVE Cardinality(Cached)' <= MaxCached
  BY <1>c, FewerCached
<1>w. ASSUME watched' \subseteq watched PROVE Cardinality(watched)' <= MaxWatches
  <2>1. Cardinality(watched') <= Cardinality(watched) /\ Cardinality(watched') \in Nat
    BY <1>f, <1>w, FS_Subset, FS_CardinalityType
  <2>2. QED
    BY <1>f, <2>1, ListingAssumption
<1>1. ASSUME NEW d \in Dirs, DirRemoved(d) PROVE SizeInv'
  <2>1. \A k \in Keys : cache'[k].has = cache[k].has
    BY <1>1, NarrowSlots DEF DirRemoved, TypeInv
  <2>2. QED
    BY <1>1, <1>w, <2>1, FewerCached DEF SizeInv, DirRemoved
<1>2. ASSUME NEW d \in Dirs, Watch(d) PROVE SizeInv'
  <2>1. Cardinality(watched') = Cardinality(watched) + 1
    BY <1>2, <1>f, FS_AddElement DEF Watch
  <2>2. QED
    BY <1>2, <1>c, <1>f, <2>1, ListingAssumption DEF Watch, SizeInv
<1>3. ASSUME NEW d \in Dirs, Unwatch(d) PROVE SizeInv'
  <2>1. EvictDirs({d}) \in [Keys -> Slots]
    BY EvictType DEF TypeInv
  <2>2. \A k \in Keys : cache'[k].has = EvictDirs({d})[k].has
    BY <1>3, <2>1, NarrowSlots DEF Unwatch
  <2>3. \A k \in Keys : cache'[k].has => cache[k].has
    BY <2>2 DEF EvictDirs, NoEntry
  <2>4. watched' \subseteq watched
    BY <1>3 DEF Unwatch
  <2>5. QED
    BY <1>w, <2>3, <2>4, FewerCached DEF SizeInv
<1>4. ASSUME NEW b \in SUBSET raw, DebounceFlush(b) PROVE SizeInv'
  <2>1. \A k \in Keys : cache'[k].has => cache[k].has
    BY <1>4 DEF DebounceFlush, EvictDirs, NoEntry
  <2>2. QED
    BY <1>4, <1>w, <2>1, FewerCached DEF SizeInv, DebounceFlush, watch
<1>5. ASSUME NEW r \in Requests, ListFinish(r) PROVE SizeInv'
  <2> DEFINE entry == [has |-> TRUE, seen |-> req[r].snap, live |-> req[r].live]
  <2>1. req[r].key \in Keys /\ req[r].epoch \in Nat /\ entry \in Slots /\ entry.has
    BY <1>5 DEF ListFinish, TypeInv, Tasks, Slots, InFlight
  <2>2. UNCHANGED cache \/ StoreIfEpoch(req[r].key, entry, req[r].epoch)
    BY <1>5 DEF ListFinish
  <2> HIDE DEF entry
  <2>3. Cardinality(Cached)' <= MaxCached
    BY <1>c, <2>1, <2>2, StoreSize
  <2>4. QED
    BY <1>5, <1>w, <2>3 DEF SizeInv, ListFinish, watch
<1>6. CASE UNCHANGED <<watch, cache>>
  BY <1>6, <1>c, <1>w DEF SizeInv, watch
<1>7. QED
  BY <1>1, <1>2, <1>3, <1>4, <1>5, <1>6
  DEF Next, Debounce, Task, DiskChange, DirCreated, Deliver, ListAccept, ListStart, ListPermit,
      ScanRead, ScanFail, CancelList, vars, watch

\* The state keeps its types, the watches stay within MAX_WATCHES and the cache
\* within MAX_CACHED_DIRS.
THEOREM TypeCorrect == Spec => []TypeOK
<1>1. Init => TypeInv /\ SizeInv
  <2>1. ASSUME Init PROVE SizeInv
    <3>1. watched = {} /\ Cached = {}
      BY <2>1 DEF Init, Cached, NoEntry
    <3>2. QED
      BY <3>1, FS_EmptySet, ListingAssumption DEF SizeInv
  <2>2. QED
    BY <2>1, InitType
<1>2. TypeInv /\ SizeInv /\ [Next]_vars => (TypeInv /\ SizeInv)'
  BY TypeStep, SizeStep
<1>3. TypeInv /\ SizeInv => TypeOK
  BY DEF TypeInv, SizeInv, TypeOK
<1>4. QED
  BY <1>1, <1>2, <1>3, PTL DEF Spec

----------------------------------------------------------------------------
(* The refinement.                                                         *)

asks == [r \in Requests |-> Ask(r)]

\* A step that leaves what Ask shows of every request alone leaves asks alone.
LEMMA AskSame ==
  ASSUME \A r \in Requests :
           /\ req'[r].st = req[r].st /\ req'[r].key = req[r].key
           /\ req'[r].floor = req[r].floor /\ req'[r].snap = req[r].snap
  PROVE  asks' = asks
BY DEF asks, Ask

\* A step of one request changes asks there and nowhere else.
LEMMA AskOne ==
  ASSUME NEW r \in Requests, \A q \in Requests \ {r} : req'[q] = req[q]
  PROVE  asks' = [asks EXCEPT ![r] = Ask(r)']
<1>1. \A q \in Requests \ {r} : Ask(q)' = Ask(q)
  BY DEF Ask
<1>2. QED
  BY <1>1 DEF asks

\* A task that ends without a listing is a Drop.
LEMMA EndsDropped ==
  ASSUME TypeInv, NEW r \in Requests, req[r].st \in InFlight,
         req' = [req EXCEPT ![r] = NoTask("dropped", Blank)], UNCHANGED <<ver, announced>>
  PROVE  Fresh!Drop(r)
<1>1. req'[r] = NoTask("dropped", Blank) /\ \A q \in Requests \ {r} : req'[q] = req[q]
  BY DEF TypeInv
<1>2. Ask(r)' = [st |-> "dropped", uses |-> {}, floor |-> Blank, seen |-> Blank]
  BY <1>1 DEF Ask, NoTask, InFlight
<1>3. asks[r].st = "asked"
  BY DEF asks, Ask
<1>4. asks' = [asks EXCEPT ![r] = Ask(r)']
  BY <1>1, AskOne
<1>5. [Fresh!Idle EXCEPT !.st = "dropped"] = Ask(r)'
  BY <1>2 DEF Fresh!Idle, Fresh!None, Blank
<1>6. QED
  BY <1>3, <1>4, <1>5 DEF Fresh!Drop, asks

\* A task that ends with a listing as new as its floor is an Answer.
LEMMA EndsAnswered ==
  ASSUME TypeInv, NEW r \in Requests, req[r].st \in InFlight, NEW seen \in Listings,
         req' = [req EXCEPT ![r] = NoTask("answered", seen)],
         UNCHANGED <<ver, announced>>,
         \A x \in Facets(req[r].key[1]) : req[r].floor[x] <= seen[x] /\ seen[x] <= ver[x]
  PROVE  Fresh!Answer(r)
<1>1. req'[r] = NoTask("answered", seen) /\ \A q \in Requests \ {r} : req'[q] = req[q]
  BY DEF TypeInv
<1>2. Ask(r)' = [st |-> "answered", uses |-> {}, floor |-> Blank, seen |-> seen]
  BY <1>1 DEF Ask, NoTask, InFlight
<1>3. /\ asks[r].st = "asked" /\ asks[r].uses = Facets(req[r].key[1])
      /\ asks[r].floor = req[r].floor
  BY DEF asks, Ask
<1>4. asks' = [asks EXCEPT ![r] = Ask(r)'] /\ asks'[r] = Ask(r)'
  BY <1>1, AskOne DEF asks
<1>5. asks'[r].seen = seen /\ seen \in [Sources -> Int]
  BY <1>2, <1>4 DEF Listings
<1>6. asks' = [asks EXCEPT ![r] =
        [st |-> "answered", uses |-> {}, floor |-> Fresh!None, seen |-> asks'[r].seen]]
  BY <1>2, <1>4, <1>5 DEF Fresh!None, Blank
<1>7. QED
  BY <1>3, <1>5, <1>6 DEF Fresh!Answer, asks

\* Every step of the daemon is a step of FreshListing or a stutter.
LEMMA FreshStep ==
  IInv /\ IInv' /\ [Next]_vars => [Fresh!Next]_<<ver, announced, asks>>
<1> SUFFICES ASSUME IInv, IInv', [Next]_vars
             PROVE  Fresh!Next \/ UNCHANGED <<ver, announced, asks>>
  OBVIOUS
<1> USE DEF IInv
\* What the disk does is a change of some sources.
<1>d. ASSUME NEW xs, ver' = Changed(xs), asks' = asks, announced' = announced
      PROVE  Fresh!Next
  <2>1. ver' \in Versions /\ \A x \in Sources : ver'[x] \in {ver[x], ver[x] + 1}
    BY <1>d DEF Changed, TypeInv, Versions
  <2>2. Fresh!Change
    BY <1>d, <2>1 DEF Fresh!Change, Fresh!Versions, Versions, asks
  <2>3. QED
    BY <2>2 DEF Fresh!Next
<1>1. ASSUME NEW x \in Sources, DiskChange(x) PROVE Fresh!Next
  BY <1>1, <1>d, AskSame DEF DiskChange, history
<1>2. ASSUME NEW d \in Dirs, DirRemoved(d) PROVE Fresh!Next
  <2>1. asks' = asks
    BY <1>2, AskSame, NarrowTasks DEF DirRemoved, TypeInv
  <2>2. QED
    BY <1>2, <1>d, <2>1 DEF DirRemoved, history
<1>14. ASSUME NEW d \in Dirs, DirCreated(d) PROVE Fresh!Next
  BY <1>14, <1>d, AskSame DEF DirCreated, history
<1>3. ASSUME NEW d \in Dirs, Watch(d) \/ Unwatch(d) PROVE UNCHANGED <<ver, announced, asks>>
  BY <1>3, AskSame, NarrowTasks DEF Watch, Unwatch, TypeInv, disk, history
<1>4. ASSUME NEW e \in events, Deliver(e) PROVE UNCHANGED <<ver, announced, asks>>
  BY <1>4, AskSame DEF Deliver, disk
<1>5. ASSUME NEW b \in SUBSET raw, DebounceFlush(b) PROVE Fresh!Next
  <2>1. asks' = asks /\ ver' = ver
    BY <1>5, AskSame DEF DebounceFlush, disk
  <2>2. announced' \in Fresh!Versions
    BY DEF TypeInv, Versions, Fresh!Versions
  <2>3. \A x \in Sources : announced[x] <= announced'[x]
    BY <1>5 DEF DebounceFlush, Announces
  <2>4. \A x \in Sources : announced'[x] <= ver[x]
    BY <2>1 DEF CoverInv, EventInv
  <2>5. Fresh!Announce
    BY <2>1, <2>2, <2>3, <2>4 DEF Fresh!Announce, asks
  <2>6. QED
    BY <2>5 DEF Fresh!Next
<1>6. ASSUME NEW r \in Requests, NEW d \in Dirs, NEW v \in Views, ListAccept(r, d, v)
      PROVE  Fresh!Next
  <2> DEFINE floor == [x \in Sources |-> IF x \in Facets(d) THEN announced[x] ELSE 0]
  <2>1. /\ req'[r].st = "ready" /\ req'[r].key = <<d, v>> /\ req'[r].floor = floor
        /\ \A q \in Requests \ {r} : req'[q] = req[q]
    BY <1>6 DEF ListAccept, TypeInv
  <2>2. Ask(r)' = [st |-> "asked", uses |-> Facets(d), floor |-> floor, seen |-> Blank]
    BY <2>1 DEF Ask, InFlight
  <2>3. asks' = [asks EXCEPT ![r] = Ask(r)']
    BY <2>1, AskOne
  <2>4. req[r].st \in ReqStates /\ req[r].st \notin InFlight
    BY <1>6 DEF ListAccept, TypeInv, Tasks
  <2>5. asks[r].st # "asked"
    BY <2>4 DEF asks, Ask, ReqStates
  <2>6. Fresh!Ask(r, Facets(d))
    BY <1>6, <2>2, <2>3, <2>5 DEF ListAccept, disk, history, Fresh!Ask, Fresh!None, Blank, asks
  <2>7. QED
    BY <2>6, FacetsType DEF Fresh!Next
<1>7. ASSUME NEW r \in Requests, ListStart(r)
      PROVE  Fresh!Next \/ UNCHANGED <<ver, announced, asks>>
  <2>1. /\ req[r].st = "ready" /\ req[r].st \in InFlight /\ req[r].key \in Keys
        /\ UNCHANGED <<ver, announced>>
    BY <1>7 DEF ListStart, TypeInv, InFlight, disk, history
  <2>2. CASE req' = [req EXCEPT ![r] = NoTask("dropped", Blank)]
    BY <2>1, <2>2, EndsDropped DEF Fresh!Next
  <2>3. CASE /\ req[r].key \in Cached
             /\ req' = [req EXCEPT ![r] = NoTask("answered", cache[req[r].key].seen)]
    <3>1. cache[req[r].key].seen \in Listings /\ req[r].floor \in Listings
      BY <2>1 DEF TypeInv, Slots, Tasks
    <3>2. ASSUME NEW x \in Facets(req[r].key[1])
          PROVE  /\ req[r].floor[x] <= cache[req[r].key].seen[x]
                 /\ cache[req[r].key].seen[x] <= ver[x]
      <4>1. /\ req[r].floor[x] <= announced[x] /\ announced[x] <= cache[req[r].key].seen[x]
            /\ cache[req[r].key].seen[x] <= ver[x]
        BY <2>1, <2>3 DEF CoverInv, CacheCover, TaskCover
      <4>2. /\ x \in Sources /\ announced[x] \in Int
            /\ req[r].floor[x] \in Int /\ cache[req[r].key].seen[x] \in Int
        BY <2>1, <3>1, KeyFacets DEF TypeInv, Versions, Listings
      <4>3. QED
        BY <4>1, <4>2
    <3>3. Fresh!Answer(r)
      BY <2>1, <2>3, <3>1, <3>2, EndsAnswered
    <3>4. QED
      BY <3>3 DEF Fresh!Next
  <2>4. CASE req' = [req EXCEPT ![r] = [@ EXCEPT !.st = "waiting"]]
    <3>1. req'[r] = [req[r] EXCEPT !.st = "waiting"] /\ \A q \in Requests \ {r} : req'[q] = req[q]
      BY <2>4 DEF TypeInv
    <3>2. /\ req'[r].st = "waiting" /\ req'[r].key = req[r].key
          /\ req'[r].floor = req[r].floor
      BY <3>1 DEF TypeInv, Tasks
    <3>3. Ask(r)' = Ask(r) /\ \A q \in Requests \ {r} : Ask(q)' = Ask(q)
      BY <2>1, <3>1, <3>2 DEF Ask, InFlight
    <3>4. asks' = asks
      BY <3>3 DEF asks
    <3>5. QED
      BY <2>1, <3>4
  <2>5. QED
    BY <1>7, <2>2, <2>3, <2>4 DEF ListStart
<1>8. ASSUME NEW r \in Requests, ListPermit(r)
      PROVE  Fresh!Next \/ UNCHANGED <<ver, announced, asks>>
  <2>1. req[r].st = "waiting" /\ req[r].st \in InFlight /\ UNCHANGED <<ver, announced>>
    BY <1>8 DEF ListPermit, InFlight, disk, history
  <2>2. CASE req' = [req EXCEPT ![r] = NoTask("dropped", Blank)]
    BY <2>1, <2>2, EndsDropped DEF Fresh!Next
  <2>3. CASE req' = [req EXCEPT ![r] = [@ EXCEPT !.st = "scanning", !.epoch = epoch]]
    <3>1. /\ req'[r] = [req[r] EXCEPT !.st = "scanning", !.epoch = epoch]
          /\ \A q \in Requests \ {r} : req'[q] = req[q]
      BY <2>3 DEF TypeInv
    <3>2. /\ req'[r].st = "scanning" /\ req'[r].key = req[r].key
          /\ req'[r].floor = req[r].floor
      BY <3>1 DEF TypeInv, Tasks
    <3>3. Ask(r)' = Ask(r) /\ \A q \in Requests \ {r} : Ask(q)' = Ask(q)
      BY <2>1, <3>1, <3>2 DEF Ask, InFlight
    <3>4. asks' = asks
      BY <3>3 DEF asks
    <3>5. QED
      BY <2>1, <3>4
  <2>4. QED
    BY <1>8, <2>2, <2>3 DEF ListPermit
<1>9. ASSUME NEW r \in Requests, ScanRead(r) PROVE UNCHANGED <<ver, announced, asks>>
  <2>1. /\ req[r].st = "scanning"
        /\ req'[r].st = "scanned" /\ req'[r].key = req[r].key /\ req'[r].floor = req[r].floor
        /\ \A q \in Requests \ {r} : req'[q] = req[q]
    BY <1>9 DEF ScanRead, TypeInv, Tasks
  <2>2. Ask(r)' = Ask(r) /\ \A q \in Requests \ {r} : Ask(q)' = Ask(q)
    BY <2>1 DEF Ask, InFlight
  <2>3. asks' = asks
    BY <2>2 DEF asks
  <2>4. QED
    BY <1>9, <2>3 DEF ScanRead, disk, history
<1>10. ASSUME NEW r \in Requests, ScanFail(r) PROVE Fresh!Next
  BY <1>10, EndsDropped DEF ScanFail, InFlight, Fresh!Next, disk, history
<1>11. ASSUME NEW r \in Requests, ListFinish(r) PROVE Fresh!Next
  <2>1. req[r].st = "scanned" /\ req[r].st \in InFlight /\ UNCHANGED <<ver, announced>>
    BY <1>11 DEF ListFinish, InFlight, disk, history
  <2>2. CASE req[r].cancelled
    BY <1>11, <2>1, <2>2, EndsDropped DEF ListFinish, Fresh!Next
  <2>3. CASE ~req[r].cancelled
    <3>1. req[r].snap \in Listings
      BY DEF TypeInv, Tasks
    <3>2. \A x \in Facets(req[r].key[1]) :
            req[r].floor[x] <= req[r].snap[x] /\ req[r].snap[x] <= ver[x]
      BY <2>1, <2>3 DEF CoverInv, TaskCover
    <3>3. Fresh!Answer(r)
      BY <1>11, <2>1, <2>3, <3>1, <3>2, EndsAnswered DEF ListFinish
    <3>4. QED
      BY <3>3 DEF Fresh!Next
  <2>4. QED
    BY <2>2, <2>3
<1>12. ASSUME NEW r \in Requests, CancelList(r) PROVE UNCHANGED <<ver, announced, asks>>
  BY <1>12, AskSame DEF CancelList, TypeInv, Tasks, disk, history
<1>13. CASE UNCHANGED vars
  BY <1>13, AskSame DEF vars, disk, history
<1>15. QED
  BY <1>1, <1>2, <1>3, <1>4, <1>5, <1>6, <1>7, <1>8, <1>9, <1>10, <1>11, <1>12, <1>13,
     <1>14 DEF Next, Debounce, Task

\* The daemon implements FreshListing: whatever the interleaving of watches,
\* evictions, scans and cancels, a list is answered with a listing at least as
\* new as every fs_event sent before it was made.
THEOREM Freshness == Spec => FreshSpec
<1>1. Init => Fresh!Init
  <2>1. ASSUME Init PROVE asks = [r \in Requests |-> Fresh!Idle]
    <3>1. ASSUME NEW r \in Requests PROVE Ask(r) = Fresh!Idle
      BY <2>1 DEF Init, Ask, NoTask, InFlight, Fresh!Idle, Fresh!None, Blank
    <3>2. QED
      BY <3>1 DEF asks
  <2>2. QED
    BY <2>1 DEF Init, Fresh!Init, asks
<1>2. IInv /\ IInv' /\ [Next]_vars => [Fresh!Next]_Fresh!vars
  BY FreshStep DEF Fresh!vars, asks
<1>3. QED
  BY <1>1, <1>2, InvCorrect, PTL DEF Spec, FreshSpec, Fresh!Spec

=============================================================================
