--------------------------- MODULE TreeScanProofs ---------------------------
(***************************************************************************)
(* Proofs about TreeScan, for any number of requests, changes and          *)
(* commands: a scan that is marked as under way is one that will be        *)
(* answered; a listing in the cache is whole and as new as what Vim has    *)
(* been told, or is about to be replaced (but for what collapsing leaves); *)
(* nothing enters the cache but from the scan under way; and what is shown *)
(* when nothing goes on has been scanned.                                  *)
(*                                                                         *)
(* What a handler does is a chain of the functions of the plugin, and half *)
(* way through, the script variables need not be Sound; for each function  *)
(* a lemma says what it needs and what it leaves.  That a listing is new   *)
(* enough is followed from the fs_event to the request, the daemon's task, *)
(* the page on its way, and the cache (Fresh below).                       *)
(***************************************************************************)
EXTENDS TreeScan, SequenceTheorems, TLAPS

Lists == [ver : Nat, whole : BOOLEAN, by : Requests \cup {0}]
Callbacks == [dir : Dirs, live : BOOLEAN, keep : BOOLEAN, acc : Lists]
Lines == [type : {"list"}, id : Nat, dir : Dirs] \cup [type : {"cancel"}, id : Nat]
         \cup [type : {"watch", "unwatch"}, dir : Dirs]
UIs ==
  [open : BOOLEAN, expanded : SUBSET Dirs, cache : [Dirs -> Lists],
   loading : SUBSET Dirs, pending : [Dirs -> Nat], errors : SUBSET Dirs,
   watched : SUBSET Dirs, watchFailed : SUBSET Dirs, watchCallbacks : SUBSET Dirs,
   bcbs : [Requests -> Callbacks], next : Nat \ {0},
   fsDirs : SUBSET Dirs, render : BOOLEAN,
   daemon : {"down", "up", "ready"}, tripped : BOOLEAN, stdin : Seq(Lines)]

\* A callback is of the request that its directory waits for.
Base(u) ==
  /\ u \in UIs /\ Root \in u.expanded /\ u.watched \cap u.watchFailed = {}
  /\ \A d \in Dirs : u.pending[d] < u.next
  /\ \A r \in Requests : u.bcbs[r].live => u.pending[u.bcbs[r].dir] = r

\* A directory is marked as being scanned if it waits for a request.
Marked(u) == u.loading = {d \in Dirs : u.pending[d] # 0}

\* What a directory waits for has a callback.  (Numbers beyond the bound have none.)
Answerable(u) ==
  \A d \in Dirs : u.pending[d] \in Requests => u.bcbs[u.pending[d]].live /\ u.bcbs[u.pending[d]].dir = d

\* Changes are kept for the timer while the tree is open.
Queued(u) == u.fsDirs # {} => u.open

Sound(u) == Base(u) /\ Marked(u) /\ Answerable(u) /\ Queued(u)

\* A listing is whole, or the rest is to come, or it is of those cut short.
Whole(u, cut) == \A d \in Dirs : u.cache[d] # NoList => u.cache[d].whole \/ d \in u.loading \cup cut

\* v comes from u without a new listing.
Follows(u, v) == v.next >= u.next /\ \A d \in Dirs : v.cache[d] \in {u.cache[d], NoList}

\* The lines of a type among the lines q, and the list requests among them.
Of(type, q) == {q[i] : i \in {k \in DOMAIN q : q[k].type = type}}
Asked(q) == Of("list", q)

\* A list request is for the directory its callback is for.
Fits(u, line) == line.id \in Requests /\ u.bcbs[line.id].live => u.bcbs[line.id].dir = line.dir

\* What v waits for and asks the daemon for is as in u or has begun since, and a
\* listing it has that is not being scanned is as it was in u.
Flow(u, v) ==
  /\ \A r \in Requests : v.bcbs[r].live /\ r < u.next => u.bcbs[r].live /\ v.bcbs[r].dir = u.bcbs[r].dir
  /\ \A line \in Asked(v.stdin) :
       line \in Asked(u.stdin) \/ (u.next <= line.id /\ line.id < v.next /\ Fits(v, line))
  /\ \A d \in Dirs : v.cache[d] # NoList /\ d \notin v.loading => v.cache[d] = u.cache[d] /\ d \notin u.loading

\* v is u as far as scans are concerned, but for the lines to the daemon.
Alike(u, v) ==
  /\ v.cache = u.cache /\ v.loading = u.loading /\ v.pending = u.pending /\ v.bcbs = u.bcbs
  /\ v.next = u.next /\ v.open = u.open /\ v.fsDirs = u.fsDirs

\* Nor is anything new asked for.
SameScans(u, v) == Alike(u, v) /\ Asked(v.stdin) \subseteq Asked(u.stdin)

\* v comes from u, and is as good.
Keeps(u, v) ==
  /\ Base(v) /\ Follows(u, v) /\ Flow(u, v) /\ v.open = u.open /\ v.fsDirs = u.fsDirs
  /\ Marked(u) => Marked(v)
  /\ Answerable(u) => Answerable(v)
  /\ \A cut : Whole(u, cut) => Whole(v, cut)

----------------------------------------------------------------------------
LEMMA Constants ==
  /\ Root \in Dirs /\ Sub \in Dirs /\ Root # Sub /\ \A d \in Dirs : d = Root \/ d = Sub
  /\ \A r \in Requests : r \in Nat /\ r # 0 /\ r <= MaxRequests
  /\ \A n \in Nat : n # 0 /\ n <= MaxRequests => n \in Requests
  /\ NoList \in Lists /\ NoCallback \in Callbacks /\ ~NoCallback.live
<1>1. NoList \in Lists
  BY DEF NoList, Lists
<1>2. QED
  BY <1>1, TreeAssumption DEF Dirs, Requests, NoCallback, Callbacks

LEMMA LineTypes ==
  /\ \A n \in Nat : [type |-> "cancel", id |-> n] \in Lines
  /\ \A n \in Nat, d \in Dirs : [type |-> "list", id |-> n, dir |-> d] \in Lines
  /\ \A d \in Dirs : [type |-> "watch", dir |-> d] \in Lines /\ [type |-> "unwatch", dir |-> d] \in Lines
BY DEF Lines

\* What the lines are, as the queue of them changes.
LEMMA OfLines ==
  ASSUME NEW S, NEW q \in Seq(S), NEW t
  PROVE  /\ Of(t, <<>>) = {}
         /\ Of(t, q) \subseteq S /\ \A x \in Of(t, q) : x.type = t
         /\ \A e \in S : \A x \in Of(t, Append(q, e)) : x \in Of(t, q) \/ (x = e /\ e.type = t)
         /\ q # <<>> => Of(t, Tail(q)) \subseteq Of(t, q) /\ (Head(q).type = t => Head(q) \in Of(t, q))
<1>1. DOMAIN q = 1..Len(q) /\ Len(q) \in Nat /\ \A i \in 1..Len(q) : q[i] \in S
  OBVIOUS
<1>2. Of(t, <<>>) = {}
  BY DEF Of
<1>3. Of(t, q) \subseteq S /\ \A x \in Of(t, q) : x.type = t
  BY <1>1 DEF Of
<1>4. ASSUME NEW e \in S, NEW x \in Of(t, Append(q, e)) PROVE x \in Of(t, q) \/ (x = e /\ e.type = t)
  <2>1. PICK i \in DOMAIN Append(q, e) : x = Append(q, e)[i] /\ Append(q, e)[i].type = t
    BY <1>4 DEF Of
  <2>2. i \in 1..(Len(q) + 1) /\ Append(q, e)[i] = IF i = Len(q) + 1 THEN e ELSE q[i]
    BY <1>1, <2>1, AppendProperties
  <2>3. QED
    BY <1>1, <2>1, <2>2 DEF Of
<1>5. ASSUME q # <<>> PROVE Of(t, Tail(q)) \subseteq Of(t, q) /\ (Head(q).type = t => Head(q) \in Of(t, q))
  <2>1. Len(q) > 0 /\ Head(q) = q[1] /\ Len(Tail(q)) = Len(q) - 1 /\ Tail(q) \in Seq(S)
        /\ \A i \in 1..Len(Tail(q)) : Tail(q)[i] = q[i + 1]
    BY <1>1, <1>5, HeadTailProperties
  <2>2. \A x \in Of(t, Tail(q)) : x \in Of(t, q)
    <3> SUFFICES ASSUME NEW x \in Of(t, Tail(q)) PROVE x \in Of(t, q)
      OBVIOUS
    <3>1. PICK i \in DOMAIN Tail(q) : x = Tail(q)[i] /\ Tail(q)[i].type = t
      BY DEF Of
    <3>2. DOMAIN Tail(q) = 1..Len(Tail(q))
      BY <2>1
    <3>3. i + 1 \in DOMAIN q /\ x = q[i + 1] /\ q[i + 1].type = t
      BY <1>1, <2>1, <3>1, <3>2
    <3>4. QED
      BY <3>3 DEF Of
  <2>3. Head(q).type = t => Head(q) \in Of(t, q)
    BY <1>1, <2>1 DEF Of
  <2>4. QED
    BY <2>2, <2>3
<1>6. QED
  BY <1>2, <1>3, <1>4, <1>5

LEMMA AskedLines ==
  ASSUME NEW u, Base(u)
  PROVE  /\ \A x \in Asked(u.stdin) : x.type = "list" /\ x.id \in Nat /\ x.dir \in Dirs
         /\ \A line \in Lines : \A x \in Asked(Append(u.stdin, line)) : x \in Asked(u.stdin) \/ (x = line /\ line.type = "list")
         /\ u.stdin # <<>> => Asked(Tail(u.stdin)) \subseteq Asked(u.stdin)
                             /\ (Head(u.stdin).type = "list" => Head(u.stdin) \in Asked(u.stdin))
         /\ Asked(<<>>) = {}
<1>1. u.stdin \in Seq(Lines)
  BY DEF Base, UIs
<1>2. \A x \in Asked(u.stdin) : x \in Lines /\ x.type = "list"
  BY <1>1, OfLines DEF Asked
<1>3. \A x \in Lines : x.type = "list" => x.id \in Nat /\ x.dir \in Dirs
  BY DEF Lines
<1>4. QED
  BY <1>1, <1>2, <1>3, OfLines DEF Asked

LEMMA SameKeeps ==
  ASSUME NEW u, NEW v, SameScans(u, v), Base(v)
  PROVE  Keeps(u, v)
<1>1. v.next \in Nat
  BY DEF Base, UIs
<1>2. Flow(u, v)
  BY DEF SameScans, Alike, Flow
<1>3. QED
  BY <1>1, <1>2 DEF SameScans, Alike, Keeps, Marked, Answerable, Whole, Follows

LEMMA FollowsOn ==
  ASSUME NEW u, NEW v, NEW w, u.next \in Nat, v.next \in Nat, w.next \in Nat, Follows(u, v), Follows(v, w)
  PROVE  Follows(u, w)
<1>1. \A d \in Dirs : w.cache[d] \in {u.cache[d], NoList}
  BY DEF Follows
<1>2. u.next <= v.next /\ v.next <= w.next
  BY DEF Follows
<1>3. u.next <= w.next
  BY <1>2
<1>4. QED
  BY <1>1, <1>3 DEF Follows

LEMMA FlowOn ==
  ASSUME NEW u, NEW v, NEW w, Base(u), Base(v), Base(w), u.next <= v.next, v.next <= w.next, Flow(u, v), Flow(v, w)
  PROVE  Flow(u, w)
<1>1. u.next \in Nat /\ v.next \in Nat /\ w.next \in Nat
  BY DEF Base, UIs
<1>2. \A r \in Requests : r \in Nat
  BY Constants
<1>3. ASSUME NEW r \in Requests, w.bcbs[r].live, r < u.next
      PROVE  u.bcbs[r].live /\ w.bcbs[r].dir = u.bcbs[r].dir
  <2>1. r < v.next
    BY <1>1, <1>2, <1>3
  <2>2. v.bcbs[r].live /\ w.bcbs[r].dir = v.bcbs[r].dir
    BY <1>3, <2>1 DEF Flow
  <2>3. QED
    BY <1>3, <2>2 DEF Flow
<1>4. ASSUME NEW line \in Asked(w.stdin)
      PROVE  line \in Asked(u.stdin) \/ (u.next <= line.id /\ line.id < w.next /\ Fits(w, line))
  <2>1. line.id \in Nat
    BY AskedLines
  <2>2. CASE line \in Asked(v.stdin) /\ line \notin Asked(u.stdin)
    <3>1. u.next <= line.id /\ line.id < v.next /\ Fits(v, line)
      BY <2>2 DEF Flow
    <3>2. line.id < w.next
      BY <1>1, <2>1, <3>1
    <3>3. Fits(w, line)
      BY <3>1 DEF Flow, Fits
    <3>4. QED
      BY <3>1, <3>2, <3>3
  <2>3. CASE line \notin Asked(v.stdin)
    <3>1. v.next <= line.id /\ line.id < w.next /\ Fits(w, line)
      BY <2>3 DEF Flow
    <3>2. QED
      BY <1>1, <2>1, <3>1
  <2>4. QED
    BY <2>2, <2>3
<1>5. \A d \in Dirs : w.cache[d] # NoList /\ d \notin w.loading => w.cache[d] = u.cache[d] /\ d \notin u.loading
  BY DEF Flow
<1>6. QED
  BY <1>3, <1>4, <1>5 DEF Flow

LEMMA KeepsOn ==
  ASSUME NEW u, NEW v, NEW w, Base(u), Keeps(u, v), Keeps(v, w)
  PROVE  Keeps(u, w)
<1>1. u.next \in Nat /\ v.next \in Nat /\ w.next \in Nat
  BY DEF Keeps, Base, UIs
<1>2. Follows(u, w)
  BY <1>1, FollowsOn DEF Keeps
<1>3. Flow(u, w)
  BY FlowOn DEF Keeps, Follows
<1>4. QED
  BY <1>2, <1>3 DEF Keeps

\* What does not concern scans, watches or the tree may change freely.
LEMMA StdinChanges ==
  ASSUME NEW u, Base(u), NEW q \in Seq(Lines)
  PROVE  Base([u EXCEPT !.stdin = q]) /\ Alike(u, [u EXCEPT !.stdin = q]) /\ [u EXCEPT !.stdin = q].stdin = q
BY DEF Base, UIs, Alike

LEMMA ErrorsChange ==
  ASSUME NEW u, Base(u), NEW e \in SUBSET Dirs
  PROVE  Base([u EXCEPT !.errors = e]) /\ SameScans(u, [u EXCEPT !.errors = e])
BY DEF Base, UIs, SameScans, Alike

LEMMA RenderChanges ==
  ASSUME NEW u, Base(u), NEW b \in BOOLEAN
  PROVE  Base([u EXCEPT !.render = b]) /\ SameScans(u, [u EXCEPT !.render = b])
BY DEF Base, UIs, SameScans, Alike

LEMMA DaemonChanges ==
  ASSUME NEW u, Base(u), NEW s \in {"down", "up", "ready"}
  PROVE  Base([u EXCEPT !.daemon = s]) /\ SameScans(u, [u EXCEPT !.daemon = s])
BY DEF Base, UIs, SameScans, Alike

----------------------------------------------------------------------------
(* The functions that leave scans alone.                                   *)

LEMMA BSendFacts ==
  ASSUME NEW u, Base(u), NEW line \in Lines
  PROVE  /\ Base(BSend(u, line)) /\ Alike(u, BSend(u, line)) /\ BSend(u, line).expanded = u.expanded
         /\ \A x \in Asked(BSend(u, line).stdin) : x \in Asked(u.stdin) \/ (x = line /\ line.type = "list")
         /\ line.type # "list" => SameScans(u, BSend(u, line))
<1> DEFINE v == BSend(u, line)
<1>1. u \in UIs /\ u.stdin \in Seq(Lines)
  BY DEF Base, UIs
<1>2. CASE u.daemon = "down"
  BY <1>2 DEF BSend, SameScans, Alike
<1>3. CASE u.daemon # "down"
  <2>1. v = [u EXCEPT !.stdin = Append(u.stdin, line)]
    BY <1>3 DEF BSend
  <2>2. Append(u.stdin, line) \in Seq(Lines)
    BY <1>1, AppendProperties
  <2>3. Base(v) /\ Alike(u, v) /\ v.stdin = Append(u.stdin, line)
    BY <2>1, <2>2, StdinChanges
  <2>4. v.expanded = u.expanded
    BY <1>1, <2>1 DEF UIs
  <2>5. \A x \in Asked(v.stdin) : x \in Asked(u.stdin) \/ (x = line /\ line.type = "list")
    BY <2>3, AskedLines
  <2> HIDE DEF v
  <2>6. line.type # "list" => SameScans(u, v)
    BY <2>3, <2>5 DEF SameScans, Alike
  <2>7. QED
    BY <2>3, <2>4, <2>5, <2>6 DEF v
<1>4. QED
  BY <1>2, <1>3

LEMMA ResetFacts ==
  ASSUME NEW u, Base(u)
  PROVE  Base(ResetBackendSessionState(u)) /\ SameScans(u, ResetBackendSessionState(u))
         /\ ResetBackendSessionState(u).expanded = u.expanded
BY DEF ResetBackendSessionState, Base, UIs, SameScans, Alike

LEMMA EnsureFacts ==
  ASSUME NEW u, Base(u)
  PROVE  Base(Ensure(u)) /\ SameScans(u, Ensure(u)) /\ Keeps(u, Ensure(u)) /\ Ensure(u).expanded = u.expanded
<1> DEFINE w == ResetBackendSessionState(u)
<1>1. Base(w) /\ SameScans(u, w) /\ w.expanded = u.expanded
  BY ResetFacts
<1> HIDE DEF w
<1>2. Base([w EXCEPT !.daemon = "up"]) /\ SameScans(w, [w EXCEPT !.daemon = "up"])
  BY <1>1, DaemonChanges
<1>3. [w EXCEPT !.daemon = "up"].expanded = w.expanded
  BY <1>1 DEF Base, UIs
<1>4. Ensure(u) \in {u, [w EXCEPT !.daemon = "up"]}
  BY DEF Ensure, w
<1>5. Base(Ensure(u)) /\ SameScans(u, Ensure(u)) /\ Ensure(u).expanded = u.expanded
  BY <1>1, <1>2, <1>3, <1>4 DEF SameScans, Alike
<1>6. QED
  BY <1>5, SameKeeps

LEMMA WatchDirFacts ==
  ASSUME NEW u, Base(u), NEW d \in Dirs
  PROVE  Base(WatchDir(u, d)) /\ SameScans(u, WatchDir(u, d)) /\ Keeps(u, WatchDir(u, d))
<1> DEFINE w == [u EXCEPT !.watched = u.watched \cup {d}, !.watchCallbacks = u.watchCallbacks \cup {d}]
           line == [type |-> "watch", dir |-> d]
<1>1. CASE u.daemon # "ready" \/ d \in u.watched \cup u.watchFailed
  BY <1>1, SameKeeps DEF WatchDir, SameScans, Alike
<1>2. CASE ~(u.daemon # "ready" \/ d \in u.watched \cup u.watchFailed)
  <2>1. WatchDir(u, d) = BSend(w, line)
    BY <1>2 DEF WatchDir
  <2>2. Base(w) /\ SameScans(u, w)
    <3>1. w \in UIs /\ SameScans(u, w) /\ w.expanded = u.expanded
      BY DEF Base, UIs, SameScans, Alike
    <3>2. w.watched = u.watched \cup {d} /\ w.watchFailed = u.watchFailed
      BY DEF Base, UIs
    <3>3. w.watched \cap w.watchFailed = {}
      BY <1>2, <3>2 DEF Base
    <3>4. QED
      BY <3>1, <3>3 DEF Base, SameScans, Alike
  <2>3. line \in Lines /\ line.type # "list"
    BY LineTypes
  <2> HIDE DEF w, line
  <2>4. Base(BSend(w, line)) /\ SameScans(w, BSend(w, line))
    BY <2>2, <2>3, BSendFacts
  <2>5. SameScans(u, BSend(w, line))
    BY <2>2, <2>4 DEF SameScans, Alike
  <2>6. QED
    BY <2>1, <2>4, <2>5, SameKeeps
<1>3. QED
  BY <1>1, <1>2

LEMMA UnwatchDirFacts ==
  ASSUME NEW u, Base(u), NEW d \in Dirs
  PROVE  Base(UnwatchDir(u, d)) /\ SameScans(u, UnwatchDir(u, d)) /\ Keeps(u, UnwatchDir(u, d))
<1> DEFINE w == [u EXCEPT !.watched = u.watched \ {d}]
           line == [type |-> "unwatch", dir |-> d]
<1>1. CASE d \notin u.watched
  BY <1>1, SameKeeps DEF UnwatchDir, SameScans, Alike
<1>2. CASE d \in u.watched
  <2>1. UnwatchDir(u, d) = BSend(w, line)
    BY <1>2 DEF UnwatchDir
  <2>2. Base(w) /\ SameScans(u, w)
    BY DEF Base, UIs, SameScans, Alike
  <2>3. line \in Lines /\ line.type # "list"
    BY LineTypes
  <2> HIDE DEF w, line
  <2>4. Base(BSend(w, line)) /\ SameScans(w, BSend(w, line))
    BY <2>2, <2>3, BSendFacts
  <2>5. SameScans(u, BSend(w, line))
    BY <2>2, <2>4 DEF SameScans, Alike
  <2>6. QED
    BY <2>1, <2>4, <2>5, SameKeeps
<1>3. QED
  BY <1>1, <1>2

LEMMA WatchExpandedFacts ==
  ASSUME NEW u, Base(u)
  PROVE  Keeps(u, WatchExpandedDirs(u))
<1> DEFINE w == WatchDir(u, Root)
<1>1. Base(w) /\ Keeps(u, w)
  BY WatchDirFacts, Constants
<1> HIDE DEF w
<1>2. Keeps(w, WatchDir(w, Sub))
  BY <1>1, WatchDirFacts, Constants
<1>3. Keeps(u, WatchDir(w, Sub))
  BY <1>1, <1>2, KeepsOn
<1>4. WatchExpandedDirs(u) \in {w, WatchDir(w, Sub)}
  BY DEF WatchExpandedDirs, w
<1>5. QED
  BY <1>1, <1>3, <1>4

----------------------------------------------------------------------------
(* Cancelling and scanning.                                                *)

\* Afterwards d waits for nothing; all else about scans is as it was.
LEMMA CancelPendingFacts ==
  ASSUME NEW u, Base(u), NEW d \in Dirs
  PROVE  /\ Base(CancelPending(u, d))
         /\ CancelPending(u, d).pending = [u.pending EXCEPT ![d] = 0]
         /\ CancelPending(u, d).cache = u.cache /\ CancelPending(u, d).loading = u.loading
         /\ CancelPending(u, d).next = u.next /\ CancelPending(u, d).open = u.open
         /\ CancelPending(u, d).fsDirs = u.fsDirs
         /\ Answerable(u) => Answerable(CancelPending(u, d))
         /\ Flow(u, CancelPending(u, d))
<1> DEFINE r == u.pending[d]
           w == [u EXCEPT !.bcbs = [u.bcbs EXCEPT ![r] = NoCallback]]
           line == [type |-> "cancel", id |-> r]
           s == BSend(w, line)
           v == [s EXCEPT !.pending = [s.pending EXCEPT ![d] = 0]]
<1>1. u \in UIs /\ r \in Nat /\ u.pending \in [Dirs -> Nat] /\ u.bcbs \in [Requests -> Callbacks]
  BY DEF Base, UIs
<1>2. CASE r = 0
  <2>1. CancelPending(u, d) = u
    BY <1>2 DEF CancelPending
  <2>2. [u.pending EXCEPT ![d] = 0] = u.pending
    BY <1>1, <1>2
  <2>3. Flow(u, u)
    BY DEF Flow
  <2>4. QED
    BY <2>1, <2>2, <2>3
<1>3. CASE r # 0
  <2>1. CancelPending(u, d) = v
    BY <1>3 DEF CancelPending, BCancel
  <2>2. /\ w.bcbs = [u.bcbs EXCEPT ![r] = NoCallback] /\ w.bcbs \in [Requests -> Callbacks]
        /\ \A k \in Requests : w.bcbs[k] = IF k = r THEN NoCallback ELSE u.bcbs[k]
    BY <1>1, Constants DEF UIs
  <2>3. Base(w)
    <3>1. w \in UIs
      BY <1>1, <2>2 DEF UIs
    <3>2. w.expanded = u.expanded /\ w.watched = u.watched /\ w.watchFailed = u.watchFailed /\ w.pending = u.pending /\ w.next = u.next
      BY <1>1 DEF UIs
    <3>3. \A k \in Requests : w.bcbs[k].live => w.pending[w.bcbs[k].dir] = k
      BY <2>2, <3>2, Constants DEF Base
    <3>4. QED
      BY <3>1, <3>2, <3>3 DEF Base
  <2>4. w.pending = u.pending /\ w.cache = u.cache /\ w.loading = u.loading /\ w.next = u.next /\ w.open = u.open /\ w.fsDirs = u.fsDirs
    BY <1>1 DEF UIs
  <2>5. line \in Lines /\ line.type # "list"
    BY <1>1, LineTypes
  <2> HIDE DEF w, line
  <2>6. Base(s) /\ SameScans(w, s)
    BY <2>3, <2>5, BSendFacts
  <2> HIDE DEF s
  <2>7. s \in UIs /\ s.pending = u.pending /\ s.bcbs = w.bcbs /\ s.next = u.next
    BY <2>4, <2>6 DEF Base, SameScans, Alike
  <2>8. v \in UIs /\ v.pending = [u.pending EXCEPT ![d] = 0] /\ v.pending \in [Dirs -> Nat]
        /\ v.bcbs = w.bcbs /\ v.next = s.next /\ v.stdin = s.stdin
    <3>1. [s.pending EXCEPT ![d] = 0] \in [Dirs -> Nat]
      BY <1>1, <2>7
    <3>2. QED
      BY <2>7, <3>1 DEF UIs
  <2>9. v.cache = u.cache /\ v.loading = u.loading /\ v.open = u.open /\ v.fsDirs = u.fsDirs
        /\ v.expanded = s.expanded /\ v.watched = s.watched /\ v.watchFailed = s.watchFailed
    BY <2>4, <2>6, <2>7 DEF UIs, SameScans, Alike
  <2>10. Base(v)
    <3>1. \A k \in Requests : v.bcbs[k].live => k # r /\ v.bcbs[k] = u.bcbs[k] /\ u.pending[u.bcbs[k].dir] = k /\ u.bcbs[k].dir \in Dirs
      BY <1>1, <2>2, <2>8, Constants DEF Base, Callbacks
    <3>2. \A k \in Requests : v.bcbs[k].live => v.pending[v.bcbs[k].dir] = k
      BY <1>1, <2>8, <3>1
    <3>3. \A x \in Dirs : s.pending[x] < s.next
      BY <2>6 DEF Base
    <3>4. s.next \in Nat \ {0}
      BY <2>7 DEF UIs
    <3>5. \A x \in Dirs : v.pending[x] < v.next
      BY <1>1, <2>7, <2>8, <3>3, <3>4
    <3>6. QED
      BY <2>6, <2>8, <2>9, <3>2, <3>5 DEF Base
  <2>11. ASSUME Answerable(u), NEW x \in Dirs, v.pending[x] \in Requests
         PROVE  v.bcbs[v.pending[x]].live /\ v.bcbs[v.pending[x]].dir = x
    <3>1. x # d /\ v.pending[x] = u.pending[x]
      BY <1>1, <2>8, <2>11, Constants
    <3>2. u.bcbs[u.pending[x]].live /\ u.bcbs[u.pending[x]].dir = x
      BY <2>11, <3>1 DEF Answerable
    <3>3. u.pending[x] # r
      BY <2>11, <3>1, <3>2 DEF Answerable
    <3>4. QED
      BY <2>2, <2>8, <2>11, <3>1, <3>2, <3>3
  <2>12. Flow(u, v)
    <3>1. w.stdin = u.stdin
      BY <1>1 DEF w, UIs
    <3>2. Asked(v.stdin) \subseteq Asked(u.stdin)
      BY <2>6, <2>8, <3>1 DEF SameScans
    <3>3. \A k \in Requests : v.bcbs[k].live => v.bcbs[k] = u.bcbs[k]
      BY <2>2, <2>8, Constants
    <3>4. v.cache = u.cache /\ v.loading = u.loading
      BY <2>9
    <3>5. QED
      BY ONLY <3>2, <3>3, <3>4 DEF Flow
  <2>13. QED
    BY <2>1, <2>7, <2>8, <2>9, <2>10, <2>11, <2>12 DEF Answerable
<1>4. QED
  BY <1>2, <1>3

\* Afterwards nothing is waited for, and there is no callback.
LEMMA CancelAllFacts ==
  ASSUME NEW u, Base(u)
  PROVE  /\ Base(CancelAll(u)) /\ \A d \in Dirs : CancelAll(u).pending[d] = 0
         /\ CancelAll(u).cache = u.cache /\ CancelAll(u).loading = u.loading
         /\ CancelAll(u).next = u.next /\ CancelAll(u).open = u.open /\ CancelAll(u).fsDirs = u.fsDirs
         /\ Flow(u, CancelAll(u))
<1> DEFINE w == CancelPending(u, Root)
           v == CancelPending(w, Sub)
<1>1. Base(w) /\ w.pending = [u.pending EXCEPT ![Root] = 0] /\ w.cache = u.cache /\ w.loading = u.loading
      /\ w.next = u.next /\ w.open = u.open /\ w.fsDirs = u.fsDirs /\ Flow(u, w)
  BY CancelPendingFacts, Constants
<1> HIDE DEF w
<1>2. Base(v) /\ v.pending = [w.pending EXCEPT ![Sub] = 0] /\ v.cache = w.cache /\ v.loading = w.loading
      /\ v.next = w.next /\ v.open = w.open /\ v.fsDirs = w.fsDirs /\ Flow(w, v)
  BY <1>1, CancelPendingFacts, Constants
<1>3. u.pending \in [Dirs -> Nat]
  BY DEF Base, UIs
<1>4. \A d \in Dirs : v.pending[d] = 0
  BY <1>1, <1>2, <1>3, Constants
<1>5. CancelAll(u) = v
  BY DEF CancelAll, w
<1> HIDE DEF v
<1>6. Flow(u, v)
  <2>1. u.next \in Nat
    BY DEF Base, UIs
  <2>2. QED
    BY <1>1, <1>2, <2>1, FlowOn
<1>7. QED
  BY <1>1, <1>2, <1>4, <1>5, <1>6

\* What d waits for has begun since u.
Renewed(u, v, d) == \A r \in Requests : v.bcbs[r].live /\ v.bcbs[r].dir = d => u.next <= r

\* A scan of d begins, or cannot.  Forced, it leaves no old pages without their rest.
LEMMA ScanFacts ==
  ASSUME NEW u, Base(u), NEW d \in Dirs, NEW force \in BOOLEAN
  PROVE  /\ Keeps(u, ScanDirAsync(u, d, force))
         /\ force /\ u.open =>
              LET v == ScanDirAsync(u, d, force) IN (v.cache[d] = NoList \/ d \in v.loading) /\ Renewed(u, v, d)
<1> DEFINE g == ~u.open \/ (~force /\ (u.cache[d] # NoList \/ d \in u.errors \cup u.loading))
           e == [u EXCEPT !.errors = u.errors \ {d}]
           c == CancelPending(e, d)
           w == Ensure(c)
           v == ScanDirAsync(u, d, force)
<1>1. CASE g
  <2>1. v = u
    BY <1>1 DEF ScanDirAsync
  <2>2. SameScans(u, u)
    BY DEF SameScans, Alike
  <2>3. Keeps(u, u)
    BY <2>2, SameKeeps
  <2>4. ~(force /\ u.open)
    BY <1>1
  <2>5. QED
    BY <2>1, <2>3, <2>4
<1>2. CASE ~g
  <2>1. Base(e) /\ SameScans(u, e)
    <3>1. u.errors \ {d} \in SUBSET Dirs
      BY DEF Base, UIs
    <3>2. QED
      BY <3>1, ErrorsChange
  <2>2. v = IF w.daemon = "down"
            THEN [w EXCEPT !.loading = w.loading \ {d}, !.cache = [w.cache EXCEPT ![d] = NoList],
                           !.errors = w.errors \cup {d}, !.render = TRUE]
            ELSE BSend([w EXCEPT !.loading = w.loading \cup {d}, !.pending = [w.pending EXCEPT ![d] = w.next],
                                 !.next = w.next + 1,
                                 !.bcbs = [w.bcbs EXCEPT ![w.next] =
                                   [dir |-> d, live |-> TRUE, keep |-> u.cache[d] # NoList, acc |-> NoList]]],
                       [type |-> "list", id |-> w.next, dir |-> d])
    BY <1>2 DEF ScanDirAsync
  <2> HIDE DEF g, e, v
  <2>3. /\ Base(c) /\ c.pending = [e.pending EXCEPT ![d] = 0] /\ c.cache = e.cache /\ c.loading = e.loading
        /\ c.next = e.next /\ c.open = e.open /\ c.fsDirs = e.fsDirs /\ (Answerable(e) => Answerable(c)) /\ Flow(e, c)
    BY <2>1, CancelPendingFacts
  <2> HIDE DEF c
  <2>4. Base(w) /\ SameScans(c, w) /\ Flow(c, w)
    BY <2>3, EnsureFacts DEF Keeps
  <2> HIDE DEF w
  <2>a. Flow(u, w) /\ Base(w)
    <3>1. Flow(u, e) /\ Base(e) /\ u.next \in Nat /\ e.next = u.next /\ c.next = u.next /\ w.next = u.next
      BY <2>1, <2>3, <2>4, SameKeeps DEF Keeps, SameScans, Alike, Base, UIs
    <3>2. Flow(u, c)
      BY <2>3, <3>1, FlowOn
    <3>3. QED
      BY <2>3, <2>4, <3>1, <3>2, FlowOn
  <2>5. /\ w.pending = [u.pending EXCEPT ![d] = 0] /\ w.cache = u.cache /\ w.loading = u.loading
        /\ w.next = u.next /\ w.open = u.open /\ w.fsDirs = u.fsDirs
    BY <2>1, <2>3, <2>4 DEF SameScans, Alike
  <2>6. Answerable(u) => Answerable(w)
    BY <2>1, <2>3, <2>4 DEF SameScans, Alike, Answerable
  <2>7. /\ w \in UIs /\ w.pending \in [Dirs -> Nat] /\ w.bcbs \in [Requests -> Callbacks] /\ w.cache \in [Dirs -> Lists]
        /\ w.next \in Nat \ {0} /\ w.loading \subseteq Dirs /\ w.errors \subseteq Dirs
        /\ \A x \in Dirs : w.pending[x] < w.next
        /\ \A k \in Requests : w.bcbs[k].live => w.pending[w.bcbs[k].dir] = k
        /\ Root \in w.expanded /\ w.watched \cap w.watchFailed = {}
    BY <2>4 DEF Base, UIs
  <2>8. w.pending[d] = 0 /\ \A x \in Dirs : x # d => w.pending[x] = u.pending[x]
    BY <2>5, <2>7 DEF Base, UIs
  <2>9. CASE w.daemon = "down"
    <3>1. v = [w EXCEPT !.loading = w.loading \ {d}, !.cache = [w.cache EXCEPT ![d] = NoList],
                        !.errors = w.errors \cup {d}, !.render = TRUE]
      BY <2>2, <2>9
    <3>2. [w.cache EXCEPT ![d] = NoList] \in [Dirs -> Lists] /\ w.loading \ {d} \in SUBSET Dirs /\ w.errors \cup {d} \in SUBSET Dirs
      BY <2>7, Constants
    <3>3. v \in UIs
      BY <2>7, <3>1, <3>2 DEF UIs
    <3>4. /\ v.loading = w.loading \ {d} /\ v.cache = [w.cache EXCEPT ![d] = NoList] /\ v.pending = w.pending
          /\ v.bcbs = w.bcbs /\ v.next = w.next /\ v.open = w.open /\ v.fsDirs = w.fsDirs
          /\ v.expanded = w.expanded /\ v.watched = w.watched /\ v.watchFailed = w.watchFailed /\ v.stdin = w.stdin
      BY <2>7, <3>1 DEF UIs
    <3>5. Base(v)
      BY <2>7, <3>3, <3>4 DEF Base
    <3>6. Marked(u) => Marked(v)
      BY <2>5, <2>7, <2>8, <3>4 DEF Marked
    <3>7. Answerable(u) => Answerable(v)
      BY <2>6, <3>4 DEF Answerable
    <3>8. v.cache[d] = NoList /\ \A x \in Dirs : x # d => v.cache[x] = u.cache[x]
      BY <2>5, <2>7, <3>4
    <3>9. \A cut : Whole(u, cut) => Whole(v, cut)
      BY <2>5, <3>4, <3>8 DEF Whole
    <3>10. Follows(u, v)
      BY <2>5, <2>7, <3>4, <3>8 DEF Follows
    <3>11. Flow(u, v)
      <4>1. Flow(w, v)
        <5>1. \A x \in Dirs : v.cache[x] # NoList /\ x \notin v.loading => v.cache[x] = w.cache[x] /\ x \notin w.loading
          BY <2>5, <3>4, <3>8
        <5>2. QED
          BY ONLY <3>4, <5>1 DEF Flow
      <4>2. QED
        BY <2>5, <2>7, <2>a, <3>4, <3>5, <4>1, FlowOn
    <3>12. Renewed(u, v, d)
      <4>1. \A r \in Requests : v.bcbs[r].live => v.pending[v.bcbs[r].dir] = r /\ r # 0
        BY <3>5, Constants DEF Base
      <4>2. v.pending[d] = 0
        BY <2>8, <3>4
      <4>3. QED
        BY ONLY <4>1, <4>2 DEF Renewed
    <3>13. QED
      BY <2>5, <3>4, <3>5, <3>6, <3>7, <3>8, <3>9, <3>10, <3>11, <3>12 DEF Keeps, v
  <2>10. CASE w.daemon # "down"
    <3> DEFINE b == [dir |-> d, live |-> TRUE, keep |-> u.cache[d] # NoList, acc |-> NoList]
               s == [w EXCEPT !.loading = w.loading \cup {d}, !.pending = [w.pending EXCEPT ![d] = w.next],
                              !.next = w.next + 1, !.bcbs = [w.bcbs EXCEPT ![w.next] = b]]
               line == [type |-> "list", id |-> w.next, dir |-> d]
    <3>1. v = BSend(s, line)
      BY <2>2, <2>10
    <3>2. b \in Callbacks /\ b.live /\ b.dir = d
      BY Constants DEF Callbacks
    <3> HIDE DEF b
    <3>3. /\ [w.pending EXCEPT ![d] = w.next] \in [Dirs -> Nat] /\ w.loading \cup {d} \in SUBSET Dirs
          /\ w.next + 1 \in Nat \ {0}
      BY <2>7
    <3>4. [w.bcbs EXCEPT ![w.next] = b] \in [Requests -> Callbacks]
      BY <2>7, <3>2
    <3>5. s \in UIs
      BY <2>7, <3>3, <3>4 DEF UIs
    <3>6. /\ s.loading = w.loading \cup {d} /\ s.pending = [w.pending EXCEPT ![d] = w.next] /\ s.next = w.next + 1
          /\ s.bcbs = [w.bcbs EXCEPT ![w.next] = b] /\ s.cache = w.cache /\ s.open = w.open /\ s.fsDirs = w.fsDirs
          /\ s.expanded = w.expanded /\ s.watched = w.watched /\ s.watchFailed = w.watchFailed /\ s.stdin = w.stdin
      BY <2>7 DEF UIs
    <3>7. line \in Lines /\ line.id = w.next /\ line.dir = d
      BY <2>7, LineTypes
    <3> HIDE DEF s, line
    <3>8. s.pending[d] = w.next /\ \A x \in Dirs : x # d => s.pending[x] = w.pending[x]
      BY <2>7, <3>6
    <3>9. \A k \in Requests : s.bcbs[k] = IF k = w.next THEN b ELSE w.bcbs[k]
      BY <2>7, <3>6
    <3>10. \A x \in Dirs : s.pending[x] < s.next
      BY <2>7, <3>6, <3>8
    <3>11. ASSUME NEW k \in Requests, s.bcbs[k].live PROVE s.pending[s.bcbs[k].dir] = k
      <4>1. CASE k = w.next
        BY <3>2, <3>8, <3>9, <4>1
      <4>2. CASE k # w.next
        <5>1. s.bcbs[k] = w.bcbs[k] /\ w.pending[w.bcbs[k].dir] = k /\ w.bcbs[k].dir \in Dirs
          BY <2>7, <3>9, <3>11, <4>2 DEF Callbacks
        <5>2. w.bcbs[k].dir # d
          BY <2>8, <5>1, Constants
        <5>3. QED
          BY <3>8, <5>1, <5>2
      <4>3. QED
        BY <4>1, <4>2
    <3>12. Base(s)
      BY <2>7, <3>5, <3>6, <3>10, <3>11 DEF Base
    <3>13. Marked(u) => Marked(s)
      BY <2>5, <2>7, <2>8, <3>6, <3>8 DEF Marked
    <3>14. ASSUME Answerable(w), NEW x \in Dirs, s.pending[x] \in Requests
           PROVE  s.bcbs[s.pending[x]].live /\ s.bcbs[s.pending[x]].dir = x
      <4>1. CASE x = d
        BY <3>2, <3>8, <3>9, <3>14, <4>1
      <4>2. CASE x # d
        <5>1. s.pending[x] = w.pending[x] /\ w.pending[x] # w.next
          BY <2>7, <3>8, <4>2
        <5>2. QED
          BY <3>9, <3>14, <5>1 DEF Answerable
      <4>3. QED
        BY <4>1, <4>2
    <3>15. Answerable(u) => Answerable(s)
      BY <2>6, <3>14 DEF Answerable
    <3>16. \A cut : Whole(u, cut) => Whole(s, cut)
      BY <2>5, <3>6 DEF Whole
    <3>17. Follows(u, s)
      BY <2>5, <2>7, <3>6 DEF Follows
    <3>18. Base(v) /\ Alike(s, v) /\ \A x \in Asked(v.stdin) : x \in Asked(w.stdin) \/ x = line
      <4>1. Base(v) /\ Alike(s, v) /\ \A x \in Asked(v.stdin) : x \in Asked(s.stdin) \/ x = line
        BY <3>1, <3>7, <3>12, BSendFacts
      <4>2. s.stdin = w.stdin
        BY <3>6
      <4>3. QED
        BY ONLY <4>1, <4>2
    <3> HIDE DEF v
    <3>19. Flow(u, v)
      <4>1. v.next = w.next + 1 /\ v.bcbs = s.bcbs /\ v.cache = w.cache /\ w.loading \subseteq v.loading
        BY <3>6, <3>18 DEF Alike
      <4>2. \A k \in Requests : v.bcbs[k].live /\ k < w.next => v.bcbs[k] = w.bcbs[k]
        BY <2>7, <3>9, <4>1
      <4>3. w.next <= line.id /\ line.id < v.next
        BY <2>7, <3>7, <4>1
      <4>4. Fits(v, line)
        BY <3>2, <3>7, <3>9, <4>1 DEF Fits
      <4>5. Flow(w, v)
        BY ONLY <3>18, <4>1, <4>2, <4>3, <4>4 DEF Flow
      <4>6. w.next <= v.next
        BY <2>7, <4>1
      <4>7. QED
        BY <2>5, <2>7, <2>a, <3>18, <4>5, <4>6, FlowOn
    <3>20. Keeps(u, v)
      <4>1. Marked(u) => Marked(v)
        BY <3>13, <3>18 DEF Alike, Marked
      <4>2. Answerable(u) => Answerable(v)
        BY <3>15, <3>18 DEF Alike, Answerable
      <4>3. \A cut : Whole(u, cut) => Whole(v, cut)
        BY <3>16, <3>18 DEF Alike, Whole
      <4>4. Follows(u, v)
        BY <3>17, <3>18 DEF Alike, Follows
      <4>5. QED
        BY <2>5, <3>6, <3>18, <3>19, <4>1, <4>2, <4>3, <4>4 DEF Keeps, Alike
    <3>21. d \in v.loading
      BY <3>6, <3>18 DEF Alike
    <3>22. Renewed(u, v, d)
      <4>1. \A r \in Requests : v.bcbs[r].live => v.pending[v.bcbs[r].dir] = r
        BY <3>18 DEF Base
      <4>2. v.pending[d] = u.next
        BY <2>5, <3>8, <3>18 DEF Alike
      <4>3. u.next \in Nat
        BY <2>5, <2>7
      <4>4. QED
        BY ONLY <4>1, <4>2, <4>3 DEF Renewed
    <3>23. QED
      BY <3>20, <3>21, <3>22 DEF v
  <2>11. QED
    BY <2>9, <2>10
<1>3. QED
  BY <1>1, <1>2

LEMMA RenderFacts ==
  ASSUME NEW u, Base(u)
  PROVE  Keeps(u, Render(u))
<1> DEFINE f == [u EXCEPT !.render = FALSE]
           w == ScanDirAsync(f, Root, FALSE)
           v == ScanDirAsync(w, Sub, FALSE)
<1>1. Render(u) \in {u, w, v}
  BY DEF Render
<1>2. Base(f) /\ SameScans(u, f)
  BY RenderChanges
<1> HIDE DEF f
<1>3. Keeps(u, f) /\ Keeps(f, w)
  BY <1>2, SameKeeps, ScanFacts, Constants
<1>4. Keeps(u, w) /\ Base(w)
  BY <1>3, KeepsOn DEF Keeps
<1> HIDE DEF w
<1>5. Keeps(w, v)
  BY <1>4, ScanFacts, Constants
<1>6. Keeps(u, v)
  BY <1>4, <1>5, KeepsOn
<1>7. Keeps(u, u)
  BY SameKeeps DEF SameScans, Alike
<1>8. QED
  BY <1>1, <1>4, <1>6, <1>7

\* d forgets its listing and its request.
LEMMA ForgetFacts ==
  ASSUME NEW u, Base(u), NEW d \in Dirs,
         NEW v, v = [CancelPending(u, d) EXCEPT !.cache[d] = NoList, !.loading = @ \ {d}, !.errors = @ \ {d}]
  PROVE  Keeps(u, v) /\ v.cache[d] = NoList /\ Renewed(u, v, d)
<1> DEFINE w == CancelPending(u, d)
<1>1. /\ Base(w) /\ w.pending = [u.pending EXCEPT ![d] = 0] /\ w.cache = u.cache /\ w.loading = u.loading
      /\ w.next = u.next /\ w.open = u.open /\ w.fsDirs = u.fsDirs /\ (Answerable(u) => Answerable(w)) /\ Flow(u, w)
  BY CancelPendingFacts
<1>2. v = [w EXCEPT !.cache = [w.cache EXCEPT ![d] = NoList], !.loading = w.loading \ {d}, !.errors = w.errors \ {d}]
  OBVIOUS
<1> HIDE DEF w
<1>3. /\ w \in UIs /\ w.pending \in [Dirs -> Nat] /\ w.cache \in [Dirs -> Lists] /\ w.next \in Nat \ {0}
      /\ w.loading \subseteq Dirs /\ w.errors \subseteq Dirs
  BY <1>1 DEF Base, UIs
<1>4. [w.cache EXCEPT ![d] = NoList] \in [Dirs -> Lists] /\ w.loading \ {d} \in SUBSET Dirs /\ w.errors \ {d} \in SUBSET Dirs
  BY <1>3, Constants
<1>5. v \in UIs
  BY ONLY <1>2, <1>3, <1>4 DEF UIs
<1>6. /\ v.loading = w.loading \ {d} /\ v.cache = [w.cache EXCEPT ![d] = NoList] /\ v.pending = w.pending
      /\ v.bcbs = w.bcbs /\ v.next = w.next /\ v.open = w.open /\ v.fsDirs = w.fsDirs
      /\ v.expanded = w.expanded /\ v.watched = w.watched /\ v.watchFailed = w.watchFailed /\ v.stdin = w.stdin
  BY <1>2, <1>3 DEF UIs
<1>7. Base(v)
  <2>1. /\ Root \in w.expanded /\ w.watched \cap w.watchFailed = {} /\ \A x \in Dirs : w.pending[x] < w.next
        /\ \A k \in Requests : w.bcbs[k].live => w.pending[w.bcbs[k].dir] = k
    BY <1>1 DEF Base
  <2>2. QED
    BY ONLY <1>5, <1>6, <2>1 DEF Base
<1>8. v.pending[d] = 0 /\ \A x \in Dirs : x # d => v.pending[x] = u.pending[x]
  <2>1. u.pending \in [Dirs -> Nat]
    BY DEF Base, UIs
  <2>2. v.pending = [u.pending EXCEPT ![d] = 0]
    BY ONLY <1>1, <1>6
  <2>3. QED
    BY ONLY <2>1, <2>2
<1>9. Marked(u) => Marked(v)
  BY <1>1, <1>3, <1>6, <1>8 DEF Marked
<1>10. Answerable(u) => Answerable(v)
  <2>1. v.pending = w.pending /\ v.bcbs = w.bcbs
    BY ONLY <1>6
  <2>2. Answerable(w) => Answerable(v)
    BY ONLY <2>1 DEF Answerable
  <2>3. QED
    BY <1>1, <2>2
<1>11. v.cache[d] = NoList /\ \A x \in Dirs : x # d => v.cache[x] = u.cache[x]
  BY <1>1, <1>3, <1>6
<1>12. \A cut : Whole(u, cut) => Whole(v, cut)
  BY <1>1, <1>6, <1>11 DEF Whole
<1>13. Follows(u, v)
  BY <1>1, <1>3, <1>6, <1>11 DEF Follows
<1>14. Flow(u, v)
  <2>1. \A x \in Dirs : v.cache[x] # NoList /\ x \notin v.loading => v.cache[x] = w.cache[x] /\ x \notin w.loading
    BY <1>1, <1>6, <1>11
  <2>2. Flow(w, v)
    BY ONLY <1>6, <2>1 DEF Flow
  <2>3. u.next <= w.next /\ w.next <= v.next
    BY <1>1, <1>3, <1>6
  <2>4. QED
    BY <1>1, <1>7, <2>2, <2>3, FlowOn
<1>15. Renewed(u, v, d)
  <2>1. \A r \in Requests : v.bcbs[r].live => v.pending[v.bcbs[r].dir] = r /\ r # 0
    BY <1>7, Constants DEF Base
  <2>2. QED
    BY ONLY <1>8, <2>1 DEF Renewed
<1>16. QED
  BY <1>1, <1>6, <1>7, <1>9, <1>10, <1>11, <1>12, <1>13, <1>14, <1>15 DEF Keeps

\* Of d, no listing is left that was cut short.
LEMMA RescanFacts ==
  ASSUME NEW u, Base(u), NEW d \in Dirs
  PROVE  /\ Keeps(u, InvalidateAndRescan(u, d)) /\ InvalidateAndRescan(u, d).cache[d] = NoList
         /\ \A cut : Whole(u, cut) => Whole(InvalidateAndRescan(u, d), cut \ {d})
<1> DEFINE w == [CancelPending(u, d) EXCEPT !.cache[d] = NoList, !.loading = @ \ {d}, !.errors = @ \ {d}]
           v == InvalidateAndRescan(u, d)
<1>1. v \in {w, ScanDirAsync(w, d, FALSE)}
  BY DEF InvalidateAndRescan
<1>2. Keeps(u, w) /\ w.cache[d] = NoList
  BY ForgetFacts
<1> HIDE DEF w, v
<1>3. Base(w) /\ Keeps(w, w) /\ Keeps(w, ScanDirAsync(w, d, FALSE))
  BY <1>2, SameKeeps, ScanFacts DEF Keeps, SameScans, Alike
<1>4. Keeps(w, v)
  BY <1>1, <1>3
<1>5. Keeps(u, v)
  BY <1>2, <1>4, KeepsOn
<1>6. v.cache[d] = NoList
  BY <1>2, <1>4 DEF Keeps, Follows
<1>7. \A cut : Whole(u, cut) => Whole(v, cut \ {d})
  BY <1>5, <1>6 DEF Keeps, Whole
<1>8. QED
  BY <1>5, <1>6, <1>7 DEF v

\* What is known of d, and what is waited for, has begun since.
LEMMA RefreshDirFacts ==
  ASSUME NEW u, Base(u), u.open, NEW d \in Dirs
  PROVE  /\ Keeps(u, RefreshDir(u, d)) /\ Renewed(u, RefreshDir(u, d), d)
         /\ RefreshDir(u, d).cache[d] = NoList \/ d \in RefreshDir(u, d).loading
         /\ \A cut : Whole(u, cut) => Whole(RefreshDir(u, d), cut \ {d})
<1> DEFINE w == [CancelPending(u, d) EXCEPT !.cache[d] = NoList, !.errors = @ \ {d}, !.loading = @ \ {d}]
           v == RefreshDir(u, d)
<1>1. CASE d \in u.expanded
  <2>1. v = ScanDirAsync(u, d, TRUE)
    BY <1>1 DEF RefreshDir
  <2> HIDE DEF v
  <2>2. Keeps(u, v) /\ (v.cache[d] = NoList \/ d \in v.loading) /\ Renewed(u, v, d)
    BY <2>1, ScanFacts
  <2>3. \A cut : Whole(u, cut) => Whole(v, cut \ {d})
    BY <2>2 DEF Keeps, Whole
  <2>4. QED
    BY <2>2, <2>3 DEF v
<1>2. CASE d \notin u.expanded
  <2>1. v = w
    BY <1>2 DEF RefreshDir
  <2>2. Keeps(u, w) /\ w.cache[d] = NoList /\ Renewed(u, w, d)
    <3>1. w = [CancelPending(u, d) EXCEPT !.cache[d] = NoList, !.loading = @ \ {d}, !.errors = @ \ {d}]
      <4>1. CancelPending(u, d) \in UIs
        BY CancelPendingFacts DEF Base
      <4>2. QED
        BY <4>1 DEF UIs
    <3>2. QED
      BY <3>1, ForgetFacts
  <2> HIDE DEF v, w
  <2>3. \A cut : Whole(u, cut) => Whole(w, cut \ {d})
    BY <2>2 DEF Keeps, Whole
  <2>4. QED
    BY <2>1, <2>2, <2>3 DEF v
<1>3. QED
  BY <1>1, <1>2

----------------------------------------------------------------------------
(* What is to be shown.  A directory that is shows its listing, or that it *)
(* is being scanned, or that it could not be.                              *)

Has(u, d) == u.cache[d] # NoList \/ d \in u.errors \cup u.loading

\* So it is for an open tree, unless it is about to be rendered or the supervisor
\* has given up.
Seen(u) ==
  u.open /\ ~u.render /\ ~u.tripped =>
    Has(u, Root) /\ (Sub \in u.expanded /\ u.cache[Root] # NoList => Has(u, Sub))

SameTree(u, v) ==
  /\ v.open = u.open /\ v.expanded = u.expanded /\ v.cache = u.cache /\ v.loading = u.loading
  /\ v.errors = u.errors /\ v.render = u.render /\ v.tripped = u.tripped

LEMMA SameSeen ==
  ASSUME NEW u, NEW v, SameTree(u, v), Seen(u) PROVE Seen(v)
BY DEF SameTree, Seen, Has

LEMMA BSendTree ==
  ASSUME NEW u, Base(u), NEW line PROVE SameTree(u, BSend(u, line))
BY DEF Base, UIs, BSend, SameTree

LEMMA EnsureTree ==
  ASSUME NEW u, Base(u)
  PROVE  SameTree(u, Ensure(u)) /\ (Ensure(u).daemon = "down" => u.tripped)
BY DEF Base, UIs, Ensure, ResetBackendSessionState, SameTree

LEMMA WatchDirTree ==
  ASSUME NEW u, Base(u), NEW d PROVE SameTree(u, WatchDir(u, d))
BY DEF Base, UIs, WatchDir, BSend, SameTree

LEMMA WatchExpandedTree ==
  ASSUME NEW u, Base(u) PROVE SameTree(u, WatchExpandedDirs(u))
<1> DEFINE w == WatchDir(u, Root)
<1>1. SameTree(u, w) /\ Base(w)
  BY WatchDirTree, WatchDirFacts, Constants
<1>2. WatchExpandedDirs(u) \in {w, WatchDir(w, Sub)}
  BY DEF WatchExpandedDirs
<1> HIDE DEF w
<1>3. SameTree(w, WatchDir(w, Sub))
  BY <1>1, WatchDirTree
<1>4. QED
  BY <1>1, <1>2, <1>3 DEF SameTree

LEMMA CancelPendingTree ==
  ASSUME NEW u, Base(u), NEW d PROVE SameTree(u, CancelPending(u, d))
BY DEF Base, UIs, CancelPending, BCancel, BSend, SameTree

\* Afterwards d has something to show, and nothing has lost what it had unless the
\* tree is to be rendered.
LEMMA ScanTree ==
  ASSUME NEW u, Base(u), NEW d \in Dirs, NEW force \in BOOLEAN
  PROVE  LET v == ScanDirAsync(u, d, force) IN
         /\ v.open = u.open /\ v.expanded = u.expanded /\ v.tripped = u.tripped
         /\ u.render => v.render
         /\ u.open => Has(v, d)
         /\ v.render \/ (v.cache = u.cache /\ \A x \in Dirs : Has(u, x) => Has(v, x))
<1> DEFINE g == ~u.open \/ (~force /\ (u.cache[d] # NoList \/ d \in u.errors \cup u.loading))
           e == [u EXCEPT !.errors = u.errors \ {d}]
           c == CancelPending(e, d)
           w == Ensure(c)
           v == ScanDirAsync(u, d, force)
<1>1. CASE g
  <2>1. v = u
    BY <1>1 DEF ScanDirAsync
  <2>2. QED
    BY <1>1, <2>1 DEF Has
<1>2. CASE ~g
  <2> DEFINE x == [w EXCEPT !.loading = w.loading \cup {d}, !.pending = [w.pending EXCEPT ![d] = w.next],
                            !.next = w.next + 1,
                            !.bcbs = [w.bcbs EXCEPT ![w.next] =
                              [dir |-> d, live |-> TRUE, keep |-> u.cache[d] # NoList, acc |-> NoList]]]
             y == [w EXCEPT !.loading = w.loading \ {d}, !.cache = [w.cache EXCEPT ![d] = NoList],
                            !.errors = w.errors \cup {d}, !.render = TRUE]
             line == [type |-> "list", id |-> w.next, dir |-> d]
  <2>1. v = IF w.daemon = "down" THEN y ELSE BSend(x, line)
    BY <1>2 DEF ScanDirAsync
  <2>2. u \in UIs /\ u.errors \ {d} \in SUBSET Dirs
    BY DEF Base, UIs
  <2>3. Base(e)
    BY <2>2, ErrorsChange
  <2>4. /\ e.open = u.open /\ e.expanded = u.expanded /\ e.cache = u.cache /\ e.loading = u.loading
        /\ e.errors = u.errors \ {d} /\ e.render = u.render /\ e.tripped = u.tripped
    BY <2>2 DEF UIs
  <2> HIDE DEF g, e, v
  <2>5. SameTree(e, c) /\ Base(c)
    BY <2>3, CancelPendingTree, CancelPendingFacts
  <2> HIDE DEF c
  <2>6. SameTree(c, w) /\ Base(w) /\ w \in UIs
    BY <2>5, EnsureTree, EnsureFacts DEF Base
  <2>7. /\ w.open = u.open /\ w.expanded = u.expanded /\ w.cache = u.cache /\ w.loading = u.loading
        /\ w.errors = u.errors \ {d} /\ w.render = u.render /\ w.tripped = u.tripped
    BY <2>4, <2>5, <2>6 DEF SameTree
  <2> HIDE DEF w
  <2>8. CASE w.daemon = "down"
    <3>1. /\ y.open = w.open /\ y.expanded = w.expanded /\ y.tripped = w.tripped
          /\ y.render = TRUE /\ y.errors = w.errors \cup {d}
      BY <2>6 DEF UIs
    <3> HIDE DEF y
    <3>2. v = y
      BY <2>1, <2>8
    <3>3. QED
      BY <2>7, <3>1, <3>2 DEF Has, v
  <2>9. CASE w.daemon # "down"
    <3>1. /\ x.open = w.open /\ x.expanded = w.expanded /\ x.tripped = w.tripped /\ x.cache = w.cache
          /\ x.render = w.render /\ x.errors = w.errors /\ x.loading = w.loading \cup {d}
      BY <2>6 DEF UIs
    <3>2. SameTree(x, [x EXCEPT !.stdin = Append(@, line)])
      BY <2>6 DEF UIs, SameTree
    <3> HIDE DEF x
    <3>3. v \in {x, [x EXCEPT !.stdin = Append(@, line)]}
      BY <2>1, <2>9 DEF BSend
    <3>4. SameTree(x, v)
      BY <3>2, <3>3 DEF SameTree
    <3>5. /\ v.open = u.open /\ v.expanded = u.expanded /\ v.tripped = u.tripped /\ v.cache = u.cache
          /\ v.render = u.render /\ v.errors = u.errors \ {d} /\ v.loading = u.loading \cup {d}
      BY <2>7, <3>1, <3>4 DEF SameTree
    <3>6. QED
      BY ONLY <3>5 DEF Has, v
  <2>10. QED
    BY <2>8, <2>9
<1>3. QED
  BY <1>1, <1>2

\* Render() scans what is to be shown and has nothing.
LEMMA RenderSeen ==
  ASSUME NEW u, Base(u) PROVE Seen(Render(u))
<1> DEFINE f == [u EXCEPT !.render = FALSE]
           w == ScanDirAsync(f, Root, FALSE)
           v == ScanDirAsync(w, Sub, FALSE)
<1>1. CASE ~u.open
  BY <1>1 DEF Render, Seen
<1>2. CASE u.open
  <2>1. Render(u) = IF w.cache[Root] # NoList /\ Sub \in w.expanded THEN v ELSE w
    BY <1>2 DEF Render
  <2>2. Base(f) /\ f.open
    BY <1>2, RenderChanges DEF SameScans, Alike
  <2> HIDE DEF f
  <2>3. w.open /\ Has(w, Root) /\ Base(w)
    BY <2>2, ScanTree, ScanFacts, Constants DEF Keeps
  <2> HIDE DEF w
  <2>4. /\ v.expanded = w.expanded /\ Has(v, Sub)
        /\ v.render \/ (v.cache = w.cache /\ Has(v, Root))
    BY <2>3, ScanTree, Constants
  <2> HIDE DEF v
  <2>5. QED
    BY <2>1, <2>3, <2>4 DEF Seen
<1>3. QED
  BY <1>1, <1>2

\* A tree that is to be rendered still is.
LEMMA RefreshDirRender ==
  ASSUME NEW u, Base(u), u.render, NEW d \in Dirs PROVE RefreshDir(u, d).render
<1> DEFINE c == CancelPending(u, d)
<1>1. ScanDirAsync(u, d, TRUE).render
  BY ScanTree
<1>2. c \in UIs /\ c.render
  BY CancelPendingFacts, CancelPendingTree DEF Base, SameTree
<1> HIDE DEF c
<1>3. [c EXCEPT !.cache[d] = NoList, !.errors = @ \ {d}, !.loading = @ \ {d}].render
  BY <1>2 DEF UIs
<1>4. QED
  BY <1>1, <1>3 DEF RefreshDir, c

----------------------------------------------------------------------------
(* The inductive invariant.                                                *)

Tasks == [at : {"none", "asked", "paging", "over"}, dir : Dirs, floor : Nat, ver : Nat]
Events ==
  [type : {"list_chunk"}, id : Requests, ver : Nat, done : BOOLEAN] \cup [type : {"error"}, id : Requests]
  \cup [type : {"watch_failed"}, dir : Dirs] \cup [type : {"fs_event"}, dir : Dirs, ver : Nat]

DaemonOK ==
  /\ disk \in [Dirs -> Nat \ {0}] /\ watches \subseteq Dirs /\ news \subseteq Dirs
  /\ announced \in [Dirs -> Nat \ {0}] /\ task \in [Requests -> Tasks] /\ out \in Seq(Events)

\* No fs_event says more than has been announced, and nothing is announced that
\* is not on disk.
Announced ==
  /\ told \in [Dirs -> Nat] /\ \A d \in Dirs : told[d] <= announced[d] /\ announced[d] <= disk[d]
  /\ \A e \in Of("fs_event", out) : e.ver <= announced[e.dir]

\* Of a request that has yet to be made, the daemon, with the tasks tk, knows
\* nothing, and no page o is on its way.
Known(u, tk, o) ==
  /\ \A line \in Asked(u.stdin) : line.id < u.next /\ Fits(u, line)
  /\ \A r \in Requests : tk[r].at \in {"asked", "paging"} => r < u.next
  /\ \A e \in Of("list_chunk", o) : e.id \in Requests /\ e.id < u.next

\* What a directory waits for will be, or is, as new as what was told of it, tl,
\* unless it is due to be scanned again.
FreshAnswers(u, tl, tk, o, due) ==
  \A r \in Requests : u.bcbs[r].live /\ u.bcbs[r].dir \notin due =>
    /\ tk[r].at = "asked" => tl[u.bcbs[r].dir] <= tk[r].floor
    /\ tk[r].at = "paging" => tl[u.bcbs[r].dir] <= tk[r].ver
    /\ \A e \in Of("list_chunk", o) : e.id = r => tl[u.bcbs[r].dir] <= e.ver

FreshLists(u, tl, due, cut) ==
  \A d \in Dirs : u.cache[d] # NoList /\ d \notin u.loading \cup due \cup cut => tl[d] <= u.cache[d].ver

Fresh(u, tl, tk, o, due, cut) ==
  Known(u, tk, o) /\ FreshAnswers(u, tl, tk, o, due) /\ FreshLists(u, tl, due, cut)

IInv ==
  /\ DaemonOK /\ Sound(ui) /\ ui.next <= MaxRequests + 1 /\ Whole(ui, leftover)
  /\ Announced /\ Fresh(ui, told, task, out, ui.fsDirs, leftover)
  /\ Seen(ui)

\* What comes into the cache comes from what its directory waits for.
Current(u, v) ==
  \A d \in Dirs : (v.cache[d] # u.cache[d] /\ v.cache[d] # NoList)
                    => v.cache[d].by = u.pending[d] /\ u.pending[d] # 0

LEMMA FollowsIsCurrent ==
  ASSUME NEW u, NEW v, Follows(u, v) PROVE Current(u, v)
BY DEF Follows, Current

\* A scan that has begun meanwhile has not been answered yet.
LEMMA FreshFlow ==
  ASSUME NEW u, NEW v, Base(u), Base(v), Flow(u, v), u.next <= v.next,
         NEW tl, NEW tk, NEW o, NEW due, NEW cut, Fresh(u, tl, tk, o, due, cut)
  PROVE  Fresh(v, tl, tk, o, due, cut)
<1>1. u.next \in Nat /\ v.next \in Nat /\ \A r \in Requests : r \in Nat
  BY Constants DEF Base, UIs
<1>2. Known(v, tk, o)
  <2>1. ASSUME NEW line \in Asked(v.stdin) PROVE line.id < v.next /\ Fits(v, line)
    <3>1. line.id \in Nat
      BY AskedLines
    <3>2. CASE line \in Asked(u.stdin)
      <4>1. line.id < u.next /\ Fits(u, line)
        BY <3>2 DEF Fresh, Known
      <4>2. line.id < v.next
        BY <1>1, <3>1, <4>1
      <4>3. QED
        BY <4>1, <4>2 DEF Flow, Fits
    <3>3. QED
      BY <3>2 DEF Flow
  <2>2. \A r \in Requests : tk[r].at \in {"asked", "paging"} => r < v.next
    BY <1>1 DEF Fresh, Known
  <2>3. \A e \in Of("list_chunk", o) : e.id \in Requests /\ e.id < v.next
    BY <1>1 DEF Fresh, Known
  <2>4. QED
    BY <2>1, <2>2, <2>3 DEF Known
<1>3. FreshAnswers(v, tl, tk, o, due)
  <2> SUFFICES ASSUME NEW r \in Requests, v.bcbs[r].live, v.bcbs[r].dir \notin due
               PROVE  /\ tk[r].at = "asked" => tl[v.bcbs[r].dir] <= tk[r].floor
                      /\ tk[r].at = "paging" => tl[v.bcbs[r].dir] <= tk[r].ver
                      /\ \A e \in Of("list_chunk", o) : e.id = r => tl[v.bcbs[r].dir] <= e.ver
    BY DEF FreshAnswers
  <2>1. CASE r < u.next
    <3>1. u.bcbs[r].live /\ v.bcbs[r].dir = u.bcbs[r].dir
      BY <2>1 DEF Flow
    <3>2. FreshAnswers(u, tl, tk, o, due)
      BY DEF Fresh
    <3>3. QED
      BY <3>1, <3>2 DEF FreshAnswers
  <2>2. CASE ~(r < u.next)
    BY <2>2 DEF Fresh, Known
  <2>3. QED
    BY <2>1, <2>2
<1>4. FreshLists(v, tl, due, cut)
  BY DEF Fresh, FreshLists, Flow
<1>5. QED
  BY <1>2, <1>3, <1>4 DEF Fresh

LEMMA FreshKeeps ==
  ASSUME NEW u, NEW v, Base(u), Keeps(u, v), NEW tl, NEW tk, NEW o, NEW due, NEW cut, Fresh(u, tl, tk, o, due, cut)
  PROVE  Fresh(v, tl, tk, o, due, cut)
BY FreshFlow DEF Keeps, Follows

\* What was due and has begun again is due no more, and nothing of it is left.
LEMMA FreshRenewed ==
  ASSUME NEW u, NEW v, Base(u), Keeps(u, v), NEW tl, NEW tk, NEW o, NEW due, NEW cut, Fresh(u, tl, tk, o, due, cut),
         \A d \in Dirs \cap due : Renewed(u, v, d) /\ (v.cache[d] = NoList \/ d \in v.loading)
  PROVE  Fresh(v, tl, tk, o, {}, cut \ due)
<1>1. u.next \in Nat /\ (\A r \in Requests : r \in Nat) /\ \A r \in Requests : v.bcbs[r].dir \in Dirs
  BY Constants DEF Keeps, Base, UIs, Callbacks
<1>2. Fresh(v, tl, tk, o, due, cut)
  BY FreshKeeps
<1>3. ASSUME NEW r \in Requests, v.bcbs[r].live
      PROVE  /\ tk[r].at = "asked" => tl[v.bcbs[r].dir] <= tk[r].floor
             /\ tk[r].at = "paging" => tl[v.bcbs[r].dir] <= tk[r].ver
             /\ \A e \in Of("list_chunk", o) : e.id = r => tl[v.bcbs[r].dir] <= e.ver
  <2>1. CASE v.bcbs[r].dir \in due
    <3>1. u.next <= r
      BY <1>1, <1>3, <2>1 DEF Renewed
    <3>2. ~(r < u.next)
      BY <1>1, <3>1
    <3>3. QED
      BY <3>2 DEF Fresh, Known
  <2>2. CASE v.bcbs[r].dir \notin due
    BY <1>2, <1>3, <2>2 DEF Fresh, FreshAnswers
  <2>3. QED
    BY <2>1, <2>2
<1>4. FreshLists(v, tl, {}, cut \ due)
  BY <1>2 DEF Fresh, FreshLists
<1>5. QED
  BY <1>2, <1>3, <1>4 DEF Fresh, FreshAnswers

\* Of what has no listing, none was cut short.
LEMMA FreshDropped ==
  ASSUME NEW u, NEW tl, NEW tk, NEW o, NEW due, NEW cut, Fresh(u, tl, tk, o, due, cut)
  PROVE  Fresh(u, tl, tk, o, due, cut \ {d \in Dirs : u.cache[d] = NoList})
BY DEF Fresh, FreshLists

\* Pages that have been read are no longer on their way.
LEMMA FreshLess ==
  ASSUME NEW u, NEW tl, NEW tk, NEW o, NEW due, NEW cut, Fresh(u, tl, tk, o, due, cut),
         NEW p, Of("list_chunk", p) \subseteq Of("list_chunk", o)
  PROVE  Fresh(u, tl, tk, p, due, cut)
BY DEF Fresh, Known, FreshAnswers

\* A step of the plugin that starts from u0, which is sound, and goes on from there.
LEMMA PluginStep ==
  ASSUME IInv, NEW u0, Base(u0), Marked(u0), Answerable(u0), Queued(u0), Follows(ui, u0), Whole(u0, leftover'),
         Fresh(u0, told', task', out', u0.fsDirs, leftover'),
         Keeps(u0, ui'), ui'.next <= MaxRequests + 1, DaemonOK', Announced', Seen(ui')
  PROVE  IInv' /\ Current(ui, ui')
<1>1. Sound(ui')
  BY DEF Keeps, Sound, Queued
<1>2. Whole(ui', leftover')
  BY DEF Keeps
<1>3. Follows(ui, ui')
  <2>1. ui.next \in Nat /\ u0.next \in Nat /\ ui'.next \in Nat
    BY DEF IInv, Sound, Keeps, Base, UIs
  <2>2. QED
    BY <2>1, FollowsOn DEF Keeps
<1>4. Fresh(ui', told', task', out', ui'.fsDirs, leftover')
  <2>1. Fresh(ui', told', task', out', u0.fsDirs, leftover')
    BY FreshKeeps
  <2>2. ui'.fsDirs = u0.fsDirs
    BY DEF Keeps
  <2>3. QED
    BY <2>1, <2>2
<1>5. QED
  BY <1>1, <1>2, <1>3, <1>4, FollowsIsCurrent DEF IInv

\* The same when only what does not concern scans comes before.
LEMMA PlainStep ==
  ASSUME IInv, NEW u0, Keeps(ui, u0), Keeps(u0, ui'), ui'.next <= MaxRequests + 1, leftover' = leftover, DaemonOK',
         Announced', Fresh(ui, told', task', out', ui.fsDirs, leftover), Seen(ui')
  PROVE  IInv' /\ Current(ui, ui')
<1>1. Base(u0) /\ Marked(u0) /\ Answerable(u0) /\ Queued(u0) /\ Follows(ui, u0) /\ Whole(u0, leftover)
  BY DEF IInv, Sound, Keeps, Queued
<1>2. Fresh(u0, told', task', out', u0.fsDirs, leftover')
  <2>1. Fresh(u0, told', task', out', ui.fsDirs, leftover)
    BY FreshKeeps DEF IInv, Sound
  <2>2. QED
    BY <2>1 DEF Keeps
<1>3. QED
  BY <1>1, <1>2, PluginStep

LEMMA KeepsSelf ==
  ASSUME NEW u, Base(u) PROVE Keeps(u, u)
BY SameKeeps DEF SameScans, Alike

LEMMA InitStep == Init => IInv
<1> SUFFICES ASSUME Init PROVE IInv
  OBVIOUS
<1>1. \A S : <<>> \in Seq(S)
  OBVIOUS
<1>2. DaemonOK
  <2>1. NoTask \in Tasks
    BY Constants DEF NoTask, Tasks
  <2>2. QED
    BY <1>1, <2>1, Constants DEF Init, DaemonOK
<1>3. /\ ui.open = TRUE /\ ui.expanded = {Root} /\ ui.loading = {} /\ ui.pending = [d \in Dirs |-> 0]
      /\ ui.cache = [d \in Dirs |-> IF d = Root THEN [NoList EXCEPT !.ver = 1, !.whole = TRUE] ELSE NoList]
      /\ ui.bcbs = [r \in Requests |-> NoCallback] /\ ui.next = 1 /\ ui.fsDirs = {}
      /\ ui.watched = {Root} /\ ui.watchFailed = {}
  BY DEF Init
<1>4. [NoList EXCEPT !.ver = 1, !.whole = TRUE] \in Lists /\ [NoList EXCEPT !.ver = 1, !.whole = TRUE].whole
  BY Constants DEF Lists
<1>5. ui \in UIs
  <2>1. ui.cache \in [Dirs -> Lists]
    BY <1>3, <1>4, Constants
  <2>2. ui.bcbs \in [Requests -> Callbacks] /\ ui.pending \in [Dirs -> Nat] /\ {Root} \in SUBSET Dirs /\ {} \in SUBSET Dirs
    BY <1>3, Constants
  <2>3. QED
    BY <1>1, <1>3, <2>1, <2>2 DEF Init, UIs
<1>6. Sound(ui)
  BY <1>3, <1>5, Constants DEF Sound, Base, Marked, Answerable, Queued
<1>7. Whole(ui, leftover)
  BY <1>3, <1>4 DEF Whole
<1>8. ui.next <= MaxRequests + 1
  BY <1>3, TreeAssumption
<1>9. Announced
  <2>1. out \in Seq(Events) /\ out = <<>>
    BY <1>2 DEF Init, DaemonOK
  <2>2. Of("fs_event", out) = {}
    BY <2>1, OfLines
  <2>3. QED
    BY <2>2 DEF Init, Announced
<1>10. Fresh(ui, told, task, out, ui.fsDirs, leftover)
  <2>1. Of("list_chunk", out) = {} /\ Asked(ui.stdin) = {}
    <3>1. out \in Seq(Events) /\ out = <<>> /\ ui.stdin \in Seq(Lines) /\ ui.stdin = <<>>
      BY <1>2, <1>5 DEF Init, DaemonOK, UIs
    <3>2. QED
      BY <3>1, OfLines DEF Asked
  <2>2. Known(ui, task, out)
    BY <2>1 DEF Init, Known, NoTask
  <2>3. FreshAnswers(ui, told, task, out, ui.fsDirs)
    BY <1>3, Constants DEF FreshAnswers
  <2>4. FreshLists(ui, told, ui.fsDirs, leftover)
    <3>1. \A d \in Dirs : told[d] = 0 /\ ui.cache[d].ver \in Nat
      BY <1>5 DEF Init, UIs, Lists
    <3>2. QED
      BY <3>1 DEF FreshLists
  <2>5. QED
    BY <2>2, <2>3, <2>4 DEF Fresh
<1>a. Seen(ui)
  <2>1. ui.cache[Root] # NoList
    <3>1. ui.cache[Root].whole
      <4>1. Root \in Dirs
        BY Constants
      <4>2. ui.cache[Root] = [NoList EXCEPT !.ver = 1, !.whole = TRUE]
        BY ONLY <1>3, <4>1
      <4>3. QED
        BY ONLY <1>4, <4>2
    <3>2. ~NoList.whole
      BY DEF NoList
    <3>3. QED
      BY <3>1, <3>2
  <2>2. Sub \notin ui.expanded
    BY <1>3, Constants
  <2>3. QED
    BY <2>1, <2>2 DEF Seen, Has
<1>11. QED
  BY <1>a, <1>2, <1>6, <1>7, <1>8, <1>9, <1>10 DEF IInv

\* The commands and timers leave the daemon alone.
LEMMA CommandTypes ==
  ASSUME IInv, CommandUnchanged
  PROVE  DaemonOK' /\ (told' = told => Announced' /\ Fresh(ui, told', task', out', ui.fsDirs, leftover))
BY DEF IInv, CommandUnchanged, DiskUnchanged, daemonVars, DaemonOK, Announced

----------------------------------------------------------------------------
(* Commands.                                                               *)

LEMMA OpenStep == IInv /\ Open => IInv' /\ Current(ui, ui')
<1> SUFFICES ASSUME IInv, Open PROVE IInv' /\ Current(ui, ui')
  OBVIOUS
<1> DEFINE e == [ui EXCEPT !.open = TRUE]
           u == Ensure(e)
           x == WatchExpandedDirs(u)
           y == ScanDirAsync(x, Root, FALSE)
<1>1. /\ DaemonOK' /\ leftover' = leftover /\ ui'.next <= MaxRequests + 1
      /\ (u.daemon = "down" /\ ui' = u) \/ ui' = Render(y)
      /\ Announced' /\ Fresh(ui, told', task', out', ui.fsDirs, leftover)
  BY CommandTypes DEF Open, Do
<1>2. Sound(e) /\ Follows(ui, e) /\ Whole(e, leftover) /\ Fresh(e, told', task', out', e.fsDirs, leftover)
  <2>1. Base(ui) /\ Marked(ui) /\ Answerable(ui) /\ Whole(ui, leftover) /\ ui \in UIs /\ ui.next \in Nat
    BY DEF IInv, Sound, Base, UIs
  <2>2. Base(e) /\ e.open = TRUE /\ e.loading = ui.loading /\ e.cache = ui.cache /\ e.pending = ui.pending /\ e.bcbs = ui.bcbs
        /\ e.next = ui.next /\ e.stdin = ui.stdin /\ e.fsDirs = ui.fsDirs
    BY <2>1 DEF Base, UIs
  <2> HIDE DEF e
  <2>3. Flow(ui, e) /\ ui.next <= e.next
    BY <2>1, <2>2 DEF Flow
  <2>4. Fresh(e, told', task', out', e.fsDirs, leftover)
    BY <1>1, <2>1, <2>2, <2>3, FreshFlow
  <2>5. QED
    BY <2>1, <2>2, <2>4 DEF Sound, Marked, Answerable, Queued, Whole, Follows
<1> HIDE DEF e
<1>3. Keeps(e, u) /\ Base(u)
  BY <1>2, EnsureFacts DEF Sound
<1>a. u.daemon = "down" => u.tripped
  BY <1>2, EnsureTree DEF Sound, SameTree
<1> HIDE DEF u
<1>4. Keeps(u, x) /\ Base(x)
  BY <1>3, WatchExpandedFacts DEF Keeps
<1> HIDE DEF x
<1>5. Keeps(x, y) /\ Base(y)
  BY <1>4, ScanFacts, Constants DEF Keeps
<1> HIDE DEF y
<1>6. Keeps(y, Render(y))
  BY <1>5, RenderFacts
<1>7. Keeps(e, Render(y))
  <2>1. Base(e)
    BY <1>2 DEF Sound
  <2>2. Keeps(e, x)
    BY <1>3, <1>4, <2>1, KeepsOn
  <2>3. Keeps(e, y)
    BY <1>5, <2>1, <2>2, KeepsOn
  <2>4. QED
    BY <1>6, <2>1, <2>3, KeepsOn
<1>8. Keeps(e, ui')
  BY <1>1, <1>3, <1>7
<1>b. Seen(ui')
  <2>1. CASE u.daemon = "down" /\ ui' = u
    BY <1>a, <2>1 DEF Seen
  <2>2. CASE ui' = Render(y)
    BY <1>5, <2>2, RenderSeen
  <2>3. QED
    BY <1>1, <2>1, <2>2
<1>9. QED
  BY <1>1, <1>2, <1>8, <1>b, PluginStep DEF Sound

\* Nothing is being scanned any more, and what was being scanned is forgotten.
LEMMA CancelWorkFacts ==
  ASSUME NEW u, Base(u), NEW cut, Whole(u, cut)
  PROVE  LET v == CancelFrontendWork(u) IN
         /\ Base(v) /\ Marked(v) /\ Answerable(v) /\ Queued(v) /\ Whole(v, cut) /\ Follows(u, v)
         /\ Flow(u, v) /\ (\A r \in Requests : ~v.bcbs[r].live) /\ v.open = u.open
<1> DEFINE w == CancelAll(u)
           c == [d \in Dirs |-> IF d \in u.loading THEN NoList ELSE u.cache[d]]
           v == CancelFrontendWork(u)
<1>1. /\ Base(w) /\ w \in UIs /\ (\A d \in Dirs : w.pending[d] = 0) /\ w.cache = u.cache /\ w.loading = u.loading
      /\ w.next = u.next /\ w.next \in Nat \ {0} /\ w.open = u.open /\ Flow(u, w)
  BY CancelAllFacts DEF Base, UIs
<1>2. v = [ClearBackendCallbacks(w) EXCEPT !.cache = c, !.loading = {}, !.fsDirs = {}, !.render = FALSE]
  BY DEF CancelFrontendWork
<1>3. c \in [Dirs -> Lists] /\ u.loading \subseteq Dirs
  BY Constants DEF Base, UIs
<1>4. [r \in Requests |-> NoCallback] \in [Requests -> Callbacks] /\ {} \in SUBSET Dirs
  BY Constants
<1> HIDE DEF w, c, v
<1>5. v \in UIs
  BY <1>1, <1>2, <1>3, <1>4 DEF UIs, ClearBackendCallbacks
<1>6. /\ v.bcbs = [r \in Requests |-> NoCallback] /\ v.cache = c /\ v.loading = {} /\ v.fsDirs = {}
      /\ v.pending = w.pending /\ v.next = w.next /\ v.expanded = w.expanded /\ v.open = w.open
      /\ v.watched = w.watched /\ v.watchFailed = w.watchFailed /\ v.stdin = w.stdin
  BY <1>1, <1>2 DEF UIs, ClearBackendCallbacks
<1>7. Base(v)
  <2>1. \A r \in Requests : ~v.bcbs[r].live
    BY <1>6, Constants
  <2>2. QED
    BY <1>1, <1>5, <1>6, <2>1 DEF Base
<1>8. Marked(v) /\ Answerable(v) /\ Queued(v)
  BY <1>1, <1>6, Constants DEF Marked, Answerable, Queued
<1>9. Whole(v, cut)
  BY <1>6 DEF Whole, c
<1>10. Follows(u, v)
  BY <1>1, <1>6 DEF Follows, c
<1>11. \A r \in Requests : ~v.bcbs[r].live
  BY <1>6, Constants
<1>12. Flow(u, v)
  <2>1. \A x \in Dirs : v.cache[x] # NoList => v.cache[x] = u.cache[x] /\ x \notin u.loading
    BY <1>6 DEF c
  <2>2. v.stdin = w.stdin /\ v.next = w.next
    BY <1>6
  <2>3. \A line \in Asked(v.stdin) : line \in Asked(u.stdin) \/ (u.next <= line.id /\ line.id < v.next /\ Fits(v, line))
    BY <1>1, <1>11, <2>2 DEF Flow, Fits
  <2>4. QED
    BY ONLY <1>11, <2>1, <2>3 DEF Flow
<1>13. QED
  BY <1>1, <1>6, <1>7, <1>8, <1>9, <1>10, <1>11, <1>12 DEF v

LEMMA CloseStep == IInv /\ Close => IInv' /\ Current(ui, ui')
<1> SUFFICES ASSUME IInv, Close PROVE IInv' /\ Current(ui, ui')
  OBVIOUS
<1> DEFINE x == UnwatchDir(ui, Root)
           y == UnwatchDir(x, Sub)
           z == [y EXCEPT !.open = FALSE, !.watchFailed = {}]
<1>1. /\ DaemonOK' /\ ui' = CancelFrontendWork(z) /\ ui'.next <= MaxRequests + 1
      /\ leftover' = leftover \ {d \in Dirs : ui'.cache[d] = NoList}
      /\ told' = [d \in Dirs |-> 0] /\ UNCHANGED <<disk, announced, task, out>>
  BY CommandTypes DEF Close, Do, CommandUnchanged, DiskUnchanged, daemonVars
<1>2. Base(ui) /\ Keeps(ui, x) /\ Base(x)
  BY UnwatchDirFacts, Constants DEF IInv, Sound
<1> HIDE DEF x
<1>3. Keeps(x, y) /\ Base(y)
  BY <1>2, UnwatchDirFacts, Constants
<1>4. Keeps(ui, y)
  BY <1>2, <1>3, KeepsOn
<1> HIDE DEF y
<1>5. Base(z) /\ z.open = FALSE /\ z.cache = y.cache /\ z.loading = y.loading /\ z.next = y.next /\ z.bcbs = y.bcbs /\ z.stdin = y.stdin
  <2>1. y \in UIs /\ {} \in SUBSET Dirs
    BY <1>3 DEF Base
  <2>2. z \in UIs
    BY <2>1 DEF UIs
  <2>3. /\ z.cache = y.cache /\ z.loading = y.loading /\ z.next = y.next /\ z.pending = y.pending /\ z.bcbs = y.bcbs
        /\ z.open = FALSE /\ z.expanded = y.expanded /\ z.watchFailed = {} /\ z.stdin = y.stdin
    BY <2>1 DEF UIs
  <2> HIDE DEF z
  <2>4. QED
    BY <1>3, <2>2, <2>3 DEF Base
<1> HIDE DEF z
<1>6. Whole(z, leftover) /\ Follows(ui, z)
  BY <1>4, <1>5 DEF IInv, Keeps, Whole, Follows
<1>7. /\ Base(ui') /\ Marked(ui') /\ Answerable(ui') /\ Queued(ui') /\ Whole(ui', leftover) /\ Follows(z, ui')
      /\ Flow(z, ui') /\ (\A r \in Requests : ~ui'.bcbs[r].live) /\ ui'.open = z.open
  BY <1>1, <1>5, <1>6, CancelWorkFacts
<1>8. Follows(ui, ui')
  BY <1>2, <1>5, <1>6, <1>7, FollowsOn DEF Base, UIs
<1>9. Whole(ui', leftover')
  BY <1>1, <1>7 DEF Whole
<1>10. Keeps(ui', ui')
  BY <1>7, KeepsSelf
<1>11. Announced'
  BY <1>1 DEF IInv, DaemonOK, Announced
<1>12. Fresh(ui', told', task', out', ui'.fsDirs, leftover')
  <2>1. Fresh(ui, told, task, out, ui.fsDirs, leftover)
    BY DEF IInv
  <2>2. Fresh(y, told, task, out, ui.fsDirs, leftover)
    BY <1>2, <1>4, <2>1, FreshKeeps
  <2>3. Flow(y, z) /\ y.next <= z.next /\ z.next <= ui'.next
    BY <1>3, <1>5, <1>7 DEF Flow, Follows, Base, UIs
  <2>4. Fresh(z, told, task, out, ui.fsDirs, leftover)
    BY <1>3, <1>5, <2>2, <2>3, FreshFlow
  <2>5. Fresh(ui', told, task, out, ui.fsDirs, leftover)
    BY <1>5, <1>7, <2>3, <2>4, FreshFlow
  <2>6. Known(ui', task', out')
    BY <1>1, <2>5 DEF Fresh
  <2>7. FreshAnswers(ui', told', task', out', ui'.fsDirs)
    BY <1>7 DEF FreshAnswers
  <2>8. FreshLists(ui', told', ui'.fsDirs, leftover')
    <3>1. \A d \in Dirs : told'[d] = 0 /\ ui'.cache[d].ver \in Nat
      BY <1>1, <1>7 DEF Base, UIs, Lists
    <3>2. QED
      BY <3>1 DEF FreshLists
  <2>9. QED
    BY <2>6, <2>7, <2>8 DEF Fresh
<1>a. Seen(ui')
  BY <1>5, <1>7 DEF Seen
<1>13. QED
  BY <1>a, <1>1, <1>7, <1>8, <1>9, <1>10, <1>11, <1>12, PluginStep

LEMMA ToggleDirStep == IInv /\ ToggleDir => IInv' /\ Current(ui, ui')
<1> SUFFICES ASSUME IInv, ToggleDir PROVE IInv' /\ Current(ui, ui')
  OBVIOUS
<1>1. /\ DaemonOK' /\ leftover' = leftover /\ ui'.next <= MaxRequests + 1
      /\ Announced' /\ Fresh(ui, told', task', out', ui.fsDirs, leftover)
  BY CommandTypes DEF ToggleDir, Do
<1>2. \A e \in SUBSET Dirs : Root \in e => Base([ui EXCEPT !.expanded = e]) /\ SameScans(ui, [ui EXCEPT !.expanded = e])
  <2> SUFFICES ASSUME NEW e \in SUBSET Dirs, Root \in e
               PROVE  Base([ui EXCEPT !.expanded = e]) /\ SameScans(ui, [ui EXCEPT !.expanded = e])
    OBVIOUS
  <2>1. Base(ui)
    BY DEF IInv, Sound
  <2>2. QED
    BY <2>1 DEF Base, UIs, SameScans, Alike
<1>3. PICK u0, u1 : Base(u0) /\ SameScans(ui, u0) /\ Keeps(u0, u1) /\ ui' = Render(u1)
  <2>1. ui.expanded \in SUBSET Dirs /\ Root \in ui.expanded
    BY DEF IInv, Sound, Base, UIs
  <2>2. CASE Sub \in ui.expanded
    <3> DEFINE u0 == [ui EXCEPT !.expanded = ui.expanded \ {Sub}]
    <3>1. Base(u0) /\ SameScans(ui, u0)
      BY <1>2, <2>1, Constants
    <3>2. ui' = Render(UnwatchDir(u0, Sub))
      BY <2>2 DEF ToggleDir, Do
    <3> HIDE DEF u0
    <3>3. Keeps(u0, UnwatchDir(u0, Sub))
      BY <3>1, UnwatchDirFacts, Constants
    <3>4. QED
      BY <3>1, <3>2, <3>3
  <2>3. CASE Sub \notin ui.expanded
    <3> DEFINE u0 == [ui EXCEPT !.expanded = ui.expanded \cup {Sub}]
               u1 == IF u0.cache[Sub] = NoList /\ Sub \notin u0.loading THEN ScanDirAsync(u0, Sub, FALSE) ELSE WatchDir(u0, Sub)
    <3>1. Base(u0) /\ SameScans(ui, u0)
      BY <1>2, <2>1, Constants
    <3>2. ui' = Render(u1)
      BY <2>3 DEF ToggleDir, Do
    <3> HIDE DEF u0
    <3>3. Keeps(u0, WatchDir(u0, Sub)) /\ Keeps(u0, ScanDirAsync(u0, Sub, FALSE))
      BY <3>1, WatchDirFacts, ScanFacts, Constants
    <3>4. Keeps(u0, u1)
      BY <3>3
    <3> HIDE DEF u1
    <3>5. QED
      BY <3>1, <3>2, <3>4
  <2>4. QED
    BY <2>2, <2>3
<1>4. Keeps(ui, u0) /\ Keeps(u1, ui') /\ Base(u1)
  BY <1>3, SameKeeps, RenderFacts DEF Keeps
<1>5. Keeps(u0, ui')
  BY <1>3, <1>4, KeepsOn
<1>a. Seen(ui')
  BY <1>3, <1>4, RenderSeen
<1>6. QED
  BY <1>a, <1>1, <1>4, <1>5, PlainStep

LEMMA CollapseStep == IInv /\ OnCollapseAll => IInv' /\ Current(ui, ui')
<1> SUFFICES ASSUME IInv, OnCollapseAll PROVE IInv' /\ Current(ui, ui')
  OBVIOUS
<1> DEFINE w == CancelPending(ui, Sub)
           u0 == [w EXCEPT !.expanded = {Root}, !.loading = w.loading \ {Sub}]
<1>1. /\ DaemonOK' /\ ui' = Render(UnwatchDir(u0, Sub)) /\ ui'.next <= MaxRequests + 1
      /\ leftover' = IF Sub \in ui.loading THEN leftover \cup {Sub} ELSE leftover
      /\ Announced' /\ Fresh(ui, told', task', out', ui.fsDirs, leftover)
  BY CommandTypes DEF OnCollapseAll, Do
<1>2. /\ Base(w) /\ w.pending = [ui.pending EXCEPT ![Sub] = 0] /\ w.cache = ui.cache /\ w.loading = ui.loading
      /\ w.next = ui.next /\ w.open = ui.open /\ w.fsDirs = ui.fsDirs /\ Answerable(w) /\ Flow(ui, w)
  BY CancelPendingFacts, Constants DEF IInv, Sound
<1>3. Marked(ui) /\ Queued(ui) /\ ui.pending \in [Dirs -> Nat] /\ ui.loading \in SUBSET Dirs /\ Whole(ui, leftover) /\ ui.next \in Nat
  BY DEF IInv, Sound, Base, UIs
<1> HIDE DEF w
<1>4. w \in UIs /\ {Root} \in SUBSET Dirs /\ w.loading \ {Sub} \in SUBSET Dirs
  BY <1>2, <1>3, Constants DEF Base
<1>5. u0 \in UIs
  BY <1>4 DEF UIs
<1>6. /\ u0.expanded = {Root} /\ u0.loading = w.loading \ {Sub} /\ u0.pending = w.pending /\ u0.cache = w.cache
      /\ u0.bcbs = w.bcbs /\ u0.next = w.next /\ u0.open = w.open /\ u0.fsDirs = w.fsDirs
      /\ u0.watched = w.watched /\ u0.watchFailed = w.watchFailed /\ u0.stdin = w.stdin
  BY <1>4 DEF UIs
<1> HIDE DEF u0
<1>7. Base(u0)
  BY <1>2, <1>5, <1>6 DEF Base
<1>8. Marked(u0)
  BY <1>2, <1>3, <1>6, Constants DEF Marked
<1>9. Answerable(u0) /\ Queued(u0)
  BY <1>2, <1>3, <1>6 DEF Answerable, Queued
<1>10. Whole(u0, leftover')
  BY <1>1, <1>2, <1>3, <1>6 DEF Whole
<1>11. Follows(ui, u0)
  BY <1>2, <1>3, <1>6 DEF Follows
<1>12. Keeps(u0, UnwatchDir(u0, Sub)) /\ Base(UnwatchDir(u0, Sub))
  BY <1>7, UnwatchDirFacts, Constants
<1>13. Keeps(u0, ui')
  BY <1>1, <1>7, <1>12, RenderFacts, KeepsOn
<1>14. Fresh(u0, told', task', out', u0.fsDirs, leftover')
  <2>1. Fresh(w, told', task', out', ui.fsDirs, leftover)
    <3>1. Base(ui) /\ ui.next <= w.next
      BY <1>2, <1>3 DEF IInv, Sound
    <3>2. QED
      BY <1>1, <1>2, <3>1, FreshFlow
  <2>2. Known(u0, task', out') /\ FreshAnswers(u0, told', task', out', u0.fsDirs)
    BY <1>2, <1>6, <2>1 DEF Fresh, Known, FreshAnswers, Fits
  <2>3. FreshLists(u0, told', u0.fsDirs, leftover')
    BY <1>1, <1>2, <1>6, <2>1 DEF Fresh, FreshLists
  <2>4. QED
    BY <2>2, <2>3 DEF Fresh
<1>a. Seen(ui')
  BY <1>1, <1>12, RenderSeen
<1>15. QED
  BY <1>a, <1>1, <1>7, <1>8, <1>9, <1>10, <1>11, <1>13, <1>14, PluginStep

LEMMA RefreshStep == IInv /\ Refresh => IInv' /\ Current(ui, ui')
<1> SUFFICES ASSUME IInv, Refresh PROVE IInv' /\ Current(ui, ui')
  OBVIOUS
<1> DEFINE w == CancelAll(ui)
           c == [d \in Dirs |-> NoList]
           u0 == [w EXCEPT !.loading = {}, !.cache = c, !.errors = {}]
           u1 == ScanDirAsync(u0, Root, FALSE)
<1>1. /\ DaemonOK' /\ ui' = Render(u1) /\ ui'.next <= MaxRequests + 1
      /\ Announced' /\ Fresh(ui, told', task', out', ui.fsDirs, leftover)
  BY CommandTypes DEF Refresh, Do
<1>2. /\ Base(w) /\ w \in UIs /\ (\A d \in Dirs : w.pending[d] = 0)
      /\ w.next = ui.next /\ w.open = ui.open /\ w.fsDirs = ui.fsDirs /\ Flow(ui, w)
  BY CancelAllFacts DEF IInv, Sound, Base
<1>3. ui.next \in Nat /\ Queued(ui)
  BY DEF IInv, Sound, Base, UIs
<1>4. c \in [Dirs -> Lists] /\ {} \in SUBSET Dirs /\ \A d \in Dirs : c[d] = NoList
  BY Constants
<1> HIDE DEF w, c
<1>5. u0 \in UIs
  BY <1>2, <1>4 DEF UIs
<1>6. /\ u0.expanded = w.expanded /\ u0.loading = {} /\ u0.pending = w.pending /\ u0.cache = c
      /\ u0.bcbs = w.bcbs /\ u0.next = w.next /\ u0.open = w.open /\ u0.fsDirs = w.fsDirs
      /\ u0.watched = w.watched /\ u0.watchFailed = w.watchFailed /\ u0.stdin = w.stdin
  BY <1>2 DEF UIs
<1> HIDE DEF u0
<1>7. Base(u0)
  BY <1>2, <1>5, <1>6 DEF Base
<1>8. Marked(u0) /\ Answerable(u0) /\ Queued(u0)
  BY <1>2, <1>3, <1>6, Constants DEF Marked, Answerable, Queued
<1>9. Whole(u0, leftover') /\ Follows(ui, u0)
  BY <1>2, <1>3, <1>4, <1>6 DEF Whole, Follows
<1>10. Keeps(u0, u1) /\ Base(u1)
  BY <1>7, ScanFacts, Constants DEF Keeps
<1> HIDE DEF u1
<1>11. Keeps(u0, ui')
  BY <1>1, <1>7, <1>10, RenderFacts, KeepsOn
<1>12. Fresh(u0, told', task', out', u0.fsDirs, leftover')
  <2>1. Fresh(w, told', task', out', ui.fsDirs, leftover)
    <3>1. Base(ui) /\ ui.next <= w.next
      BY <1>2, <1>3 DEF IInv, Sound
    <3>2. QED
      BY <1>1, <1>2, <3>1, FreshFlow
  <2>2. Known(u0, task', out') /\ FreshAnswers(u0, told', task', out', u0.fsDirs)
    BY <1>2, <1>6, <2>1 DEF Fresh, Known, FreshAnswers, Fits
  <2>3. FreshLists(u0, told', u0.fsDirs, leftover')
    BY <1>4, <1>6 DEF FreshLists
  <2>4. QED
    BY <2>2, <2>3 DEF Fresh
<1>a. Seen(ui')
  BY <1>1, <1>10, RenderSeen
<1>13. QED
  BY <1>a, <1>1, <1>7, <1>8, <1>9, <1>11, <1>12, PluginStep

LEMMA FileOpStep == IInv /\ FileOpDone => IInv' /\ Current(ui, ui')
<1> SUFFICES ASSUME IInv, FileOpDone PROVE IInv' /\ Current(ui, ui')
  OBVIOUS
<1>1. PICK d \in Dirs : /\ ui' = Render(InvalidateAndRescan(ui, d)) /\ ui'.next <= MaxRequests + 1
                        /\ leftover' = leftover \ {d}
  BY DEF FileOpDone, Do
<1> DEFINE u0 == InvalidateAndRescan(ui, d)
<1>2. DaemonOK' /\ Announced' /\ Fresh(ui, told', task', out', ui.fsDirs, leftover)
  BY CommandTypes DEF FileOpDone
<1>3. Sound(ui) /\ Base(ui) /\ Whole(ui, leftover)
  BY DEF IInv, Sound
<1>4. Keeps(ui, u0) /\ Whole(u0, leftover') /\ u0.cache[d] = NoList
  BY <1>1, <1>3, RescanFacts
<1> HIDE DEF u0
<1>5. Base(u0) /\ Marked(u0) /\ Answerable(u0) /\ Queued(u0) /\ Follows(ui, u0)
  BY <1>3, <1>4 DEF Sound, Keeps, Queued
<1>6. Keeps(u0, ui')
  BY <1>1, <1>5, RenderFacts DEF u0
<1>7. Fresh(u0, told', task', out', u0.fsDirs, leftover')
  <2>1. Fresh(u0, told', task', out', u0.fsDirs, leftover)
    BY <1>2, <1>3, <1>4, FreshKeeps DEF Keeps
  <2>2. FreshLists(u0, told', u0.fsDirs, leftover')
    BY <1>1, <1>4, <2>1 DEF Fresh, FreshLists
  <2>3. QED
    BY <2>1, <2>2 DEF Fresh
<1>a. Seen(ui')
  BY <1>1, <1>5, RenderSeen DEF u0
<1>8. QED
  BY <1>a, <1>1, <1>2, <1>4, <1>5, <1>6, <1>7, PluginStep

----------------------------------------------------------------------------
(* Timers and the daemon's coming and going.                               *)

LEMMA RenderTimerStep == IInv /\ RenderTimer => IInv' /\ Current(ui, ui')
<1> SUFFICES ASSUME IInv, RenderTimer PROVE IInv' /\ Current(ui, ui')
  OBVIOUS
<1>1. /\ DaemonOK' /\ leftover' = leftover /\ ui'.next <= MaxRequests + 1 /\ ui' = Render(ui)
      /\ Announced' /\ Fresh(ui, told', task', out', ui.fsDirs, leftover)
  BY CommandTypes DEF RenderTimer, Do
<1>2. Keeps(ui, ui) /\ Keeps(ui, ui')
  BY <1>1, KeepsSelf, RenderFacts DEF IInv, Sound
<1>a. Seen(ui')
  BY <1>1, RenderSeen DEF IInv, Sound
<1>3. QED
  BY <1>a, <1>1, <1>2, PlainStep

LEMMA PongStep == IInv /\ Pong => IInv' /\ Current(ui, ui')
<1> SUFFICES ASSUME IInv, Pong PROVE IInv' /\ Current(ui, ui')
  OBVIOUS
<1> DEFINE u0 == [ui EXCEPT !.daemon = "ready"]
<1>1. /\ DaemonOK' /\ leftover' = leftover /\ ui'.next <= MaxRequests + 1 /\ ui' = WatchExpandedDirs(u0)
      /\ Announced' /\ Fresh(ui, told', task', out', ui.fsDirs, leftover)
  BY CommandTypes DEF Pong, Do
<1>2. Base(u0) /\ SameScans(ui, u0)
  BY DaemonChanges DEF IInv, Sound
<1>a. SameTree(ui, u0)
  BY DEF IInv, Sound, Base, UIs, SameTree
<1> HIDE DEF u0
<1>3. Keeps(ui, u0) /\ Keeps(u0, ui')
  BY <1>1, <1>2, SameKeeps, WatchExpandedFacts
<1>b. Seen(ui')
  BY <1>1, <1>2, <1>a, WatchExpandedTree, SameSeen DEF IInv
<1>4. QED
  BY <1>b, <1>1, <1>3, PlainStep

LEMMA RestartStep == IInv /\ RestartTimer => IInv' /\ Current(ui, ui')
<1> SUFFICES ASSUME IInv, RestartTimer PROVE IInv' /\ Current(ui, ui')
  OBVIOUS
<1>1. /\ DaemonOK' /\ leftover' = leftover /\ ui'.next <= MaxRequests + 1 /\ ui' = Ensure(ui)
      /\ Announced' /\ Fresh(ui, told', task', out', ui.fsDirs, leftover)
  BY CommandTypes DEF RestartTimer, Do
<1>2. Keeps(ui, ui) /\ Keeps(ui, ui')
  BY <1>1, KeepsSelf, EnsureFacts DEF IInv, Sound
<1>a. Seen(ui')
  BY <1>1, EnsureTree, SameSeen DEF IInv, Sound
<1>3. QED
  BY <1>a, <1>1, <1>2, PlainStep

LEMMA FsTimerStep == IInv /\ FsTimer => IInv' /\ Current(ui, ui')
<1> SUFFICES ASSUME IInv, FsTimer PROVE IInv' /\ Current(ui, ui')
  OBVIOUS
<1> DEFINE u0 == [ui EXCEPT !.fsDirs = {}, !.render = TRUE]
           u1 == IF Root \in ui.fsDirs THEN RefreshDir(u0, Root) ELSE u0
           u2 == IF Sub \in ui.fsDirs THEN RefreshDir(u1, Sub) ELSE u1
<1>1. /\ DaemonOK' /\ leftover' = leftover \ ui.fsDirs /\ ui'.next <= MaxRequests + 1 /\ ui' = u2
      /\ ui.fsDirs # {} /\ Announced' /\ Fresh(ui, told', task', out', ui.fsDirs, leftover)
  BY CommandTypes DEF FsTimer, Do
<1>2. Base(ui) /\ Marked(ui) /\ Answerable(ui) /\ Whole(ui, leftover) /\ ui.open /\ ui \in UIs /\ ui.fsDirs \subseteq Dirs
  BY <1>1 DEF IInv, Sound, Queued, Base, UIs
<1>3. /\ u0 \in UIs /\ u0.expanded = ui.expanded /\ u0.loading = ui.loading /\ u0.pending = ui.pending /\ u0.cache = ui.cache
      /\ u0.bcbs = ui.bcbs /\ u0.next = ui.next /\ u0.open = ui.open /\ u0.fsDirs = {} /\ u0.render = TRUE
      /\ u0.watched = ui.watched /\ u0.watchFailed = ui.watchFailed /\ u0.stdin = ui.stdin
  BY <1>2 DEF UIs
<1> HIDE DEF u0
<1>4. Base(u0)
  BY <1>2, <1>3 DEF Base
<1>5. Marked(u0) /\ Answerable(u0) /\ Queued(u0) /\ Whole(u0, leftover) /\ u0.open
  BY <1>2, <1>3 DEF Marked, Answerable, Queued, Whole
<1>6. Follows(ui, u0)
  BY <1>2, <1>3 DEF Follows, UIs
<1>7. /\ Keeps(u0, u1) /\ Base(u1) /\ u1.open /\ Whole(u1, leftover \ (ui.fsDirs \cap {Root}))
      /\ Root \in ui.fsDirs => Renewed(u0, u1, Root) /\ (u1.cache[Root] = NoList \/ Root \in u1.loading)
  <2>1. CASE Root \in ui.fsDirs
    <3>1. /\ Keeps(u0, u1) /\ Whole(u1, leftover \ {Root})
          /\ Renewed(u0, u1, Root) /\ (u1.cache[Root] = NoList \/ Root \in u1.loading)
      BY <1>4, <1>5, <2>1, RefreshDirFacts, Constants
    <3>2. leftover \ {Root} = leftover \ (ui.fsDirs \cap {Root})
      BY <2>1
    <3> HIDE DEF u1
    <3>3. QED
      BY <1>5, <3>1, <3>2 DEF Keeps
  <2>2. CASE Root \notin ui.fsDirs
    <3>1. leftover \ (ui.fsDirs \cap {Root}) = leftover /\ u1 = u0
      BY <2>2
    <3> HIDE DEF u1
    <3>2. QED
      BY <1>4, <1>5, <2>2, <3>1, KeepsSelf
  <2>3. QED
    BY <2>1, <2>2
<1>a. u1.render
  BY <1>3, <1>4, RefreshDirRender, Constants
<1> HIDE DEF u1
<1>b. u2.render
  BY <1>7, <1>a, RefreshDirRender, Constants
<1>8. /\ Keeps(u1, u2) /\ Whole(u2, leftover')
      /\ Sub \in ui.fsDirs => Renewed(u1, u2, Sub) /\ (u2.cache[Sub] = NoList \/ Sub \in u2.loading)
  <2> DEFINE cut == leftover \ (ui.fsDirs \cap {Root})
  <2>1. CASE Sub \in ui.fsDirs
    <3>1. /\ Keeps(u1, u2) /\ Whole(u2, cut \ {Sub})
          /\ Renewed(u1, u2, Sub) /\ (u2.cache[Sub] = NoList \/ Sub \in u2.loading)
      BY <1>7, <2>1, RefreshDirFacts, Constants
    <3>2. cut \ {Sub} = leftover'
      BY <1>1, <1>2, <2>1, Constants
    <3> HIDE DEF u2, cut
    <3>3. QED
      BY <3>1, <3>2
  <2>2. CASE Sub \notin ui.fsDirs
    <3>1. u2 = u1 /\ cut = leftover'
      BY <1>1, <1>2, <2>2, Constants
    <3> HIDE DEF u2
    <3>2. QED
      BY <1>7, <2>2, <3>1, KeepsSelf
  <2>3. QED
    BY <2>1, <2>2
<1> HIDE DEF u2
<1>9. Keeps(u0, u2)
  BY <1>4, <1>7, <1>8, KeepsOn
<1>10. Base(u2) /\ Marked(u2) /\ Answerable(u2) /\ Queued(u2)
  BY <1>3, <1>5, <1>9 DEF Keeps, Queued
<1>11. Follows(ui, u2)
  <2>1. ui.next \in Nat /\ u0.next \in Nat /\ u2.next \in Nat
    BY <1>2, <1>4, <1>10 DEF Base, UIs
  <2>2. QED
    BY <1>6, <1>9, <2>1, FollowsOn DEF Keeps
<1>12. Keeps(u2, ui')
  BY <1>1, <1>10, KeepsSelf
<1>13. \A d \in Dirs \cap ui.fsDirs : Renewed(u0, u2, d) /\ (u2.cache[d] = NoList \/ d \in u2.loading)
  <2>1. u0.next <= u1.next /\ u0.next \in Nat /\ u1.next \in Nat /\ (\A r \in Requests : r \in Nat)
    BY <1>4, <1>7, Constants DEF Keeps, Follows, Base, UIs
  <2>2. ASSUME Root \in ui.fsDirs PROVE Renewed(u0, u2, Root) /\ (u2.cache[Root] = NoList \/ Root \in u2.loading)
    <3>1. u2.cache[Root] = NoList \/ Root \in u2.loading
      BY <1>7, <1>8, <2>2, Constants DEF Keeps, Follows, Flow
    <3>2. ASSUME NEW r \in Requests, u2.bcbs[r].live, u2.bcbs[r].dir = Root PROVE u0.next <= r
      <4>1. CASE r < u1.next
        <5>1. u1.bcbs[r].live /\ u1.bcbs[r].dir = Root
          BY <1>8, <3>2, <4>1 DEF Keeps, Flow
        <5>2. QED
          BY <1>7, <2>2, <5>1 DEF Renewed
      <4>2. CASE ~(r < u1.next)
        BY <2>1, <4>2
      <4>3. QED
        BY <4>1, <4>2
    <3>3. QED
      BY <3>1, <3>2 DEF Renewed
  <2>3. ASSUME Sub \in ui.fsDirs PROVE Renewed(u0, u2, Sub) /\ (u2.cache[Sub] = NoList \/ Sub \in u2.loading)
    <3>1. Renewed(u1, u2, Sub) /\ (u2.cache[Sub] = NoList \/ Sub \in u2.loading)
      BY <1>8, <2>3
    <3>2. Renewed(u0, u2, Sub)
      BY <2>1, <3>1 DEF Renewed
    <3>3. QED
      BY <3>1, <3>2
  <2>4. QED
    BY <2>2, <2>3, Constants
<1>14. Fresh(u2, told', task', out', u2.fsDirs, leftover')
  <2>1. Flow(ui, u0) /\ ui.next <= u0.next
    BY <1>2, <1>3 DEF Flow, UIs
  <2>2. Fresh(u0, told', task', out', ui.fsDirs, leftover)
    BY <1>1, <1>2, <1>4, <2>1, FreshFlow
  <2>3. Fresh(u2, told', task', out', {}, leftover \ ui.fsDirs)
    BY <1>4, <1>9, <1>13, <2>2, FreshRenewed
  <2>4. u2.fsDirs = {}
    BY <1>3, <1>9 DEF Keeps
  <2>5. QED
    BY <1>1, <2>3, <2>4
<1>c. Seen(ui')
  BY <1>1, <1>b DEF Seen
<1>15. QED
  BY <1>c, <1>1, <1>8, <1>10, <1>11, <1>12, <1>14, PluginStep

\* What was being scanned when the daemon died has failed.
LEMMA BackendCrashedFacts ==
  ASSUME NEW u, Base(u), NEW cut, Whole(u, cut), Queued(u)
  PROVE  \E v : /\ Base(v) /\ Marked(v) /\ Answerable(v) /\ Queued(v) /\ Whole(v, cut) /\ Follows(u, v)
                /\ Flow(u, v) /\ v.fsDirs = u.fsDirs /\ Keeps(v, BackendCrashed(u)) /\ Seen(BackendCrashed(u))
<1> DEFINE w == CancelAll(u)
           c == [d \in Dirs |-> IF d \in u.loading THEN NoList ELSE u.cache[d]]
           v == [w EXCEPT !.loading = {}, !.errors = w.errors \cup u.loading, !.cache = c]
<1>1. /\ Base(w) /\ w \in UIs /\ (\A d \in Dirs : w.pending[d] = 0) /\ w.cache = u.cache /\ w.loading = u.loading
      /\ w.next = u.next /\ w.next \in Nat \ {0} /\ w.open = u.open /\ w.fsDirs = u.fsDirs /\ w.errors \subseteq Dirs /\ Flow(u, w)
  BY CancelAllFacts DEF Base, UIs
<1>2. BackendCrashed(u) = IF u.open THEN Render(v) ELSE v
  BY DEF BackendCrashed
<1>3. c \in [Dirs -> Lists] /\ u.loading \subseteq Dirs
  BY Constants DEF Base, UIs
<1> HIDE DEF w, c
<1>4. w.errors \cup u.loading \in SUBSET Dirs /\ {} \in SUBSET Dirs
  BY <1>1, <1>3
<1>5. v \in UIs
  BY <1>1, <1>3, <1>4 DEF UIs
<1>6. /\ v.bcbs = w.bcbs /\ v.cache = c /\ v.loading = {} /\ v.fsDirs = w.fsDirs /\ v.open = w.open
      /\ v.pending = w.pending /\ v.next = w.next /\ v.expanded = w.expanded
      /\ v.watched = w.watched /\ v.watchFailed = w.watchFailed /\ v.stdin = w.stdin
  BY <1>1 DEF UIs
<1> HIDE DEF v
<1>7. Base(v)
  BY <1>1, <1>5, <1>6 DEF Base
<1>8. Marked(v) /\ Answerable(v) /\ Queued(v)
  BY <1>1, <1>6, Constants DEF Marked, Answerable, Queued
<1>9. Whole(v, cut)
  BY <1>6 DEF Whole, c
<1>10. Follows(u, v)
  BY <1>1, <1>6 DEF Follows, c
<1>11. Keeps(v, BackendCrashed(u))
  BY <1>2, <1>7, KeepsSelf, RenderFacts
<1>12. Flow(u, v)
  <2>1. \A x \in Dirs : v.cache[x] # NoList => v.cache[x] = u.cache[x] /\ x \notin u.loading
    BY <1>6 DEF c
  <2>2. v.bcbs = w.bcbs /\ v.stdin = w.stdin /\ v.next = w.next
    BY <1>6
  <2>3. Flow(u, w)
    BY <1>1
  <2>4. QED
    BY ONLY <2>1, <2>2, <2>3 DEF Flow, Fits
<1>13. v.fsDirs = u.fsDirs
  BY <1>1, <1>6
<1>a. Seen(BackendCrashed(u))
  <2>1. CASE u.open
    BY <1>2, <1>7, <2>1, RenderSeen
  <2>2. CASE ~u.open
    BY <1>1, <1>2, <1>6, <2>2 DEF Seen
  <2>3. QED
    BY <2>1, <2>2
<1>14. QED
  BY <1>a, <1>7, <1>8, <1>9, <1>10, <1>11, <1>12, <1>13

LEMMA ExitStep == IInv /\ Exit => IInv' /\ Current(ui, ui')
<1> SUFFICES ASSUME IInv, Exit PROVE IInv' /\ Current(ui, ui')
  OBVIOUS
<1>1. PICK t \in BOOLEAN, ops \in {{}, {Root}, {Sub}} :
        LET u == ResetBackendSessionState(ClearBackendCallbacks(
                   [ui EXCEPT !.daemon = "down", !.tripped = t, !.stdin = <<>>])) IN
        /\ ui' = BackendCrashed(IF ops = {} THEN u ELSE InvalidateAndRescan(u, CHOOSE d \in ops : TRUE))
        /\ ui'.next <= MaxRequests + 1
        /\ leftover' = leftover \ {d \in Dirs : ui'.cache[d] = NoList}
  BY DEF Exit, Do
<1> DEFINE f == [ui EXCEPT !.daemon = "down", !.tripped = t, !.stdin = <<>>]
           g == ClearBackendCallbacks(f)
           u == ResetBackendSessionState(g)
           d == CHOOSE d \in ops : TRUE
           x == IF ops = {} THEN u ELSE InvalidateAndRescan(u, d)
<1>2. ui' = BackendCrashed(x)
  BY <1>1
<1>3. DaemonOK'
  <2>1. out' = <<>> /\ watches' = {} /\ news' = {} /\ task' = [r \in Requests |-> NoTask] /\ UNCHANGED <<announced, disk>>
    BY DEF Exit, DiskUnchanged
  <2>2. NoTask \in Tasks /\ \A S : <<>> \in Seq(S)
    BY Constants DEF NoTask, Tasks
  <2>3. QED
    BY <2>1, <2>2 DEF IInv, DaemonOK
<1>4. Base(ui) /\ Marked(ui) /\ Queued(ui) /\ Whole(ui, leftover) /\ ui \in UIs
  BY DEF IInv, Sound, Base
<1>5. f \in UIs
  <2>1. \A S : <<>> \in Seq(S)
    OBVIOUS
  <2>2. QED
    BY <1>4, <2>1 DEF UIs
<1>6. /\ f.cache = ui.cache /\ f.loading = ui.loading /\ f.pending = ui.pending /\ f.next = ui.next /\ f.open = ui.open
      /\ f.fsDirs = ui.fsDirs /\ f.expanded = ui.expanded /\ f.watched = ui.watched /\ f.watchFailed = ui.watchFailed
      /\ f.stdin = <<>>
  BY <1>4 DEF UIs
<1> HIDE DEF f
<1>7. /\ g \in UIs /\ g.bcbs = [r \in Requests |-> NoCallback]
      /\ g.cache = f.cache /\ g.loading = f.loading /\ g.pending = f.pending /\ g.next = f.next /\ g.open = f.open
      /\ g.fsDirs = f.fsDirs /\ g.expanded = f.expanded /\ g.watched = f.watched /\ g.watchFailed = f.watchFailed
      /\ g.stdin = f.stdin
  <2>1. [r \in Requests |-> NoCallback] \in [Requests -> Callbacks] /\ {} \in SUBSET Dirs
    BY Constants
  <2>2. g = [f EXCEPT !.bcbs = [r \in Requests |-> NoCallback], !.watchCallbacks = {}]
    BY DEF ClearBackendCallbacks
  <2> HIDE DEF g
  <2>3. QED
    BY <1>5, <2>1, <2>2 DEF UIs
<1> HIDE DEF g
<1>8. Base(g)
  <2>1. \A r \in Requests : ~g.bcbs[r].live
    BY <1>7, Constants
  <2>2. QED
    BY <1>4, <1>6, <1>7, <2>1 DEF Base
<1>9. Base(u) /\ SameScans(g, u)
  BY <1>8, ResetFacts
<1> HIDE DEF u
<1>10. Whole(u, leftover) /\ Queued(u) /\ Follows(ui, u)
  <2>1. u.cache = ui.cache /\ u.loading = ui.loading /\ u.next = ui.next /\ u.open = ui.open /\ u.fsDirs = ui.fsDirs /\ ui.next \in Nat
    BY <1>4, <1>6, <1>7, <1>9 DEF SameScans, Alike, UIs
  <2>2. QED
    BY <1>4, <2>1 DEF Whole, Queued, Follows
<1>a. /\ u.fsDirs = ui.fsDirs /\ out' = <<>> /\ task' = [r \in Requests |-> NoTask]
      /\ UNCHANGED <<told, announced, disk>>
  BY <1>6, <1>7, <1>9 DEF Exit, DiskUnchanged, SameScans, Alike
<1>b. Of("list_chunk", out') = {} /\ Of("fs_event", out') = {}
  <2>1. out' \in Seq(Events)
    BY <1>3 DEF DaemonOK
  <2>2. QED
    BY <1>a, <2>1, OfLines
<1>c. Announced'
  BY <1>a, <1>b DEF IInv, Announced
<1>d. Fresh(u, told', task', out', u.fsDirs, leftover)
  <2>1. u.cache = ui.cache /\ u.loading = ui.loading /\ u.bcbs = g.bcbs
    BY <1>6, <1>7, <1>9 DEF SameScans, Alike
  <2>2. Asked(u.stdin) = {}
    <3>1. g.stdin = <<>> /\ g.stdin \in Seq(Lines)
      BY <1>6, <1>7 DEF UIs
    <3>2. Asked(g.stdin) = {}
      BY <3>1, OfLines DEF Asked
    <3>3. QED
      BY <1>9, <3>2 DEF SameScans
  <2>3. Known(u, task', out')
    BY <1>a, <1>b, <2>2 DEF Known, NoTask
  <2>4. FreshAnswers(u, told', task', out', u.fsDirs)
    <3>1. \A r \in Requests : ~u.bcbs[r].live
      BY <1>7, <2>1, Constants
    <3>2. QED
      BY <3>1 DEF FreshAnswers
  <2>5. FreshLists(u, told', u.fsDirs, leftover)
    BY <1>a, <2>1 DEF IInv, Fresh, FreshLists
  <2>6. QED
    BY <2>3, <2>4, <2>5 DEF Fresh
<1>11. Keeps(u, x)
  <2>1. CASE ops = {}
    <3>1. x = u
      BY <2>1
    <3>2. QED
      BY <1>9, <3>1, KeepsSelf
  <2>2. CASE ops # {}
    <3>1. d \in Dirs
      BY <2>2, Constants
    <3> HIDE DEF d
    <3>2. x = InvalidateAndRescan(u, d)
      BY <2>2
    <3>3. QED
      BY <1>9, <3>1, <3>2, RescanFacts
  <2>3. QED
    BY <2>1, <2>2
<1> HIDE DEF x
<1>12. Base(x) /\ Whole(x, leftover) /\ Queued(x)
  BY <1>10, <1>11 DEF Keeps, Queued
<1>13. Follows(ui, x)
  <2>1. ui.next \in Nat /\ u.next \in Nat /\ x.next \in Nat
    BY <1>4, <1>9, <1>12 DEF Base, UIs
  <2>2. QED
    BY <1>10, <1>11, <2>1, FollowsOn DEF Keeps
<1>14. PICK v : /\ Base(v) /\ Marked(v) /\ Answerable(v) /\ Queued(v) /\ Whole(v, leftover) /\ Follows(x, v)
                /\ Flow(x, v) /\ v.fsDirs = x.fsDirs /\ Keeps(v, ui') /\ Seen(ui')
  BY <1>2, <1>12, BackendCrashedFacts
<1>15. Follows(ui, v)
  <2>1. ui.next \in Nat /\ x.next \in Nat /\ v.next \in Nat
    BY <1>4, <1>12, <1>14 DEF Base, UIs
  <2>2. QED
    BY <1>13, <1>14, <2>1, FollowsOn
<1>16. Base(ui') /\ Marked(ui') /\ Answerable(ui') /\ Queued(ui') /\ Whole(ui', leftover) /\ Follows(v, ui')
  BY <1>14 DEF Keeps, Queued
<1>17. Follows(ui, ui')
  <2>1. ui.next \in Nat /\ v.next \in Nat /\ ui'.next \in Nat
    BY <1>4, <1>14, <1>16 DEF Base, UIs
  <2>2. QED
    BY <1>15, <1>16, <2>1, FollowsOn
<1>18. Whole(ui', leftover')
  BY <1>1, <1>16 DEF Whole
<1>19. Keeps(ui', ui')
  BY <1>16, KeepsSelf
<1>20. Fresh(ui', told', task', out', ui'.fsDirs, leftover')
  <2>1. ui'.fsDirs = u.fsDirs /\ x.next <= v.next
    BY <1>11, <1>14 DEF Keeps, Follows
  <2>2. Fresh(x, told', task', out', u.fsDirs, leftover)
    BY <1>9, <1>11, <1>d, FreshKeeps
  <2>3. Fresh(v, told', task', out', u.fsDirs, leftover)
    BY <1>12, <1>14, <2>1, <2>2, FreshFlow
  <2>4. Fresh(ui', told', task', out', u.fsDirs, leftover)
    BY <1>14, <2>3, FreshKeeps
  <2>5. leftover' = leftover \ {k \in Dirs : ui'.cache[k] = NoList}
    BY <1>1
  <2>6. QED
    BY <2>1, <2>4, <2>5, FreshDropped
<1>21. QED
  BY <1>14, <1>1, <1>3, <1>16, <1>17, <1>18, <1>19, <1>20, <1>c, PluginStep

----------------------------------------------------------------------------
(* Answers, and their absence.                                             *)

\* The request of a callback has failed.
LEMMA OnErrorFacts ==
  ASSUME NEW u, Base(u), Marked(u), Answerable(u), Queued(u), NEW cut, Whole(u, cut),
         NEW r \in Requests, u.bcbs[r].live
  PROVE  LET v == OnError(u, r) IN
         /\ Base(v) /\ Marked(v) /\ Answerable(v) /\ Queued(v) /\ Whole(v, cut) /\ Follows(u, v)
         /\ Flow(u, v) /\ v.fsDirs = u.fsDirs /\ Seen(v)
<1> DEFINE v == OnError(u, r)
           d == u.bcbs[r].dir
<1>1. /\ u \in UIs /\ u.bcbs \in [Requests -> Callbacks] /\ u.pending \in [Dirs -> Nat] /\ u.next \in Nat \ {0}
      /\ u.cache \in [Dirs -> Lists] /\ u.loading \subseteq Dirs /\ u.errors \subseteq Dirs
  BY DEF Base, UIs
<1>2. d \in Dirs /\ u.pending[d] = r
  BY <1>1 DEF Base, Callbacks
<1>3. v = [u EXCEPT !.bcbs = [u.bcbs EXCEPT ![r] = NoCallback], !.loading = u.loading \ {d},
                    !.cache = [u.cache EXCEPT ![d] = NoList], !.errors = u.errors \cup {d}, !.render = TRUE,
                    !.pending = [u.pending EXCEPT ![d] = 0]]
  BY <1>2 DEF OnError
<1> HIDE DEF v, d
<1>4. /\ [u.bcbs EXCEPT ![r] = NoCallback] \in [Requests -> Callbacks] /\ u.loading \ {d} \in SUBSET Dirs
      /\ [u.cache EXCEPT ![d] = NoList] \in [Dirs -> Lists] /\ u.errors \cup {d} \in SUBSET Dirs
      /\ [u.pending EXCEPT ![d] = 0] \in [Dirs -> Nat]
  BY <1>1, <1>2, Constants
<1>5. v \in UIs
  BY <1>1, <1>3, <1>4 DEF UIs
<1>6. /\ v.bcbs = [u.bcbs EXCEPT ![r] = NoCallback] /\ v.loading = u.loading \ {d}
      /\ v.cache = [u.cache EXCEPT ![d] = NoList] /\ v.pending = [u.pending EXCEPT ![d] = 0]
      /\ v.next = u.next /\ v.open = u.open /\ v.fsDirs = u.fsDirs /\ v.expanded = u.expanded /\ v.render = TRUE
      /\ v.watched = u.watched /\ v.watchFailed = u.watchFailed /\ v.stdin = u.stdin
  BY <1>1, <1>3 DEF UIs
<1>7. /\ v.pending[d] = 0 /\ v.cache[d] = NoList
      /\ \A x \in Dirs : x # d => v.pending[x] = u.pending[x] /\ v.cache[x] = u.cache[x]
      /\ ~v.bcbs[r].live /\ \A k \in Requests : k # r => v.bcbs[k] = u.bcbs[k]
  BY <1>1, <1>2, <1>6, Constants
<1>8. Base(v)
  <2>1. \A x \in Dirs : v.pending[x] < v.next
    BY <1>1, <1>6, <1>7 DEF Base
  <2>2. \A k \in Requests : v.bcbs[k].live => v.pending[v.bcbs[k].dir] = k
    <3> SUFFICES ASSUME NEW k \in Requests, v.bcbs[k].live PROVE v.pending[v.bcbs[k].dir] = k
      OBVIOUS
    <3>1. k # r /\ v.bcbs[k] = u.bcbs[k] /\ u.pending[u.bcbs[k].dir] = k /\ u.bcbs[k].dir \in Dirs
      BY <1>1, <1>7 DEF Base, Callbacks
    <3>2. QED
      BY <1>2, <1>7, <3>1
  <2>3. QED
    BY <1>5, <1>6, <2>1, <2>2 DEF Base
<1>9. Marked(v)
  BY <1>1, <1>6, <1>7 DEF Marked
<1>10. Answerable(v)
  <2> SUFFICES ASSUME NEW x \in Dirs, v.pending[x] \in Requests
               PROVE  v.bcbs[v.pending[x]].live /\ v.bcbs[v.pending[x]].dir = x
    BY DEF Answerable
  <2>1. x # d /\ v.pending[x] = u.pending[x]
    BY <1>7, Constants
  <2>2. u.bcbs[u.pending[x]].live /\ u.bcbs[u.pending[x]].dir = x
    BY <2>1 DEF Answerable
  <2>3. u.pending[x] # r
    BY <2>1, <2>2 DEF d
  <2>4. QED
    BY <1>7, <2>1, <2>2, <2>3
<1>11. Whole(v, cut)
  BY <1>6, <1>7 DEF Whole
<1>12. Queued(v)
  BY <1>6 DEF Queued
<1>13. Follows(u, v)
  BY <1>1, <1>6, <1>7 DEF Follows
<1>14. Flow(u, v)
  <2>1. \A x \in Dirs : v.cache[x] # NoList /\ x \notin v.loading => v.cache[x] = u.cache[x] /\ x \notin u.loading
    BY <1>6, <1>7
  <2>2. \A k \in Requests : v.bcbs[k].live => v.bcbs[k] = u.bcbs[k]
    BY <1>7
  <2>3. QED
    BY ONLY <1>6, <2>1, <2>2 DEF Flow
<1>15. v.fsDirs = u.fsDirs
  BY <1>6
<1>a. Seen(v)
  BY <1>6 DEF Seen
<1>16. QED
  BY <1>a, <1>8, <1>9, <1>10, <1>11, <1>12, <1>13, <1>14, <1>15 DEF v

LEMMA TimeoutStep == ASSUME NEW r \in Requests PROVE IInv /\ ListRequestTimedOut(r) => IInv' /\ Current(ui, ui')
<1> SUFFICES ASSUME IInv, ListRequestTimedOut(r) PROVE IInv' /\ Current(ui, ui')
  OBVIOUS
<1> DEFINE line == [type |-> "cancel", id |-> r]
           s == BSend(ui, line)
<1>1. /\ DaemonOK' /\ leftover' = leftover /\ ui'.next <= MaxRequests + 1 /\ ui' = OnError(s, r) /\ ui.bcbs[r].live
      /\ Announced' /\ Fresh(ui, told', task', out', ui.fsDirs, leftover)
  BY CommandTypes DEF ListRequestTimedOut, Do
<1>2. Base(ui) /\ Marked(ui) /\ Answerable(ui) /\ Queued(ui) /\ Whole(ui, leftover)
  BY DEF IInv, Sound
<1>3. line \in Lines /\ line.type # "list"
  BY Constants, LineTypes
<1> HIDE DEF line
<1>4. Base(s) /\ SameScans(ui, s)
  BY <1>2, <1>3, BSendFacts
<1> HIDE DEF s
<1>5. Keeps(ui, s)
  BY <1>4, SameKeeps
<1>6. Marked(s) /\ Answerable(s) /\ Queued(s) /\ Whole(s, leftover) /\ Follows(ui, s) /\ s.bcbs[r].live
  BY <1>1, <1>2, <1>4, <1>5 DEF Keeps, SameScans, Alike, Queued
<1>7. /\ Base(ui') /\ Marked(ui') /\ Answerable(ui') /\ Queued(ui') /\ Whole(ui', leftover') /\ Follows(s, ui')
      /\ Flow(s, ui') /\ ui'.fsDirs = s.fsDirs /\ Seen(ui')
  BY <1>1, <1>4, <1>6, OnErrorFacts
<1>8. Follows(ui, ui')
  <2>1. ui.next \in Nat /\ s.next \in Nat /\ ui'.next \in Nat
    BY <1>2, <1>4, <1>7 DEF Base, UIs
  <2>2. QED
    BY <1>6, <1>7, <2>1, FollowsOn
<1>9. Keeps(ui', ui')
  BY <1>7, KeepsSelf
<1>10. Fresh(ui', told', task', out', ui'.fsDirs, leftover')
  <2>1. Fresh(s, told', task', out', ui.fsDirs, leftover)
    BY <1>1, <1>2, <1>5, FreshKeeps
  <2>2. Fresh(ui', told', task', out', ui.fsDirs, leftover)
    BY <1>4, <1>7, <2>1, FreshFlow DEF Follows
  <2>3. ui'.fsDirs = ui.fsDirs
    BY <1>5, <1>7 DEF Keeps
  <2>4. QED
    BY <1>1, <2>2, <2>3
<1>11. QED
  BY <1>1, <1>7, <1>8, <1>9, <1>10, PluginStep

\* A page for a callback.  It may be shown; its number is that of the request.
LEMMA OnChunkFacts ==
  ASSUME NEW u, Base(u), Marked(u), Answerable(u), Queued(u), NEW cut, Whole(u, cut),
         NEW r \in Requests, u.bcbs[r].live, NEW ver \in Nat,
         NEW v, v = OnChunk(u, r, ver), NEW d, d = u.bcbs[r].dir
  PROVE  /\ Base(v) /\ Marked(v) /\ Answerable(v) /\ Queued(v) /\ Whole(v, cut)
         /\ v.next = u.next /\ v.pending = u.pending /\ v.bcbs[r].live /\ v.bcbs[r].dir = d /\ v.bcbs[r].acc.by = r
         /\ v.bcbs[r].acc.ver = ver /\ Flow(u, v) /\ v.fsDirs = u.fsDirs
         /\ \A x \in Dirs : x # d => v.cache[x] = u.cache[x]
         /\ v.cache[d] = u.cache[d] \/ v.cache[d].by = r
         /\ Seen(u) => Seen(v)
<1> DEFINE acc == [ver |-> ver, whole |-> FALSE, by |-> r]
           b == [u.bcbs[r] EXCEPT !.acc = acc]
           c == IF u.bcbs[r].keep THEN u.cache[d] ELSE acc
           rn == u.render \/ ~u.bcbs[r].keep
<1>1. /\ u \in UIs /\ u.bcbs \in [Requests -> Callbacks] /\ u.pending \in [Dirs -> Nat] /\ u.next \in Nat \ {0}
      /\ u.cache \in [Dirs -> Lists] /\ u.loading \subseteq Dirs /\ u.errors \subseteq Dirs
  BY DEF Base, UIs
<1>2. d \in Dirs /\ u.pending[d] = r /\ d \in u.loading
  <2>1. d \in Dirs /\ u.pending[d] = r
    BY <1>1 DEF Base, Callbacks
  <2>2. d \in u.loading
    BY <2>1, Constants DEF Marked
  <2>3. QED
    BY <2>1, <2>2
<1>3. acc \in Lists /\ acc.by = r /\ acc.ver = ver
  BY DEF Lists
<1>4. v = [u EXCEPT !.bcbs = [u.bcbs EXCEPT ![r] = b], !.errors = u.errors \ {d},
                    !.cache = [u.cache EXCEPT ![d] = c], !.render = rn]
  <2>1. [u.bcbs EXCEPT ![r].acc = acc] = [u.bcbs EXCEPT ![r] = b]
    BY <1>1
  <2>2. QED
    BY <2>1 DEF OnChunk
<1>5. b \in Callbacks /\ b.live /\ b.dir = d /\ b.acc = acc
  <2>1. u.bcbs[r] \in Callbacks
    BY <1>1
  <2> HIDE DEF acc
  <2>2. QED
    BY <1>3, <2>1 DEF Callbacks
<1>6. c \in Lists /\ (c = u.cache[d] \/ c.by = r)
  BY <1>1, <1>2, <1>3
<1>7. rn \in BOOLEAN /\ (rn \/ (c = u.cache[d] /\ ~u.render))
  OBVIOUS
<1> HIDE DEF acc, b, c, rn
<1>8. /\ [u.bcbs EXCEPT ![r] = b] \in [Requests -> Callbacks] /\ u.errors \ {d} \in SUBSET Dirs
      /\ [u.cache EXCEPT ![d] = c] \in [Dirs -> Lists]
  BY <1>1, <1>2, <1>5, <1>6
<1>9. v \in UIs
  BY ONLY <1>1, <1>4, <1>7, <1>8 DEF UIs
<1>10. /\ v.bcbs = [u.bcbs EXCEPT ![r] = b] /\ v.cache = [u.cache EXCEPT ![d] = c]
       /\ v.loading = u.loading /\ v.pending = u.pending
       /\ v.next = u.next /\ v.open = u.open /\ v.fsDirs = u.fsDirs /\ v.expanded = u.expanded
       /\ v.errors = u.errors \ {d} /\ v.render = rn /\ v.tripped = u.tripped
       /\ v.watched = u.watched /\ v.watchFailed = u.watchFailed /\ v.stdin = u.stdin
  BY <1>1, <1>4 DEF UIs
<1>11. /\ v.cache[d] = c /\ \A x \in Dirs : x # d => v.cache[x] = u.cache[x]
       /\ v.bcbs[r] = b /\ \A k \in Requests : v.bcbs[k].live = u.bcbs[k].live /\ v.bcbs[k].dir = u.bcbs[k].dir
  <2>1. v.cache[d] = c /\ v.bcbs[r] = b /\ (\A x \in Dirs : x # d => v.cache[x] = u.cache[x])
        /\ \A k \in Requests : k # r => v.bcbs[k] = u.bcbs[k]
    BY <1>1, <1>2, <1>10
  <2>2. b.dir = u.bcbs[r].dir /\ b.live = u.bcbs[r].live
    BY <1>1, <1>5 DEF Callbacks
  <2>3. QED
    BY <2>1, <2>2
<1>12. Base(v)
  <2>1. \A k \in Requests : v.bcbs[k].live => v.pending[v.bcbs[k].dir] = k
    BY <1>10, <1>11 DEF Base
  <2>2. QED
    BY <1>9, <1>10, <2>1 DEF Base
<1>13. Marked(v) /\ Queued(v)
  BY <1>10 DEF Marked, Queued
<1>14. Answerable(v)
  BY <1>10, <1>11 DEF Answerable
<1>15. Whole(v, cut)
  BY <1>2, <1>10, <1>11 DEF Whole
<1>16. Flow(u, v)
  <2>1. \A x \in Dirs : v.cache[x] # NoList /\ x \notin v.loading => v.cache[x] = u.cache[x] /\ x \notin u.loading
    BY <1>2, <1>10, <1>11
  <2>2. QED
    BY ONLY <1>10, <1>11, <2>1 DEF Flow
<1>a. Seen(u) => Seen(v)
  <2>1. CASE rn
    BY <1>10, <2>1 DEF Seen
  <2>2. CASE ~rn
    <3>1. \A x \in Dirs : v.cache[x] = u.cache[x]
      BY <1>7, <1>11, <2>2
    <3>2. v.loading = u.loading /\ v.errors = u.errors \ {d} /\ d \in u.loading /\ ~u.render
      BY <1>2, <1>7, <1>10, <2>2
    <3>3. \A x \in Dirs : Has(u, x) => Has(v, x)
      BY ONLY <3>1, <3>2 DEF Has
    <3>4. QED
      BY ONLY <1>10, <3>1, <3>2, <3>3, Constants DEF Seen
  <2>3. QED
    BY <2>1, <2>2
<1>17. QED
  BY <1>a, <1>3, <1>5, <1>6, <1>10, <1>11, <1>12, <1>13, <1>14, <1>15, <1>16

\* The last page: the listing is what the callback has gathered.
LEMMA OnDoneFacts ==
  ASSUME NEW u, Base(u), Marked(u), Answerable(u), Queued(u), NEW cut, Whole(u, cut),
         NEW r \in Requests, u.bcbs[r].live,
         NEW v, v = OnDone(u, r), NEW d, d = u.bcbs[r].dir
  PROVE  /\ Base(v) /\ Marked(v) /\ Answerable(v) /\ Queued(v) /\ Whole(v, cut \ {d}) /\ v.next = u.next
         /\ \A x \in Dirs : x # d => v.cache[x] = u.cache[x]
         /\ v.cache[d].by = u.bcbs[r].acc.by /\ v.cache[d].ver = u.bcbs[r].acc.ver
         /\ v.loading = u.loading \ {d} /\ v.fsDirs = u.fsDirs /\ Asked(v.stdin) \subseteq Asked(u.stdin)
         /\ \A k \in Requests : v.bcbs[k].live => v.bcbs[k] = u.bcbs[k]
         /\ Seen(v)
<1> DEFINE c == [u.bcbs[r].acc EXCEPT !.whole = TRUE]
           w == [u EXCEPT !.bcbs = [u.bcbs EXCEPT ![r] = NoCallback], !.loading = u.loading \ {d}, !.render = TRUE,
                          !.cache = [u.cache EXCEPT ![d] = c], !.pending = [u.pending EXCEPT ![d] = 0]]
<1>1. /\ u \in UIs /\ u.bcbs \in [Requests -> Callbacks] /\ u.pending \in [Dirs -> Nat] /\ u.next \in Nat \ {0}
      /\ u.cache \in [Dirs -> Lists] /\ u.loading \subseteq Dirs /\ u.errors \subseteq Dirs
  BY DEF Base, UIs
<1>2. d \in Dirs /\ u.pending[d] = r /\ u.bcbs[r].acc \in Lists
  BY <1>1 DEF Base, Callbacks
<1>3. v = WatchDir(w, d)
  BY <1>2 DEF OnDone
<1>4. c \in Lists /\ c.whole /\ c.by = u.bcbs[r].acc.by /\ c.ver = u.bcbs[r].acc.ver
  BY <1>2 DEF Lists
<1> HIDE DEF c
<1>5. /\ [u.bcbs EXCEPT ![r] = NoCallback] \in [Requests -> Callbacks] /\ u.loading \ {d} \in SUBSET Dirs
      /\ [u.cache EXCEPT ![d] = c] \in [Dirs -> Lists] /\ [u.pending EXCEPT ![d] = 0] \in [Dirs -> Nat]
  BY <1>1, <1>2, <1>4, Constants
<1>6. w \in UIs
  BY <1>1, <1>5 DEF UIs
<1>7. /\ w.bcbs = [u.bcbs EXCEPT ![r] = NoCallback] /\ w.loading = u.loading \ {d}
      /\ w.cache = [u.cache EXCEPT ![d] = c] /\ w.pending = [u.pending EXCEPT ![d] = 0]
      /\ w.next = u.next /\ w.open = u.open /\ w.fsDirs = u.fsDirs /\ w.expanded = u.expanded /\ w.render = TRUE
      /\ w.watched = u.watched /\ w.watchFailed = u.watchFailed /\ w.stdin = u.stdin
  BY <1>1 DEF UIs
<1> HIDE DEF w
<1>8. /\ w.pending[d] = 0 /\ w.cache[d] = c
      /\ \A x \in Dirs : x # d => w.pending[x] = u.pending[x] /\ w.cache[x] = u.cache[x]
      /\ ~w.bcbs[r].live /\ \A k \in Requests : k # r => w.bcbs[k] = u.bcbs[k]
  BY <1>1, <1>2, <1>7, Constants
<1>9. Base(w)
  <2>1. \A x \in Dirs : w.pending[x] < w.next
    BY <1>1, <1>7, <1>8 DEF Base
  <2>2. \A k \in Requests : w.bcbs[k].live => w.pending[w.bcbs[k].dir] = k
    <3> SUFFICES ASSUME NEW k \in Requests, w.bcbs[k].live PROVE w.pending[w.bcbs[k].dir] = k
      OBVIOUS
    <3>1. k # r /\ w.bcbs[k] = u.bcbs[k] /\ u.pending[u.bcbs[k].dir] = k /\ u.bcbs[k].dir \in Dirs
      BY <1>1, <1>8 DEF Base, Callbacks
    <3>2. QED
      BY <1>2, <1>8, <3>1
  <2>3. QED
    BY <1>6, <1>7, <2>1, <2>2 DEF Base
<1>10. Marked(w)
  BY <1>1, <1>7, <1>8 DEF Marked
<1>11. Answerable(w)
  <2> SUFFICES ASSUME NEW x \in Dirs, w.pending[x] \in Requests
               PROVE  w.bcbs[w.pending[x]].live /\ w.bcbs[w.pending[x]].dir = x
    BY DEF Answerable
  <2>1. x # d /\ w.pending[x] = u.pending[x]
    BY <1>8, Constants
  <2>2. u.bcbs[u.pending[x]].live /\ u.bcbs[u.pending[x]].dir = x
    BY <2>1 DEF Answerable
  <2>3. u.pending[x] # r
    BY <2>1, <2>2
  <2>4. QED
    BY <1>8, <2>1, <2>2, <2>3
<1>12. Whole(w, cut \ {d})
  BY <1>4, <1>7, <1>8 DEF Whole
<1>13. Base(v) /\ SameScans(w, v) /\ Keeps(w, v)
  BY <1>2, <1>3, <1>9, WatchDirFacts
<1>14. Marked(v) /\ Answerable(v) /\ Queued(v) /\ Whole(v, cut \ {d})
  BY <1>7, <1>10, <1>11, <1>12, <1>13 DEF Keeps, Queued
<1>15. /\ v.next = u.next /\ v.cache = w.cache /\ v.loading = u.loading \ {d} /\ v.fsDirs = u.fsDirs
       /\ Asked(v.stdin) \subseteq Asked(u.stdin) /\ v.bcbs = w.bcbs
  BY <1>7, <1>13 DEF SameScans, Alike
<1>16. \A k \in Requests : v.bcbs[k].live => v.bcbs[k] = u.bcbs[k]
  BY <1>8, <1>15
<1>a. Seen(v)
  BY <1>3, <1>7, <1>9, WatchDirTree DEF SameTree, Seen
<1>17. QED
  BY <1>a, <1>4, <1>8, <1>13, <1>14, <1>15, <1>16

LEMMA EventTypes ==
  ASSUME NEW e \in Events
  PROVE  /\ e.type = "list_chunk" => e.id \in Requests /\ e.ver \in Nat
         /\ e.type = "error" => e.id \in Requests
         /\ e.type \in {"watch_failed", "fs_event"} => e.dir \in Dirs
BY DEF Events

\* A page is the only line that brings a listing, to the request it is of.
LEMMA DispatchStep == IInv /\ Dispatch => IInv' /\ Current(ui, ui')
<1> SUFFICES ASSUME IInv, Dispatch PROVE IInv' /\ Current(ui, ui')
  OBVIOUS
<1>1. PICK ev \in Events : ev = Head(out)
  <2>1. out \in Seq(Events) /\ out # <<>>
    BY DEF IInv, DaemonOK, Dispatch
  <2>2. QED
    BY <2>1, HeadTailProperties
<1>2. DaemonOK'
  <2>1. out' \in Seq(Events)
    BY HeadTailProperties DEF IInv, DaemonOK, Dispatch
  <2>2. QED
    BY <2>1 DEF IInv, DaemonOK, Dispatch, daemonVars
<1>3. Base(ui) /\ Marked(ui) /\ Answerable(ui) /\ Queued(ui) /\ Whole(ui, leftover) /\ ui \in UIs /\ ui.next <= MaxRequests + 1
      /\ ui.next \in Nat /\ Seen(ui)
  BY DEF IInv, Sound, Base, UIs
<1>4. Keeps(ui, ui) /\ Follows(ui, ui)
  BY <1>3, KeepsSelf DEF Keeps
<1>a. out \in Seq(Events) /\ out # <<>> /\ out' = Tail(out) /\ UNCHANGED <<disk, announced, task>>
  BY DEF IInv, DaemonOK, Dispatch, daemonVars
<1>b. \A t : Of(t, out') \subseteq Of(t, out) /\ (ev.type = t => ev \in Of(t, out))
  BY <1>1, <1>a, OfLines
<1>c. Fresh(ui, told, task', out', ui.fsDirs, leftover)
  BY <1>a, <1>b, FreshLess DEF IInv
<1>d. told' = told => Announced'
  BY <1>a, <1>b DEF IInv, Announced
<1>5. CASE ev.type = "list_chunk"
  <2> DEFINE r == ev.id
             d == ui.bcbs[r].dir
             u == OnChunk(ui, r, ev.ver)
  <2>1. /\ ui' = IF ui.bcbs[r].live
                 THEN IF ev.done THEN OnDone(u, r) ELSE u
                 ELSE ui
        /\ leftover' = IF ui.bcbs[r].live /\ ev.done THEN leftover \ {d} ELSE leftover
        /\ told' = told
    BY <1>1, <1>5 DEF Dispatch, Do
  <2>2. r \in Requests /\ ev.ver \in Nat
    BY <1>5, EventTypes
  <2>3. CASE ~ui.bcbs[r].live
    <3>1. ui' = ui /\ leftover' = leftover
      BY <2>1, <2>3
    <3>2. QED
      BY <1>2, <1>3, <1>4, <1>c, <1>d, <2>1, <3>1, PlainStep
  <2>4. CASE ui.bcbs[r].live
    <3>a. u = OnChunk(ui, r, ev.ver) /\ d = ui.bcbs[r].dir
      OBVIOUS
    <3> HIDE DEF u, d, r
    <3>1. /\ Base(u) /\ Marked(u) /\ Answerable(u) /\ Queued(u) /\ Whole(u, leftover)
          /\ u.next = ui.next /\ u.pending = ui.pending /\ u.bcbs[r].live /\ u.bcbs[r].dir = d /\ u.bcbs[r].acc.by = r
          /\ \A x \in Dirs : x # d => u.cache[x] = ui.cache[x]
          /\ u.cache[d] = ui.cache[d] \/ u.cache[d].by = r
          /\ u.bcbs[r].acc.ver = ev.ver /\ Flow(ui, u) /\ u.fsDirs = ui.fsDirs /\ Seen(u)
      BY <1>3, <2>2, <2>4, <3>a, OnChunkFacts
    <3>2. d \in Dirs /\ ui.pending[d] = r /\ r # 0
      BY <1>3, <2>2, <2>4, <3>a, Constants DEF Base, UIs, Callbacks
    <3>b. Fresh(u, told', task', out', u.fsDirs, leftover)
      <4>1. Fresh(u, told, task', out', ui.fsDirs, leftover)
        BY <1>3, <1>c, <3>1, FreshFlow
      <4>2. QED
        BY <2>1, <3>1, <4>1
    <3>3. CASE ~ev.done
      <4>1. ui' = u /\ leftover' = leftover
        BY <2>1, <2>4, <3>3
      <4>2. IInv'
        BY <1>2, <1>3, <1>d, <2>1, <3>1, <3>b, <4>1 DEF IInv, Sound
      <4>3. Current(ui, ui')
        BY <3>1, <3>2, <4>1 DEF Current
      <4>4. QED
        BY <4>2, <4>3
    <3>4. CASE ev.done
      <4>1. ui' = OnDone(u, r) /\ leftover' = leftover \ {d}
        BY <2>1, <2>4, <3>4
      <4>2. /\ Base(ui') /\ Marked(ui') /\ Answerable(ui') /\ Queued(ui') /\ Whole(ui', leftover \ {d}) /\ ui'.next = u.next
            /\ \A x \in Dirs : x # d => ui'.cache[x] = u.cache[x]
            /\ ui'.cache[d].by = r /\ ui'.cache[d].ver = ev.ver
            /\ ui'.loading = u.loading \ {d} /\ ui'.fsDirs = u.fsDirs /\ Asked(ui'.stdin) \subseteq Asked(u.stdin)
            /\ (\A k \in Requests : ui'.bcbs[k].live => ui'.bcbs[k] = u.bcbs[k]) /\ Seen(ui')
        <5>1. PICK v : v = OnDone(u, r)
          OBVIOUS
        <5>2. d = u.bcbs[r].dir /\ r = u.bcbs[r].acc.by /\ ev.ver = u.bcbs[r].acc.ver
          BY ONLY <3>1
        <5>3. /\ Base(v) /\ Marked(v) /\ Answerable(v) /\ Queued(v) /\ Whole(v, leftover \ {d}) /\ v.next = u.next
              /\ (\A x \in Dirs : x # d => v.cache[x] = u.cache[x])
              /\ v.cache[d].by = u.bcbs[r].acc.by /\ v.cache[d].ver = u.bcbs[r].acc.ver
              /\ v.loading = u.loading \ {d} /\ v.fsDirs = u.fsDirs /\ Asked(v.stdin) \subseteq Asked(u.stdin)
              /\ (\A k \in Requests : v.bcbs[k].live => v.bcbs[k] = u.bcbs[k]) /\ Seen(v)
          <6>1. Base(u) /\ Marked(u) /\ Answerable(u) /\ Queued(u) /\ Whole(u, leftover) /\ u.bcbs[r].live /\ r \in Requests
            BY ONLY <2>2, <3>1
          <6>2. QED
            BY ONLY <5>1, <5>2, <6>1, OnDoneFacts, Z3
        <5>4. ui' = v
          BY ONLY <4>1, <5>1
        <5>5. QED
          BY ONLY <5>2, <5>3, <5>4
      <4>a. Known(ui', task', out')
        <5>1. Known(u, task', out')
          BY <3>b DEF Fresh
        <5>2. QED
          BY ONLY <4>2, <5>1 DEF Known, Fits
      <4>b. FreshAnswers(ui', told', task', out', ui'.fsDirs)
        <5>1. FreshAnswers(u, told', task', out', u.fsDirs)
          BY <3>b DEF Fresh
        <5>2. QED
          BY ONLY <4>2, <5>1 DEF FreshAnswers
      <4>c. d \notin ui.fsDirs => told[d] <= ev.ver
        <5>1. ev \in Of("list_chunk", out) /\ ev.id = r
          BY <1>5, <1>b DEF r
        <5>2. FreshAnswers(ui, told, task, out, ui.fsDirs)
          BY DEF IInv, Fresh
        <5>3. QED
          BY ONLY <2>2, <2>4, <3>a, <5>1, <5>2 DEF FreshAnswers
      <4>d. FreshLists(ui', told', ui'.fsDirs, leftover')
        <5>1. FreshLists(u, told', u.fsDirs, leftover)
          BY <3>b DEF Fresh
        <5>2. told' = told
          BY <2>1
        <5>3. QED
          BY ONLY <3>1, <4>1, <4>2, <4>c, <5>1, <5>2 DEF FreshLists
      <4>3. IInv'
        BY <1>2, <1>3, <1>d, <2>1, <3>1, <4>1, <4>2, <4>a, <4>b, <4>d DEF IInv, Sound, Fresh
      <4>4. Current(ui, ui')
        BY <3>1, <3>2, <4>2 DEF Current
      <4>5. QED
        BY <4>3, <4>4
    <3>5. QED
      BY <3>3, <3>4
  <2>5. QED
    BY <2>3, <2>4
<1>6. CASE ev.type = "error"
  <2>1. ui' = (IF ui.bcbs[ev.id].live THEN OnError(ui, ev.id) ELSE ui) /\ leftover' = leftover /\ ui'.next <= MaxRequests + 1
        /\ told' = told
    BY <1>1, <1>6 DEF Dispatch, Do
  <2>2. ev.id \in Requests
    BY <1>6, EventTypes
  <2>3. CASE ~ui.bcbs[ev.id].live
    <3>1. ui' = ui
      BY <2>1, <2>3
    <3>2. QED
      BY <1>2, <1>3, <1>4, <1>c, <1>d, <2>1, <3>1, PlainStep
  <2>4. CASE ui.bcbs[ev.id].live
    <3>1. ui' = OnError(ui, ev.id)
      BY <2>1, <2>4
    <3>2. Base(ui') /\ Marked(ui') /\ Answerable(ui') /\ Queued(ui') /\ Whole(ui', leftover) /\ Follows(ui, ui')
          /\ Flow(ui, ui') /\ ui'.fsDirs = ui.fsDirs /\ Seen(ui')
      BY <1>3, <2>2, <2>4, <3>1, OnErrorFacts
    <3>3. Keeps(ui', ui')
      BY <3>2, KeepsSelf
    <3>4. Fresh(ui', told', task', out', ui'.fsDirs, leftover')
      <4>1. Fresh(ui', told, task', out', ui.fsDirs, leftover)
        BY <1>3, <1>c, <3>2, FreshFlow DEF Follows
      <4>2. QED
        BY <2>1, <3>2, <4>1
    <3>5. QED
      BY <1>2, <1>d, <2>1, <3>2, <3>3, <3>4, PluginStep
  <2>5. QED
    BY <2>3, <2>4
<1>7. CASE ev.type = "watch_failed"
  <2> DEFINE w == [ui EXCEPT !.watched = ui.watched \ {ev.dir}, !.watchFailed = ui.watchFailed \cup {ev.dir},
                             !.watchCallbacks = ui.watchCallbacks \ {ev.dir}]
  <2>1. ui' \in {ui, w} /\ leftover' = leftover /\ told' = told
    BY <1>1, <1>7 DEF Dispatch, Do
  <2>2. ev.dir \in Dirs
    BY <1>7, EventTypes
  <2>3. w \in UIs /\ SameScans(ui, w) /\ w.expanded = ui.expanded
        /\ w.watched = ui.watched \ {ev.dir} /\ w.watchFailed = ui.watchFailed \cup {ev.dir}
    <3>1. /\ ui.watched \ {ev.dir} \in SUBSET Dirs /\ ui.watchFailed \cup {ev.dir} \in SUBSET Dirs
          /\ ui.watchCallbacks \ {ev.dir} \in SUBSET Dirs
      BY <1>3, <2>2 DEF UIs
    <3>2. w \in UIs
      BY <1>3, <3>1 DEF UIs
    <3>3. QED
      BY <1>3, <3>2 DEF UIs, SameScans, Alike
  <2>a. SameTree(ui, w)
    BY <1>3 DEF UIs, SameTree
  <2> HIDE DEF w
  <2>4. w.watched \cap w.watchFailed = {}
    BY <1>3, <2>3 DEF Base
  <2>5. Base(w)
    BY <1>3, <2>3, <2>4 DEF Base, SameScans, Alike
  <2>6. Keeps(ui, w)
    BY <2>3, <2>5, SameKeeps
  <2>7. Keeps(ui, ui')
    BY <1>4, <2>1, <2>6
  <2>8. ui'.next <= MaxRequests + 1
    BY <1>3, <2>1, <2>3 DEF SameScans, Alike
  <2>b. Seen(ui')
    BY <1>3, <2>1, <2>a, SameSeen
  <2>9. QED
    BY <2>b, <1>2, <1>4, <1>c, <1>d, <2>1, <2>7, <2>8, PlainStep
<1>8. CASE ev.type = "fs_event"
  <2> DEFINE w == [ui EXCEPT !.fsDirs = ui.fsDirs \cup {ev.dir}]
  <2>1. ui' = (IF ui.open THEN w ELSE ui) /\ leftover' = leftover
        /\ told' = IF ui.open THEN [told EXCEPT ![ev.dir] = ev.ver] ELSE told
    BY <1>1, <1>8 DEF Dispatch, Do
  <2>2. ui.fsDirs \cup {ev.dir} \in SUBSET Dirs
    BY <1>3, <1>8, EventTypes DEF UIs
  <2>3. CASE ~ui.open
    BY <1>2, <1>3, <1>4, <1>c, <1>d, <2>1, <2>3, PlainStep
  <2>4. CASE ui.open
    <3>1. w \in UIs /\ w.cache = ui.cache /\ w.loading = ui.loading /\ w.pending = ui.pending /\ w.bcbs = ui.bcbs
          /\ w.next = ui.next /\ w.open = ui.open /\ w.expanded = ui.expanded
          /\ w.watched = ui.watched /\ w.watchFailed = ui.watchFailed
          /\ w.fsDirs = ui.fsDirs \cup {ev.dir} /\ w.stdin = ui.stdin /\ SameTree(ui, w)
      BY <1>3, <2>2 DEF UIs, SameTree
    <3>2. ui' = w
      BY <2>1, <2>4
    <3> HIDE DEF w
    <3>3. Base(w)
      BY <1>3, <3>1 DEF Base
    <3>4. Marked(w) /\ Answerable(w) /\ Queued(w) /\ Whole(w, leftover)
      BY <1>3, <2>4, <3>1 DEF Marked, Answerable, Queued, Whole
    <3>5. Current(ui, w)
      BY <3>1 DEF Current
    <3>a. ev.dir \in Dirs /\ ev.ver \in Nat /\ ev.ver <= announced[ev.dir]
      BY <1>8, <1>b, EventTypes DEF IInv, Announced, Events
    <3>b. told' \in [Dirs -> Nat] /\ told'[ev.dir] = ev.ver /\ \A d \in Dirs : d # ev.dir => told'[d] = told[d]
      BY <2>1, <2>4, <3>a DEF IInv, Announced
    <3>c. Announced'
      BY <1>a, <1>b, <3>a, <3>b DEF IInv, Announced
    <3>d. Fresh(w, told', task', out', w.fsDirs, leftover)
      <4>1. Known(w, task', out')
        BY <1>c, <3>1 DEF Fresh, Known, Fits
      <4>2. \A r \in Requests : ui.bcbs[r].dir \in Dirs
        BY <1>3 DEF UIs, Callbacks
      <4>3. FreshAnswers(w, told', task', out', w.fsDirs)
        <5>1. FreshAnswers(ui, told, task', out', ui.fsDirs)
          BY <1>c DEF Fresh
        <5>2. QED
          BY ONLY <3>1, <3>b, <4>2, <5>1 DEF FreshAnswers
      <4>4. FreshLists(w, told', w.fsDirs, leftover)
        <5>1. FreshLists(ui, told, ui.fsDirs, leftover)
          BY <1>c DEF Fresh
        <5>2. QED
          BY ONLY <3>1, <3>b, <5>1 DEF FreshLists
      <4>5. QED
        BY <4>1, <4>3, <4>4 DEF Fresh
    <3>6. IInv'
      BY <1>2, <1>3, <2>1, <3>1, <3>2, <3>3, <3>4, <3>c, <3>d, SameSeen DEF IInv, Sound
    <3>7. QED
      BY <3>2, <3>5, <3>6
  <2>5. QED
    BY <2>3, <2>4
<1>9. ev.type \in {"list_chunk", "error", "watch_failed", "fs_event"}
  BY <1>1 DEF Dispatch
<1>10. QED
  BY <1>5, <1>6, <1>7, <1>8, <1>9

----------------------------------------------------------------------------
(* The daemon.                                                             *)

LEMMA AcceptStep == IInv /\ Accept => IInv' /\ Current(ui, ui')
<1> SUFFICES ASSUME IInv, Accept PROVE IInv' /\ Current(ui, ui')
  OBVIOUS
<1>1. Base(ui) /\ ui.stdin \in Seq(Lines) /\ ui.stdin # <<>> /\ ui.next <= MaxRequests + 1
  BY DEF IInv, Sound, Base, UIs, Accept
<1>2. PICK line \in Lines : line = Head(ui.stdin)
  BY <1>1, HeadTailProperties
<1>3. Tail(ui.stdin) \in Seq(Lines)
  BY <1>1, HeadTailProperties
<1>4. ui' = [ui EXCEPT !.stdin = Tail(ui.stdin)] /\ leftover' = leftover /\ UNCHANGED <<disk, announced, told>>
  BY DEF Accept, DaemonUnchanged
<1>5. Base(ui') /\ SameScans(ui, ui')
  <2>1. Base(ui') /\ Alike(ui, ui') /\ ui'.stdin = Tail(ui.stdin)
    BY <1>1, <1>3, <1>4, StdinChanges
  <2>2. QED
    BY <1>1, <2>1, AskedLines DEF SameScans
<1>6. DaemonOK'
  <2>1. /\ disk \in [Dirs -> Nat \ {0}] /\ watches \subseteq Dirs /\ news \subseteq Dirs
        /\ announced \in [Dirs -> Nat \ {0}] /\ task \in [Requests -> Tasks] /\ out \in Seq(Events)
    BY DEF IInv, DaemonOK
  <2>2. CASE line.type = "list"
    <3> DEFINE t == [at |-> "asked", dir |-> line.dir, floor |-> announced[line.dir], ver |-> 0]
    <3>1. t \in Tasks
      <4>1. line.dir \in Dirs
        BY <2>2 DEF Lines
      <4>2. announced[line.dir] \in Nat
        BY <2>1, <4>1
      <4>3. QED
        BY <4>1, <4>2 DEF Tasks
    <3>2. task' = [task EXCEPT ![line.id] = t] /\ UNCHANGED <<watches, news, out>>
      BY <1>2, <2>2 DEF Accept
    <3> HIDE DEF t
    <3>3. task' \in [Requests -> Tasks]
      BY <2>1, <3>1, <3>2
    <3>4. QED
      BY <1>4, <2>1, <3>2, <3>3 DEF DaemonOK
  <2>3. CASE line.type = "cancel"
    <3>1. [NoTask EXCEPT !.at = "over"] \in Tasks
      BY Constants DEF NoTask, Tasks
    <3>2. task' = [task EXCEPT ![line.id] = [NoTask EXCEPT !.at = "over"]] /\ UNCHANGED <<watches, news, out>>
      BY <1>2, <2>3 DEF Accept
    <3>3. task' \in [Requests -> Tasks]
      BY <2>1, <3>1, <3>2
    <3>4. QED
      BY <1>4, <2>1, <3>2, <3>3 DEF DaemonOK
  <2>4. CASE line.type = "watch"
    <3> DEFINE e == [type |-> "watch_failed", dir |-> line.dir]
    <3>1. line.dir \in Dirs
      BY <2>4 DEF Lines
    <3>2. e \in Events
      BY <3>1 DEF Events
    <3>3. /\ \/ watches' = watches \cup {line.dir} /\ UNCHANGED out
             \/ out' = Append(out, e) /\ UNCHANGED watches
          /\ UNCHANGED <<task, news>>
      BY <1>2, <2>4 DEF Accept
    <3> HIDE DEF e
    <3>4. out' \in Seq(Events)
      <4>1. out \in Seq(Events) /\ Append(out, e) \in Seq(Events)
        BY <2>1, <3>2, AppendProperties
      <4>2. QED
        BY <3>3, <4>1
    <3>5. QED
      BY <1>4, <2>1, <3>1, <3>3, <3>4 DEF DaemonOK
  <2>5. CASE line.type = "unwatch"
    <3>1. watches' = watches \ {line.dir} /\ news' = news \ {line.dir} /\ UNCHANGED <<task, out>>
      BY <1>2, <2>5 DEF Accept
    <3>2. QED
      BY <1>4, <2>1, <3>1 DEF DaemonOK
  <2>6. QED
    BY <1>2, <2>2, <2>3, <2>4, <2>5 DEF Accept
<1>7. Keeps(ui, ui) /\ Keeps(ui, ui')
  BY <1>1, <1>5, KeepsSelf, SameKeeps
<1>8. ui'.next <= MaxRequests + 1
  BY <1>1, <1>5 DEF SameScans, Alike
<1>9. out \in Seq(Events) /\ Announced /\ Fresh(ui, told, task, out, ui.fsDirs, leftover) /\ task \in [Requests -> Tasks]
  BY DEF IInv, DaemonOK
<1>10. Of("list_chunk", out') \subseteq Of("list_chunk", out) /\ Of("fs_event", out') \subseteq Of("fs_event", out)
  <2>1. CASE out' = out
    BY <2>1
  <2>2. CASE out' = Append(out, [type |-> "watch_failed", dir |-> line.dir]) /\ line.type = "watch"
    <3> DEFINE e == [type |-> "watch_failed", dir |-> line.dir]
    <3>1. e \in Events /\ e.type = "watch_failed"
      BY <2>2 DEF Events, Lines
    <3>2. out' = Append(out, e)
      BY <2>2
    <3> HIDE DEF e
    <3>3. QED
      BY ONLY <1>9, <3>1, <3>2, OfLines
  <2>3. QED
    BY <1>2, <2>1, <2>2 DEF Accept
<1>11. Announced'
  BY <1>4, <1>9, <1>10 DEF Announced
<1>12. Known(ui, task', out') /\ FreshAnswers(ui, told, task', out', ui.fsDirs)
  <2>1. Known(ui, task, out') /\ FreshAnswers(ui, told, task, out', ui.fsDirs)
    BY <1>9, <1>10 DEF Fresh, Known, FreshAnswers
  <2>2. CASE line.type = "list"
    <3> DEFINE t == [at |-> "asked", dir |-> line.dir, floor |-> announced[line.dir], ver |-> 0]
    <3>1. task' = [task EXCEPT ![line.id] = t] /\ t.at = "asked" /\ t.floor = announced[line.dir]
      BY <1>2, <2>2 DEF Accept
    <3> HIDE DEF t
    <3>2. line \in Asked(ui.stdin)
      BY <1>1, <1>2, <2>2, AskedLines
    <3>3. line.id < ui.next /\ Fits(ui, line) /\ line.dir \in Dirs
      BY <1>1, <1>9, <3>2, AskedLines DEF Fresh, Known
    <3>4. \A r \in Requests : task'[r] = IF r = line.id THEN t ELSE task[r]
      BY <1>9, <3>1
    <3>5. Known(ui, task', out')
      BY ONLY <2>1, <3>3, <3>4 DEF Known
    <3>6. told[line.dir] <= announced[line.dir]
      BY <1>9, <3>3 DEF Announced
    <3>7. \A r \in Requests : ui.bcbs[r].live /\ r = line.id => ui.bcbs[r].dir = line.dir
      BY <3>3 DEF Fits
    <3>8. FreshAnswers(ui, told, task', out', ui.fsDirs)
      BY ONLY <2>1, <3>1, <3>4, <3>6, <3>7 DEF FreshAnswers
    <3>9. QED
      BY <3>5, <3>8
  <2>3. CASE line.type = "cancel"
    <3> DEFINE t == [NoTask EXCEPT !.at = "over"]
    <3>1. task' = [task EXCEPT ![line.id] = t] /\ t.at = "over"
      BY <1>2, <2>3 DEF Accept, NoTask
    <3> HIDE DEF t
    <3>2. \A r \in Requests : task'[r] = IF r = line.id THEN t ELSE task[r]
      BY <1>9, <3>1
    <3>3. QED
      BY ONLY <2>1, <3>1, <3>2 DEF Known, FreshAnswers
  <2>4. CASE line.type \in {"watch", "unwatch"}
    <3>1. task' = task
      BY <1>2, <2>4 DEF Accept
    <3>2. QED
      BY <2>1, <3>1
  <2>5. QED
    BY <1>2, <2>2, <2>3, <2>4 DEF Accept
<1>13. Fresh(ui, told', task', out', ui.fsDirs, leftover)
  BY <1>4, <1>9, <1>12 DEF Fresh
<1>a. Seen(ui')
  <2>1. SameTree(ui, ui')
    BY <1>1, <1>4 DEF Base, UIs, SameTree
  <2>2. QED
    BY <2>1, SameSeen DEF IInv
<1>14. QED
  BY <1>a, <1>4, <1>6, <1>7, <1>8, <1>11, <1>13, PlainStep

\* The rest of what the daemon does, and the disk, leaves the plugin alone.
LEMMA ElsewhereStep ==
  ASSUME IInv, UNCHANGED <<ui, leftover>>, DaemonOK', Announced', Fresh(ui, told', task', out', ui.fsDirs, leftover)
  PROVE  IInv' /\ Current(ui, ui')
BY DEF IInv, Current

\* A listing is made of no older version than had been announced when it was asked for.
LEMMA DaemonFresh ==
  ASSUME IInv,
         \/ \E r \in Requests : Scan(r) \/ LastPage(r)
         \/ \E d \in Dirs : Announce(d) \/ Change(d)
  PROVE  Announced' /\ Fresh(ui, told', task', out', ui.fsDirs, leftover)
<1>1. /\ disk \in [Dirs -> Nat \ {0}] /\ announced \in [Dirs -> Nat \ {0}] /\ task \in [Requests -> Tasks]
      /\ out \in Seq(Events) /\ Announced /\ Fresh(ui, told, task, out, ui.fsDirs, leftover)
  BY DEF IInv, DaemonOK
<1>2. told' = told /\ told \in [Dirs -> Nat] /\ \A r \in Requests : ui.bcbs[r].dir \in Dirs
  BY DEF IInv, Announced, Sound, Base, UIs, Callbacks, Scan, LastPage, Announce, Change, DaemonUnchanged
<1>3. Known(ui, task, out) /\ FreshAnswers(ui, told, task, out, ui.fsDirs) /\ FreshLists(ui, told, ui.fsDirs, leftover)
  BY <1>1 DEF Fresh
<1>4. ASSUME NEW r \in Requests, Scan(r) \/ LastPage(r)
      PROVE  Announced' /\ Known(ui, task', out') /\ FreshAnswers(ui, told, task', out', ui.fsDirs)
  <2>1. PICK t \in Tasks, e \in Events :
          /\ task' = [task EXCEPT ![r] = t] /\ out' = Append(out, e) /\ e.type \in {"list_chunk", "error"} /\ e.id = r
          /\ t.at \in {"paging", "over"} /\ task[r].at \in {"asked", "paging"}
          /\ t.at = "paging" => IF task[r].at = "asked" THEN task[r].floor <= t.ver ELSE task[r].ver <= t.ver
          /\ e.type = "list_chunk" => IF task[r].at = "asked" THEN task[r].floor <= e.ver ELSE task[r].ver <= e.ver
    <3>1. task[r] \in Tasks /\ task[r].floor \in Nat /\ task[r].ver \in Nat /\ task[r].dir \in Dirs
      BY <1>1 DEF Tasks
    <3>2. [NoTask EXCEPT !.at = "over"] \in Tasks /\ [NoTask EXCEPT !.at = "over"].at = "over"
      BY Constants DEF NoTask, Tasks
    <3>3. ASSUME NEW v \in task[r].floor..disk[task[r].dir], task[r].at = "asked",
                 task' = [task EXCEPT ![r].at = "paging", ![r].ver = v],
                 out' = Append(out, [type |-> "list_chunk", id |-> r, ver |-> v, done |-> FALSE])
          PROVE  \E t \in Tasks, e \in Events :
                   /\ task' = [task EXCEPT ![r] = t] /\ out' = Append(out, e) /\ e.type = "list_chunk" /\ e.id = r
                   /\ t.at = "paging" /\ task[r].floor <= t.ver /\ task[r].floor <= e.ver
      <4> DEFINE t == [task[r] EXCEPT !.at = "paging", !.ver = v]
                 e == [type |-> "list_chunk", id |-> r, ver |-> v, done |-> FALSE]
      <4>1. v \in Nat /\ task[r].floor <= v
        BY <3>1
      <4>2. t \in Tasks /\ t.at = "paging" /\ t.ver = v /\ e \in Events /\ e.type = "list_chunk" /\ e.id = r /\ e.ver = v
        BY <3>1, <4>1 DEF Tasks, Events
      <4>3. task' = [task EXCEPT ![r] = t] /\ out' = Append(out, e)
        BY <1>1, <3>3
      <4> HIDE DEF t, e
      <4>4. QED
        BY <4>1, <4>2, <4>3
    <3>4. [type |-> "error", id |-> r] \in Events
      BY DEF Events
    <3>5. [type |-> "list_chunk", id |-> r, ver |-> task[r].ver, done |-> TRUE] \in Events
      BY <3>1 DEF Events
    <3>6. CASE Scan(r)
      BY <3>2, <3>3, <3>4, <3>6 DEF Scan
    <3>7. CASE LastPage(r)
      <4>1. PICK e \in Events : e = [type |-> "list_chunk", id |-> r, ver |-> task[r].ver, done |-> TRUE]
        BY <3>5
      <4>2. e.type = "list_chunk" /\ e.id = r /\ e.ver = task[r].ver
        BY <4>1
      <4>3. QED
        <5>1. task' = [task EXCEPT ![r] = [NoTask EXCEPT !.at = "over"]] /\ out' = Append(out, e) /\ task[r].at = "paging"
          BY <3>7, <4>1 DEF LastPage
        <5>2. task[r].ver <= e.ver
          BY <3>1, <4>2
        <5>3. QED
          BY ONLY <3>2, <4>2, <5>1, <5>2
    <3>8. QED
      BY <1>4, <3>6, <3>7
  <2>2. \A k \in Requests : task'[k] = IF k = r THEN t ELSE task[k]
    BY <1>1, <2>1
  <2>3. /\ \A x \in Of("list_chunk", out') : x \in Of("list_chunk", out) \/ (x = e /\ e.type = "list_chunk")
        /\ \A x \in Of("fs_event", out') : x \in Of("fs_event", out)
    BY <1>1, <2>1, OfLines
  <2>4. Announced'
    <3>1. UNCHANGED <<told, announced, disk>>
      BY <1>4 DEF Scan, LastPage, DaemonUnchanged
    <3>2. QED
      BY ONLY <1>1, <2>3, <3>1 DEF Announced
  <2>5. Known(ui, task', out')
    BY ONLY <1>3, <2>1, <2>2, <2>3 DEF Known
  <2>6. FreshAnswers(ui, told, task', out', ui.fsDirs)
    <3> SUFFICES ASSUME NEW k \in Requests, ui.bcbs[k].live, ui.bcbs[k].dir \notin ui.fsDirs
                 PROVE  /\ task'[k].at = "asked" => told[ui.bcbs[k].dir] <= task'[k].floor
                        /\ task'[k].at = "paging" => told[ui.bcbs[k].dir] <= task'[k].ver
                        /\ \A x \in Of("list_chunk", out') : x.id = k => told[ui.bcbs[k].dir] <= x.ver
      BY DEF FreshAnswers
    <3>1. /\ task[k].at = "asked" => told[ui.bcbs[k].dir] <= task[k].floor
          /\ task[k].at = "paging" => told[ui.bcbs[k].dir] <= task[k].ver
          /\ \A x \in Of("list_chunk", out) : x.id = k => told[ui.bcbs[k].dir] <= x.ver
      BY <1>3 DEF FreshAnswers
    <3>2. CASE k # r
      BY ONLY <2>1, <2>2, <2>3, <3>1, <3>2
    <3>3. CASE k = r
      <4>1. told[ui.bcbs[r].dir] \in Nat /\ task[r].floor \in Nat /\ task[r].ver \in Nat /\ t.ver \in Nat
            /\ (e.type = "list_chunk" => e.ver \in Nat)
        BY <1>1, <1>2, EventTypes DEF Tasks
      <4>2. t.at = "paging" => told[ui.bcbs[r].dir] <= t.ver
        BY ONLY <2>1, <3>1, <3>3, <4>1
      <4>3. e.type = "list_chunk" => told[ui.bcbs[r].dir] <= e.ver
        BY ONLY <2>1, <3>1, <3>3, <4>1
      <4>4. QED
        BY ONLY <2>1, <2>2, <2>3, <3>1, <3>3, <4>2, <4>3
    <3>4. QED
      BY <3>2, <3>3
  <2>7. QED
    BY <2>4, <2>5, <2>6
<1>5. ASSUME NEW d \in Dirs, Announce(d)
      PROVE  Announced' /\ Known(ui, task', out') /\ FreshAnswers(ui, told, task', out', ui.fsDirs)
  <2> DEFINE e == [type |-> "fs_event", dir |-> d, ver |-> disk[d]]
  <2>1. announced' = [announced EXCEPT ![d] = disk[d]] /\ out' = Append(out, e) /\ UNCHANGED <<task, disk>>
    BY <1>5 DEF Announce, DaemonUnchanged
  <2>2. e \in Events /\ e.type = "fs_event" /\ e.dir = d /\ e.ver = disk[d]
    BY <1>1 DEF Events
  <2> HIDE DEF e
  <2>3. /\ \A x \in Of("list_chunk", out') : x \in Of("list_chunk", out)
        /\ \A x \in Of("fs_event", out') : (x \in Of("fs_event", out) \/ x = e)
        /\ \A x \in Of("fs_event", out) : x \in Events /\ x.type = "fs_event"
    BY <1>1, <2>1, <2>2, OfLines
  <2>4. \A x \in Of("fs_event", out) : x.dir \in Dirs /\ x.ver \in Nat
    BY <2>3 DEF Events
  <2>5. /\ announced'[d] = disk[d] /\ (\A k \in Dirs : k # d => announced'[k] = announced[k]) /\ announced[d] <= disk[d]
        /\ \A k \in Dirs : announced[k] <= announced'[k] /\ announced'[k] \in Nat /\ announced'[k] <= disk[k]
    BY <1>1, <2>1 DEF Announced
  <2>6. Announced'
    <3>1. \A k \in Dirs : told'[k] <= announced'[k] /\ announced'[k] <= disk'[k]
      BY <1>1, <1>2, <2>1, <2>5 DEF Announced
    <3>2. \A x \in Of("fs_event", out') : x.ver <= announced'[x.dir]
      <4>1. \A x \in Of("fs_event", out) : x.ver <= announced[x.dir] /\ announced[x.dir] \in Nat
        BY <1>1, <2>4 DEF Announced
      <4>2. e.ver <= announced'[e.dir]
        BY <1>1, <2>2, <2>5
      <4>3. QED
        BY ONLY <2>3, <2>4, <2>5, <4>1, <4>2
    <3>3. QED
      BY <1>2, <3>1, <3>2 DEF Announced
  <2>7. QED
    BY <1>3, <2>1, <2>3, <2>6 DEF Known, FreshAnswers
<1>6. ASSUME NEW d \in Dirs, Change(d)
      PROVE  Announced' /\ Known(ui, task', out') /\ FreshAnswers(ui, told, task', out', ui.fsDirs)
  <2>1. disk' = [disk EXCEPT ![d] = disk[d] + 1] /\ UNCHANGED <<announced, task, out, told>>
    BY <1>6 DEF Change
  <2>2. \A k \in Dirs : announced[k] <= disk'[k]
    BY <1>1, <2>1 DEF Announced
  <2>3. Announced'
    BY <1>1, <2>1, <2>2 DEF Announced
  <2>4. QED
    BY <1>3, <2>1, <2>3
<1>7. QED
  BY <1>2, <1>3, <1>4, <1>5, <1>6 DEF Fresh

LEMMA DaemonStep ==
  ASSUME IInv,
         \/ \E r \in Requests : Scan(r) \/ LastPage(r)
         \/ \E d \in Dirs : Announce(d) \/ Change(d)
  PROVE  IInv' /\ Current(ui, ui')
<1>1. UNCHANGED <<ui, leftover>>
  BY DEF Scan, LastPage, Announce, Change, DaemonUnchanged
<1>2. /\ disk \in [Dirs -> Nat \ {0}] /\ watches \subseteq Dirs /\ news \subseteq Dirs
      /\ announced \in [Dirs -> Nat \ {0}] /\ task \in [Requests -> Tasks] /\ out \in Seq(Events)
  BY DEF IInv, DaemonOK
<1>3. [NoTask EXCEPT !.at = "over"] \in Tasks
  BY Constants DEF NoTask, Tasks
<1>4. ASSUME NEW r \in Requests, Scan(r) PROVE DaemonOK'
  <2>1. UNCHANGED <<disk, watches, news, announced>>
    BY <1>4 DEF Scan, DaemonUnchanged
  <2>2. CASE \E v \in task[r].floor..disk[task[r].dir] :
               /\ task' = [task EXCEPT ![r].at = "paging", ![r].ver = v]
               /\ out' = Append(out, [type |-> "list_chunk", id |-> r, ver |-> v, done |-> FALSE])
    <3>1. PICK v \in task[r].floor..disk[task[r].dir] :
               /\ task' = [task EXCEPT ![r].at = "paging", ![r].ver = v]
               /\ out' = Append(out, [type |-> "list_chunk", id |-> r, ver |-> v, done |-> FALSE])
      BY <2>2
    <3>2. task[r] \in Tasks /\ task[r].floor \in Nat /\ v \in Nat
      BY <1>2 DEF Tasks
    <3> DEFINE t == [task[r] EXCEPT !.at = "paging", !.ver = v]
               e == [type |-> "list_chunk", id |-> r, ver |-> v, done |-> FALSE]
    <3>3. task' = [task EXCEPT ![r] = t]
      BY <1>2, <3>1
    <3>4. t \in Tasks /\ e \in Events /\ out' = Append(out, e)
      BY <3>1, <3>2 DEF Tasks, Events
    <3> HIDE DEF t, e
    <3>5. task' \in [Requests -> Tasks] /\ out' \in Seq(Events)
      BY <1>2, <3>3, <3>4, AppendProperties
    <3>6. QED
      BY <1>2, <2>1, <3>5 DEF DaemonOK
  <2>3. CASE /\ task' = [task EXCEPT ![r] = [NoTask EXCEPT !.at = "over"]]
             /\ out' = Append(out, [type |-> "error", id |-> r])
    <3> DEFINE e == [type |-> "error", id |-> r]
    <3>1. e \in Events /\ out' = Append(out, e)
      BY <2>3 DEF Events
    <3> HIDE DEF e
    <3>2. task' \in [Requests -> Tasks] /\ out' \in Seq(Events)
      BY <1>2, <1>3, <2>3, <3>1, AppendProperties
    <3>3. QED
      BY <1>2, <2>1, <3>2 DEF DaemonOK
  <2>4. QED
    BY <1>4, <2>2, <2>3 DEF Scan
<1>5. ASSUME NEW r \in Requests, LastPage(r) PROVE DaemonOK'
  <2> DEFINE e == [type |-> "list_chunk", id |-> r, ver |-> task[r].ver, done |-> TRUE]
  <2>1. /\ task' = [task EXCEPT ![r] = [NoTask EXCEPT !.at = "over"]] /\ out' = Append(out, e)
        /\ UNCHANGED <<disk, watches, news, announced>>
    BY <1>5 DEF LastPage, DaemonUnchanged
  <2>2. e \in Events
    BY <1>2 DEF Events, Tasks
  <2> HIDE DEF e
  <2>3. task' \in [Requests -> Tasks] /\ out' \in Seq(Events)
    BY <1>2, <1>3, <2>1, <2>2, AppendProperties
  <2>4. QED
    BY <1>2, <2>1, <2>3 DEF DaemonOK
<1>6. ASSUME NEW d \in Dirs, Announce(d) PROVE DaemonOK'
  <2> DEFINE e == [type |-> "fs_event", dir |-> d, ver |-> disk[d]]
  <2>1. /\ news' = news \ {d} /\ announced' = [announced EXCEPT ![d] = disk[d]] /\ out' = Append(out, e)
        /\ UNCHANGED <<disk, watches, task>>
    BY <1>6 DEF Announce, DaemonUnchanged
  <2>2. e \in Events /\ disk[d] \in Nat \ {0}
    BY <1>2 DEF Events
  <2> HIDE DEF e
  <2>3. announced' \in [Dirs -> Nat \ {0}] /\ out' \in Seq(Events) /\ news' \subseteq Dirs
    BY <1>2, <2>1, <2>2, AppendProperties
  <2>4. QED
    BY <1>2, <2>1, <2>3 DEF DaemonOK
<1>7. ASSUME NEW d \in Dirs, Change(d) PROVE DaemonOK'
  <2>1. /\ disk' = [disk EXCEPT ![d] = disk[d] + 1] /\ news' \in {news, news \cup {d}}
        /\ UNCHANGED <<watches, announced, task, out>>
    BY <1>7 DEF Change
  <2>2. disk[d] + 1 \in Nat \ {0}
    BY <1>2
  <2>3. disk' \in [Dirs -> Nat \ {0}] /\ news' \subseteq Dirs
    BY <1>2, <2>1, <2>2
  <2>4. QED
    BY <1>2, <2>1, <2>3 DEF DaemonOK
<1>8. QED
  BY <1>1, <1>4, <1>5, <1>6, <1>7, DaemonFresh, ElsewhereStep

----------------------------------------------------------------------------
LEMMA NextStep == IInv /\ [Next]_vars => IInv' /\ Current(ui, ui')
<1> SUFFICES ASSUME IInv, [Next]_vars PROVE IInv' /\ Current(ui, ui')
  OBVIOUS
<1>1. CASE Command
  BY <1>1, OpenStep, CloseStep, ToggleDirStep, CollapseStep, RefreshStep, FileOpStep DEF Command
<1>2. CASE Loop
  BY <1>2, RenderTimerStep, FsTimerStep, DispatchStep, PongStep, TimeoutStep DEF Loop
<1>3. CASE Daemon
  BY <1>3, AcceptStep, DaemonStep DEF Daemon
<1>4. CASE Exit \/ RestartTimer
  BY <1>4, ExitStep, RestartStep
<1>5. CASE \E d \in Dirs : Change(d)
  BY <1>5, DaemonStep
<1>6. CASE UNCHANGED vars
  BY <1>6, ElsewhereStep DEF vars, daemonVars, IInv, DaemonOK, Announced
<1>7. QED
  BY <1>1, <1>2, <1>3, <1>4, <1>5, <1>6 DEF Next

\* Once nothing is scanned any more and no timer is to come, all that is shown has
\* failed, or is at least as new as what was told.  TreeSettles, without the time
\* it takes to come to rest.
AtRest ==
  \A d \in Dirs : Shown(d) /\ d \notin ui.loading \cup ui.fsDirs /\ ~ui.render /\ ~ui.tripped =>
    \/ d \in ui.errors \cup leftover
    \/ ui.cache[d].whole /\ ui.cache[d].ver >= told[d]

LEMMA IInvImplies == IInv => TypeOK /\ ScansAnswerable /\ CacheCurrent
<1> SUFFICES ASSUME IInv PROVE TypeOK /\ ScansAnswerable /\ CacheCurrent
  OBVIOUS
<1>1. /\ Base(ui) /\ Marked(ui) /\ Answerable(ui) /\ ui \in UIs /\ ui.next <= MaxRequests + 1 /\ Whole(ui, leftover)
      /\ ui.next \in Nat \ {0} /\ ui.pending \in [Dirs -> Nat]
  BY DEF IInv, Sound, Base, UIs
<1>2. \A d \in Dirs : ui.pending[d] \in Requests \cup {0}
  BY <1>1, TreeAssumption, Constants DEF Base
<1>3. ScansAnswerable
  <2>1. ui.loading = {d \in Dirs : ui.pending[d] # 0}
    BY <1>1 DEF Marked
  <2>2. \A d \in Dirs : ui.pending[d] # 0 => ui.bcbs[ui.pending[d]].live /\ ui.bcbs[ui.pending[d]].dir = d
    BY <1>1, <1>2 DEF Answerable
  <2>3. QED
    BY <2>1, <2>2 DEF ScansAnswerable
<1>4. CacheCurrent
  <2>1. told \in [Dirs -> Nat] /\ FreshLists(ui, told, ui.fsDirs, leftover)
    BY DEF IInv, Announced, Fresh
  <2>2. \A d \in Dirs : told[d] \in Nat /\ ui.cache[d].ver \in Nat
    BY <1>1, <2>1 DEF UIs, Lists
  <2>3. QED
    BY ONLY <1>1, <2>1, <2>2 DEF Whole, FreshLists, CacheCurrent
<1>5. TypeOK
  <2>1. ui.pending \in [Dirs -> Requests \cup {0}] /\ ui.next \in 1..(MaxRequests + 1)
    BY <1>1, <1>2, TreeAssumption
  <2>2. ui.cache \in [Dirs -> [ver : Nat, whole : BOOLEAN, by : Requests \cup {0}]]
    BY <1>1 DEF UIs, Lists
  <2>3. /\ ui.open \in BOOLEAN /\ ui.expanded \subseteq Dirs /\ ui.loading \subseteq Dirs
        /\ ui.daemon \in {"down", "up", "ready"}
        /\ ui.watched \cup ui.watchFailed \cup ui.watchCallbacks \cup ui.fsDirs \cup ui.errors \subseteq Dirs
    BY <1>1 DEF UIs
  <2>4. Root \in ui.expanded /\ ui.watched \cap ui.watchFailed = {}
    BY <1>1 DEF Base
  <2>5. watches \cup news \subseteq Dirs /\ announced \in [Dirs -> Nat \ {0}]
        /\ \A r \in Requests : task[r].at \in {"none", "asked", "paging", "over"}
    BY DEF IInv, DaemonOK, Tasks
  <2>6. QED
    BY <2>1, <2>2, <2>3, <2>4, <2>5 DEF TypeOK
<1>6. QED
  BY <1>3, <1>4, <1>5

----------------------------------------------------------------------------
\* The inductive invariant holds, whatever the number of requests, changes and commands.
THEOREM Invariant == Spec => []IInv
BY InitStep, NextStep, PTL DEF Spec

\* Types; and a directory is not both watched and known to be beyond watching.
THEOREM TypeCorrect == Spec => []TypeOK
BY Invariant, IInvImplies, PTL

\* What ScanDirAsync() marks as being scanned waits for a request with a
\* callback and a timeout, through cancels, exits and restarts.
THEOREM ScansAnswerableHolds == Spec => []ScansAnswerable
BY Invariant, IInvImplies, PTL

\* But for what OnCollapseAll() leaves, what stays in the cache when nothing is
\* to replace it is whole, and no older than any fs_event that OnFsEvent() was given.
THEOREM CacheCurrentHolds == Spec => []CacheCurrent
BY Invariant, IInvImplies, PTL

\* The tree never comes to rest with something to show that was not scanned, was cut
\* short, or is older than what OnFsEvent() was given (ScanDirAsync(), RefreshDirs(),
\* BackendCrashed() and Render() leave no gap between them).
THEOREM AtRestHolds == Spec => []AtRest
<1>1. IInv => AtRest
  <2> SUFFICES ASSUME IInv, NEW d \in Dirs,
                      Shown(d), d \notin ui.loading \cup ui.fsDirs, ~ui.render, ~ui.tripped, d \notin ui.errors \cup leftover
               PROVE  ui.cache[d].whole /\ ui.cache[d].ver >= told[d]
    BY DEF AtRest
  <2>1. ui.cache[d] # NoList
    BY Constants DEF IInv, Seen, Has, Shown
  <2>2. QED
    BY <2>1, IInvImplies DEF CacheCurrent
<1>2. QED
  BY <1>1, Invariant, PTL

\* A listing comes into the cache from the scan under way for its directory,
\* and from no other.
THEOREM OnlyCurrentScanHolds == Spec => OnlyCurrentScan
<1>1. IInv /\ [Next]_vars
        => [\A d \in Dirs : (ui'.cache[d] # ui.cache[d] /\ ui'.cache[d] # NoList)
              => ui'.cache[d].by = ui.pending[d] /\ ui.pending[d] # 0]_vars
  BY NextStep DEF Current
<1>2. QED
  BY <1>1, Invariant, PTL DEF Spec, OnlyCurrentScan
=============================================================================
