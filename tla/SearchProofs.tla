---------------------------- MODULE SearchProofs ----------------------------
(***************************************************************************)
(* Proofs about Search, for every number of searches and matches, and for  *)
(* every size of the batches, channels and limits: walkers are bounded,    *)
(* and what a filter or a quickfix list shows is the whole answer to the   *)
(* newest query.                                                           *)
(*                                                                         *)
(* The invariant follows a match from the walker to the screen: as long as *)
(* a search is neither cancelled nor cut off, everything found is in the   *)
(* batch, in the channel, with the task, on the way out, or shown; and its *)
(* last event is behind all the others.  DueInv adds that no callback      *)
(* waits for a search that nobody works on.                                *)
(***************************************************************************)
EXTENDS Search, FiniteSetTheorems, SequenceTheorems, TLAPS

\* The types of the daemon's part and of the frontend's part.
DaemonOK ==
  /\ out \in Seq(Events) /\ Len(out) <= Capacity
  /\ task \in [Searches -> {"none", "permit", "recv", "send", "join", "done", "error", "over"}]
  /\ sending \in [Searches -> SUBSET Nat]
  /\ walker \in [Searches -> {"none", "start", "walk", "flush", "last", "ended", "failed"}]
  /\ found \in [Searches -> Nat] /\ batch \in [Searches -> SUBSET Nat]
  /\ chan \in [Searches -> Seq(SUBSET Nat)] /\ \A s \in Searches : Len(chan[s]) <= CHANNEL

FrontendOK ==
  /\ stdin \in Seq(Requests)
  /\ owner \in [Searches -> {"none", "filter", "quickfix"}] /\ total \in [Searches -> Nat]
  /\ bcbs \subseteq Searches /\ hits \subseteq Searches \X Nat
  /\ filter \in [id : Searches \cup {0}, pending : BOOLEAN, truncated : BOOLEAN]
  /\ answered \in Searches \cup {0}
  /\ quickId \in Searches \cup {0} /\ results \in [Searches -> SUBSET Nat]
  /\ quickfix \in [of : Searches \cup {0}, items : SUBSET Nat]

FlagsOK ==
  alive \in BOOLEAN /\ stalled \in BOOLEAN /\ token \in [Searches -> BOOLEAN] /\ orphaned \in BOOLEAN

\* Searches are started in the order of their numbers.
Numbered == \E n \in 0..MaxSearches : \A s \in Searches : owner[s] # "none" <=> s <= n

\* Nothing is known of a search that was not started.
Unborn(s) ==
  /\ task[s] = "none" /\ s \notin bcbs
  /\ filter.id # s /\ answered # s /\ quickId # s /\ results[s] = {}
  /\ \A i \in 1..Len(stdin) : stdin[i].id # s
  /\ \A i \in 1..Len(out) : out[i].id # s

\* A search is asked for once.
AskedOnce ==
  \A i, j \in 1..Len(stdin) :
    stdin[i].type = "search" =>
      /\ task[stdin[i].id] = "none"
      /\ stdin[j].type = "search" /\ stdin[j].id = stdin[i].id => i = j

\* The walk has come to its end or to its limit.
Full(s) == found[s] = total[s] \/ found[s] = MaxResults(s)

\* The walker, by its phase.
WalkOK(s) ==
  /\ found[s] <= total[s] /\ found[s] <= MaxResults(s)
  /\ walker[s] \in {"none", "start"} => found[s] = 0
  /\ walker[s] = "walk" => found[s] < MaxResults(s)
  /\ walker[s] = "last" => Full(s)
  /\ batch[s] \subseteq 1..found[s] /\ sending[s] \subseteq 1..found[s]
  /\ \A i \in 1..Len(chan[s]) : chan[s][i] \subseteq 1..found[s]

\* The task, by its phase.
TaskOK(s) ==
  /\ task[s] \in {"none", "permit"} => walker[s] = "none"
  /\ task[s] = "error" => WalkEnded(s)
  /\ task[s] = "join" /\ ~token[s] => WalkEnded(s) /\ chan[s] = <<>>
  /\ task[s] = "done" => walker[s] = "ended" /\ chan[s] = <<>>
  /\ ~token[s] /\ task[s] \in {"recv", "send", "join", "done"} /\ walker[s] = "ended" => batch[s] = {} /\ Full(s)
  /\ ~stalled /\ Walking(s) => HasPermit(s)

\* Events carry what was found, and the last of a search is its last.
OutOK ==
  \A i \in 1..Len(out) :
    /\ out[i].items \subseteq 1..found[out[i].id]
    /\ out[i].kind # "chunk" =>
         /\ out[i].items = {} /\ task[out[i].id] = "over"
         /\ \A j \in 1..Len(out) : j > i => out[j].id # out[i].id
    /\ out[i].kind = "done" => Full(out[i].id)

Permits == {s \in Searches : HasPermit(s)}
PermitsBounded == Cardinality(Permits) <= MAX_CONCURRENT_SCANS

\* What the frontend's two users of searches hold.
ShownOK ==
  /\ filter.id # 0 => /\ owner[filter.id] = "filter" /\ answered = 0
                      /\ hits \subseteq {filter.id} \X (1..found[filter.id])
  /\ quickId # 0 => /\ owner[quickId] = "quickfix"
                    /\ \A s \in Searches : owner[s] = "quickfix" => s <= quickId
  /\ \A s \in Searches : results[s] \subseteq 1..found[s]
  /\ (answered # 0 /\ ~filter.truncated /\ FilterMaxResults <= MAX_SEARCH_RESULTS)
       => hits = {answered} \X (1..total[answered])

\* Somebody listens to search s, and has got match n.
Heard(s) == s \in bcbs /\ s \in {filter.id, quickId}
Got(s, n) == (filter.id = s => <<s, n>> \in hits) /\ (quickId = s => n \in results[s])
OnItsWay(s, n) == \E i \in 1..Len(out) : out[i].id = s /\ n \in out[i].items
Told(s, n) == Got(s, n) \/ OnItsWay(s, n)

\* Nothing that was found is lost while the search goes on, nor when it is done.
Delivering(s) ==
  Heard(s) /\ ~token[s] /\ task[s] \in {"recv", "send", "join", "done"} =>
    \A n \in 1..found[s] :
      \/ n \in batch[s] \/ (\E i \in 1..Len(chan[s]) : n \in chan[s][i])
      \/ task[s] = "send" /\ n \in sending[s]
      \/ Told(s, n)

Delivered ==
  \A i \in 1..Len(out) : out[i].kind = "done" /\ Heard(out[i].id) =>
    \A n \in 1..found[out[i].id] : Told(out[i].id, n)

StateOK == DaemonOK /\ FrontendOK /\ FlagsOK
WalksOK == \A s \in Searches : WalkOK(s) /\ TaskOK(s) /\ Delivering(s)
IdsOK == Numbered /\ AskedOnce /\ \A s \in Searches : owner[s] = "none" => Unborn(s)

IInv == StateOK /\ IdsOK /\ WalksOK /\ OutOK /\ PermitsBounded /\ ShownOK /\ Delivered

----------------------------------------------------------------------------
LEMMA MaxType == \A s \in Searches : MaxResults(s) \in Nat \ {0}
BY SearchAssumption DEF MaxResults

LEMMA EventTypes ==
  \A q \in Seq(Events) : \A i \in 1..Len(q) :
    q[i] \in Events /\ q[i].id \in Searches /\ q[i].kind \in {"chunk", "done", "error"} /\ q[i].items \subseteq Nat
<1> SUFFICES ASSUME NEW q \in Seq(Events), NEW i \in 1..Len(q) PROVE q[i] \in Events
  BY DEF Events
<1>1. QED
  BY ElementOfSeq

LEMMA RequestTypes ==
  \A q \in Seq(Requests) : \A i \in 1..Len(q) :
    q[i] \in Requests /\ q[i].id \in Searches /\ q[i].type \in {"search", "cancel"}
<1> SUFFICES ASSUME NEW q \in Seq(Requests), NEW i \in 1..Len(q) PROVE q[i] \in Requests
  BY DEF Requests
<1>1. QED
  BY ElementOfSeq

LEMMA InitStep == Init => IInv
<1> SUFFICES ASSUME Init PROVE IInv
  OBVIOUS
<1>1. DaemonOK
  BY SearchAssumption DEF Init, DaemonOK
<1>2. FrontendOK
  <2>1. filter \in [id : Searches \cup {0}, pending : BOOLEAN, truncated : BOOLEAN]
    BY DEF Init, NoFilter
  <2>2. stdin \in Seq(Requests) /\ owner \in [Searches -> {"none", "filter", "quickfix"}]
    BY DEF Init
  <2>3. total \in [Searches -> Nat] /\ bcbs \subseteq Searches /\ hits \subseteq Searches \X Nat
        /\ answered \in Searches \cup {0} /\ quickId \in Searches \cup {0}
    BY DEF Init
  <2>4. results \in [Searches -> SUBSET Nat] /\ quickfix \in [of : Searches \cup {0}, items : SUBSET Nat]
    BY DEF Init
  <2>5. QED
    BY <2>1, <2>2, <2>3, <2>4 DEF FrontendOK
<1>3. FlagsOK
  BY Zenon DEF Init, FlagsOK
<1>4. IdsOK
  BY SearchAssumption DEF Init, IdsOK, Numbered, AskedOnce, Unborn, NoFilter, Searches
<1>5. WalksOK
  BY MaxType DEF Init, WalksOK, WalkOK, TaskOK, Delivering, Heard, WalkEnded, Walking
<1>6. OutOK /\ Delivered
  BY DEF Init, OutOK, Delivered
<1>7. PermitsBounded
  <2>1. Permits = {}
    BY DEF Init, Permits, HasPermit
  <2>2. QED
    BY <2>1, FS_EmptySet, SearchAssumption DEF PermitsBounded
<1>8. ShownOK
  BY DEF Init, ShownOK, NoFilter
<1>9. QED
  BY <1>1, <1>2, <1>3, <1>4, <1>5, <1>6, <1>7, <1>8 DEF IInv, StateOK

----------------------------------------------------------------------------
(* The walker.                                                             *)

\* A step of the walker of s is a step of the invariant if it is one for s: it
\* may have found more, but never once the walk has been told to be complete.
LEMMA WalkFrame ==
  ASSUME IInv, NEW s \in Searches, WalkerUnchanged, DaemonOK',
         \A r \in Searches \ {s} : /\ walker'[r] = walker[r] /\ found'[r] = found[r]
                                   /\ batch'[r] = batch[r] /\ chan'[r] = chan[r],
         found[s] <= found'[s], found'[s] # found[s] => ~Full(s),
         WalkOK(s)', TaskOK(s)', Delivering(s)'
  PROVE  IInv'
<1>1. UNCHANGED <<alive, stdin, out, stalled, task, token, sending, filter, hits, answered, orphaned,
                  quickId, results, quickfix, owner, total, bcbs>>
  BY DEF WalkerUnchanged, wireVars, taskVars, filterVars, quickVars, startVars
<1>2. StateOK'
  BY <1>1 DEF IInv, StateOK, FrontendOK, FlagsOK
<1>3. IdsOK'
  BY <1>1 DEF IInv, IdsOK, Numbered, AskedOnce, Unborn
<1>4. \A r \in Searches : MaxResults(r)' = MaxResults(r)
  BY <1>1 DEF MaxResults
<1>5. \A r \in Searches : found[r] \in Nat /\ found'[r] \in Nat /\ found[r] <= found'[r]
                          /\ (Full(r) => Full(r)' /\ found'[r] = found[r])
  BY <1>1, <1>4 DEF IInv, StateOK, DaemonOK, Full
<1>6. ASSUME NEW r \in Searches, r # s PROVE WalkOK(r)' /\ TaskOK(r)' /\ Delivering(r)'
  <2>1. /\ walker'[r] = walker[r] /\ found'[r] = found[r]
        /\ batch'[r] = batch[r] /\ chan'[r] = chan[r]
    BY <1>6
  <2>2. WalkOK(r) /\ TaskOK(r) /\ Delivering(r)
    BY DEF IInv, WalksOK
  <2>3. WalkOK(r)' /\ TaskOK(r)'
    BY <1>1, <1>4, <2>1, <2>2 DEF WalkOK, TaskOK, Full, WalkEnded, Walking, HasPermit
  <2>4. Delivering(r)'
    BY <1>1, <2>1, <2>2 DEF Delivering, Heard, Told, Got, OnItsWay
  <2>5. QED
    BY <2>3, <2>4
<1>7. WalksOK'
  BY <1>6 DEF WalksOK
<1>8. \A i \in 1..Len(out) : out[i].id \in Searches
  BY EventTypes DEF IInv, StateOK, DaemonOK
<1>9. OutOK'
  <2> SUFFICES ASSUME NEW i \in 1..Len(out), NEW r \in Searches, r = out[i].id
               PROVE  /\ out[i].items \subseteq 1..found'[r]
                      /\ out[i].kind = "done" => Full(r)'
    BY <1>1, <1>8 DEF IInv, OutOK
  <2>1. out[i].items \subseteq 1..found[r] /\ (out[i].kind = "done" => Full(r))
    BY DEF IInv, OutOK
  <2>2. 1..found[r] \subseteq 1..found'[r]
    BY <1>5
  <2>3. out[i].items \subseteq 1..found'[r]
    BY <2>1, <2>2
  <2>4. out[i].kind = "done" => Full(r)'
    BY <1>5, <2>1
  <2>5. QED
    BY <2>3, <2>4
<1>10. Delivered'
  <2> SUFFICES ASSUME NEW i \in 1..Len(out), out[i].kind = "done", Heard(out[i].id)
               PROVE  \A n \in 1..found'[out[i].id] : Told(out[i].id, n)
    BY <1>1 DEF Delivered, Heard, Told, Got, OnItsWay
  <2>1. Full(out[i].id)
    BY DEF IInv, OutOK
  <2>2. QED
    BY <1>5, <1>8, <2>1 DEF IInv, Delivered
<1>11. PermitsBounded'
  BY <1>1 DEF IInv, PermitsBounded, Permits, HasPermit
<1>12. ShownOK'
  <2>1. \A r \in Searches : 1..found[r] \subseteq 1..found'[r]
    BY <1>5
  <2>2. filter.id \in Searches \cup {0}
    BY DEF IInv, StateOK, FrontendOK
  <2>3. filter.id # 0 => hits \subseteq {filter.id} \X (1..found'[filter.id])
    BY <2>1, <2>2 DEF IInv, ShownOK
  <2>4. \A r \in Searches : results[r] \subseteq 1..found'[r]
    BY <2>1 DEF IInv, ShownOK
  <2>5. QED
    BY <1>1, <2>3, <2>4 DEF IInv, ShownOK
<1>13. QED
  BY <1>2, <1>3, <1>7, <1>9, <1>10, <1>11, <1>12 DEF IInv

\* What a walker of a task that receives and is not cancelled must keep.
LEMMA WalkStepStart == \A s \in Searches : IInv /\ WalkStart(s) => IInv'
<1> SUFFICES ASSUME IInv, NEW s \in Searches, WalkStart(s) PROVE IInv'
  OBVIOUS
<1>1. /\ walker[s] = "start" /\ WalkerUnchanged /\ UNCHANGED <<found, batch, chan>>
  BY DEF WalkStart
<1>2. PICK w \in {"walk", "failed"} : walker' = [walker EXCEPT ![s] = w]
  BY DEF WalkStart
<1>3. UNCHANGED <<alive, stdin, out, stalled, task, token, sending, filter, hits, quickId, results, owner, total, bcbs>>
  BY <1>1 DEF WalkerUnchanged, wireVars, taskVars, filterVars, quickVars, startVars
<1>4. DaemonOK'
  BY <1>1, <1>2, <1>3 DEF IInv, StateOK, DaemonOK
<1>5. walker'[s] = w
  BY <1>2 DEF IInv, StateOK, DaemonOK
<1>6. WalkOK(s) /\ TaskOK(s) /\ Delivering(s) /\ MaxResults(s) \in Nat \ {0} /\ MaxResults(s)' = MaxResults(s)
  BY <1>3, MaxType DEF IInv, WalksOK, MaxResults
<1>7. WalkOK(s)'
  BY <1>1, <1>3, <1>5, <1>6 DEF WalkOK
<1>8. TaskOK(s)'
  BY <1>1, <1>3, <1>5, <1>6 DEF TaskOK, WalkEnded, Walking, HasPermit
<1>9. Delivering(s)'
  BY <1>1, <1>3, <1>6 DEF Delivering, Heard, Told, Got, OnItsWay
<1>10. /\ \A r \in Searches \ {s} : /\ walker'[r] = walker[r] /\ found'[r] = found[r]
                                   /\ batch'[r] = batch[r] /\ chan'[r] = chan[r]
       /\ found[s] <= found'[s] /\ found'[s] = found[s]
  BY <1>1, <1>2 DEF IInv, StateOK, DaemonOK
<1>11. QED
  BY <1>1, <1>4, <1>7, <1>8, <1>9, <1>10, WalkFrame

LEMMA WalkStepMatch == \A s \in Searches : IInv /\ WalkMatch(s) => IInv'
<1> SUFFICES ASSUME IInv, NEW s \in Searches, WalkMatch(s) PROVE IInv'
  OBVIOUS
<1> DEFINE f == found[s] + 1
           b == batch[s] \cup {f}
           w == IF Cardinality(b) >= BATCH_SIZE THEN "flush" ELSE IF f >= MaxResults(s) THEN "last" ELSE "walk"
<1>1. /\ walker[s] = "walk" /\ ~token[s] /\ found[s] < total[s] /\ WalkerUnchanged /\ UNCHANGED chan
  BY DEF WalkMatch
<1>2. /\ found' = [found EXCEPT ![s] = f] /\ batch' = [batch EXCEPT ![s] = b]
      /\ walker' = [walker EXCEPT ![s] = w]
  BY DEF WalkMatch, IInv, StateOK, DaemonOK
<1>3. UNCHANGED <<alive, stdin, out, stalled, task, token, sending, filter, hits, quickId, results, owner, total, bcbs>>
  BY <1>1 DEF WalkerUnchanged, wireVars, taskVars, filterVars, quickVars, startVars
<1>4. f \in Nat /\ found[s] \in Nat /\ b \in SUBSET Nat /\ w \in {"flush", "last", "walk"}
  BY DEF IInv, StateOK, DaemonOK
<1>5. walker'[s] = w /\ found'[s] = f /\ batch'[s] = b /\ chan'[s] = chan[s]
  BY <1>1, <1>2 DEF IInv, StateOK, DaemonOK
<1>6. DaemonOK'
  BY <1>1, <1>2, <1>3, <1>4 DEF IInv, StateOK, DaemonOK
<1>7. WalkOK(s) /\ TaskOK(s) /\ Delivering(s) /\ MaxResults(s) \in Nat \ {0} /\ MaxResults(s)' = MaxResults(s)
      /\ total[s] \in Nat
  BY <1>3, MaxType DEF IInv, WalksOK, MaxResults, StateOK, FrontendOK
<1>8. ~Full(s) /\ f <= total[s] /\ f <= MaxResults(s) /\ 1..found[s] \subseteq 1..f /\ f \in 1..f
  BY <1>1, <1>4, <1>7 DEF WalkOK, Full
<1>9. WalkOK(s)'
  <2>1. w = "walk" => f < MaxResults(s)
    BY <1>4, <1>7
  <2>2. w = "last" => f = MaxResults(s)
    BY <1>4, <1>7, <1>8
  <2>3. b \subseteq 1..f /\ sending[s] \subseteq 1..f /\ \A i \in 1..Len(chan[s]) : chan[s][i] \subseteq 1..f
    BY <1>7, <1>8 DEF WalkOK
  <2>4. QED
    BY <1>3, <1>4, <1>5, <1>7, <1>8, <2>1, <2>2, <2>3 DEF WalkOK, Full
<1>10. TaskOK(s)'
  BY <1>1, <1>3, <1>4, <1>5, <1>7 DEF TaskOK, WalkEnded, Walking, HasPermit
<1>11. Delivering(s)'
  <2> SUFFICES ASSUME Heard(s), task[s] \in {"recv", "send", "join", "done"}, NEW n \in 1..f
               PROVE  \/ n \in b \/ (\E i \in 1..Len(chan[s]) : n \in chan[s][i])
                      \/ task[s] = "send" /\ n \in sending[s]
                      \/ Told(s, n)
    BY <1>3, <1>5 DEF Delivering, Heard, Told, Got, OnItsWay
  <2>1. CASE n = f
    BY <2>1
  <2>2. CASE n # f
    <3>1. n \in 1..found[s]
      BY <1>4, <2>2
    <3>2. QED
      BY <1>1, <1>7, <3>1 DEF Delivering
  <2>3. QED
    BY <2>1, <2>2
<1>12. /\ \A r \in Searches \ {s} : /\ walker'[r] = walker[r] /\ found'[r] = found[r]
                                   /\ batch'[r] = batch[r] /\ chan'[r] = chan[r]
       /\ found[s] <= found'[s]
  BY <1>1, <1>2, <1>4, <1>5 DEF IInv, StateOK, DaemonOK
<1>13. QED
  BY <1>1, <1>6, <1>8, <1>9, <1>10, <1>11, <1>12, WalkFrame

\* The walker goes on without having found or sent anything.
LEMMA WalkerGoes ==
  ASSUME IInv, NEW s \in Searches, NEW w \in {"last", "ended"}, Walking(s), WalkerUnchanged,
         UNCHANGED <<found, batch, chan>>, walker' = [walker EXCEPT ![s] = w],
         w = "last" => Full(s),
         w = "ended" /\ ~token[s] /\ task[s] \in {"recv", "send", "join", "done"} => batch[s] = {} /\ Full(s)
  PROVE  IInv'
<1>1. UNCHANGED <<alive, stdin, out, stalled, task, token, sending, filter, hits, quickId, results, owner, total, bcbs>>
  BY DEF WalkerUnchanged, wireVars, taskVars, filterVars, quickVars, startVars
<1>2. DaemonOK'
  BY <1>1 DEF IInv, StateOK, DaemonOK
<1>3. walker'[s] = w /\ found'[s] = found[s] /\ batch'[s] = batch[s] /\ chan'[s] = chan[s]
  BY DEF IInv, StateOK, DaemonOK
<1>4. WalkOK(s) /\ TaskOK(s) /\ Delivering(s) /\ MaxResults(s)' = MaxResults(s)
  BY <1>1 DEF IInv, WalksOK, MaxResults
<1>5. WalkOK(s)'
  BY <1>1, <1>3, <1>4 DEF WalkOK, Full
<1>6. TaskOK(s)'
  BY <1>1, <1>3, <1>4 DEF TaskOK, Full, WalkEnded, Walking, HasPermit
<1>7. Delivering(s)'
  BY <1>1, <1>3, <1>4 DEF Delivering, Heard, Told, Got, OnItsWay
<1>8. /\ \A r \in Searches \ {s} : /\ walker'[r] = walker[r] /\ found'[r] = found[r]
                                  /\ batch'[r] = batch[r] /\ chan'[r] = chan[r]
      /\ found[s] <= found'[s]
  BY <1>3 DEF IInv, StateOK, DaemonOK
<1>9. QED
  BY <1>2, <1>3, <1>5, <1>6, <1>7, <1>8, WalkFrame

\* The walker sends its batch.
LEMMA WalkerSends ==
  ASSUME IInv, NEW s \in Searches, NEW w \in {"walk", "last", "ended"}, Walking(s), WalkerUnchanged,
         Receiving(s), Len(chan[s]) < CHANNEL, UNCHANGED found,
         chan' = [chan EXCEPT ![s] = Append(@, batch[s])], batch' = [batch EXCEPT ![s] = {}],
         walker' = [walker EXCEPT ![s] = w],
         w # "walk" => Full(s), w = "walk" => found[s] < MaxResults(s)
  PROVE  IInv'
<1>1. UNCHANGED <<alive, stdin, out, stalled, task, token, sending, filter, hits, quickId, results, owner, total, bcbs>>
  BY DEF WalkerUnchanged, wireVars, taskVars, filterVars, quickVars, startVars
<1> DEFINE c == Append(chan[s], batch[s])
<1>2. chan[s] \in Seq(SUBSET Nat) /\ batch[s] \in SUBSET Nat
  BY DEF IInv, StateOK, DaemonOK
<1>3. /\ c \in Seq(SUBSET Nat) /\ Len(c) = Len(chan[s]) + 1 /\ Len(chan[s]) \in Nat
      /\ \A i \in 1..Len(chan[s]) : c[i] = chan[s][i]
      /\ c[Len(chan[s]) + 1] = batch[s]
  BY <1>2, AppendProperties, LenProperties
<1>4. walker'[s] = w /\ found'[s] = found[s] /\ batch'[s] = {} /\ chan'[s] = c
  BY DEF IInv, StateOK, DaemonOK
<1> HIDE DEF c
<1>5. /\ \A r \in Searches \ {s} : /\ walker'[r] = walker[r] /\ found'[r] = found[r]
                                  /\ batch'[r] = batch[r] /\ chan'[r] = chan[r]
      /\ found[s] <= found'[s]
  BY <1>4 DEF IInv, StateOK, DaemonOK
<1>6. DaemonOK'
  <2>1. chan' \in [Searches -> Seq(SUBSET Nat)]
    BY <1>3 DEF IInv, StateOK, DaemonOK, c
  <2>2. \A r \in Searches : Len(chan'[r]) <= CHANNEL
    BY <1>3, <1>4, <1>5, SearchAssumption DEF IInv, StateOK, DaemonOK
  <2>3. /\ walker' \in [Searches -> {"none", "start", "walk", "flush", "last", "ended", "failed"}]
        /\ batch' \in [Searches -> SUBSET Nat]
    BY DEF IInv, StateOK, DaemonOK
  <2>4. QED
    BY <1>1, <2>1, <2>2, <2>3 DEF IInv, StateOK, DaemonOK
<1>7. WalkOK(s) /\ TaskOK(s) /\ Delivering(s) /\ MaxResults(s)' = MaxResults(s)
  BY <1>1 DEF IInv, WalksOK, MaxResults
<1>8. WalkOK(s)'
  <2>1. ASSUME NEW i \in 1..Len(c) PROVE c[i] \subseteq 1..found[s]
    <3>1. batch[s] \subseteq 1..found[s] /\ \A k \in 1..Len(chan[s]) : chan[s][k] \subseteq 1..found[s]
      BY <1>7 DEF WalkOK
    <3>2. i \in 1..Len(chan[s]) \/ i = Len(chan[s]) + 1
      BY ONLY <1>3, <2>1
    <3>3. c[i] \in {batch[s], chan[s][i]} /\ (i \in 1..Len(chan[s]) \/ c[i] = batch[s])
      BY ONLY <1>3, <3>2
    <3>4. QED
      BY ONLY <3>1, <3>3, <1>3, <2>1
  <2>2. QED
    BY <1>1, <1>4, <1>7, <2>1 DEF WalkOK, Full
<1>9. TaskOK(s)'
  BY <1>1, <1>4, <1>7 DEF TaskOK, Full, WalkEnded, Walking, HasPermit, Receiving
<1>10. Delivering(s)'
  <2> SUFFICES ASSUME Heard(s), ~token[s], NEW n \in 1..found[s]
               PROVE  \/ \E i \in 1..Len(c) : n \in c[i]
                      \/ task[s] = "send" /\ n \in sending[s]
                      \/ Told(s, n)
    BY <1>1, <1>4 DEF Delivering, Heard, Told, Got, OnItsWay
  <2>1. \/ n \in batch[s] \/ (\E i \in 1..Len(chan[s]) : n \in chan[s][i])
        \/ task[s] = "send" /\ n \in sending[s]
        \/ Told(s, n)
    BY <1>7 DEF Delivering, Receiving
  <2>2. 1..Len(chan[s]) \subseteq 1..Len(c) /\ Len(chan[s]) + 1 \in 1..Len(c)
    BY <1>3
  <2>3. QED
    BY <1>3, <2>1, <2>2
<1>11. QED
  BY <1>4, <1>5, <1>6, <1>8, <1>9, <1>10, WalkFrame

LEMMA WalkStep == \A s \in Searches : IInv /\ Walk(s) => IInv'
<1> SUFFICES ASSUME IInv, NEW s \in Searches, Walk(s) PROVE IInv'
  OBVIOUS
<1>1. TaskOK(s) /\ WalkOK(s) /\ MaxResults(s) \in Nat \ {0} /\ found[s] \in Nat
  BY MaxType DEF IInv, WalksOK, StateOK, DaemonOK
<1>2. ASSUME Walking(s), ~Receiving(s), ~token[s] PROVE task[s] \notin {"recv", "send", "join", "done"}
  BY <1>1, <1>2 DEF TaskOK, Receiving, Walking, WalkEnded
<1>3. CASE WalkCancelled(s)
  BY <1>3, WalkerGoes DEF WalkCancelled, Walking
<1>4. CASE WalkExhausted(s)
  BY <1>4, WalkerGoes DEF WalkExhausted, Walking, Full
<1>5. CASE Flush(s)
  <2>1. Walking(s) /\ WalkerUnchanged /\ UNCHANGED found
    BY <1>5 DEF Flush, Walking
  <2>2. CASE /\ Receiving(s) /\ Len(chan[s]) < CHANNEL
             /\ chan' = [chan EXCEPT ![s] = Append(@, batch[s])]
             /\ walker' = [walker EXCEPT ![s] = IF found[s] >= MaxResults(s) THEN "last" ELSE "walk"]
             /\ batch' = [batch EXCEPT ![s] = {}]
    <3>1. CASE found[s] >= MaxResults(s)
      <4>1. Full(s)
        BY <1>1, <3>1 DEF WalkOK, Full
      <4>2. QED
        BY <2>1, <2>2, <3>1, <4>1, WalkerSends
    <3>2. CASE ~(found[s] >= MaxResults(s))
      <4>1. found[s] < MaxResults(s)
        BY <1>1, <3>2
      <4>2. QED
        BY <2>1, <2>2, <3>2, <4>1, WalkerSends
    <3>3. QED
      BY <3>1, <3>2
  <2>3. CASE ~Receiving(s) /\ walker' = [walker EXCEPT ![s] = "ended"] /\ UNCHANGED <<chan, batch>>
    BY <1>2, <2>1, <2>3, WalkerGoes
  <2>4. QED
    BY <1>5, <2>2, <2>3 DEF Flush
<1>6. CASE FlushLast(s)
  <2>1. Walking(s) /\ WalkerUnchanged /\ UNCHANGED found /\ Full(s) /\ walker' = [walker EXCEPT ![s] = "ended"]
    BY <1>1, <1>6 DEF FlushLast, Walking, WalkOK
  <2>2. CASE (batch[s] = {} \/ ~Receiving(s)) /\ UNCHANGED <<chan, batch>>
    BY <1>2, <2>1, <2>2, WalkerGoes
  <2>3. CASE /\ Receiving(s) /\ Len(chan[s]) < CHANNEL
             /\ chan' = [chan EXCEPT ![s] = Append(@, batch[s])]
             /\ batch' = [batch EXCEPT ![s] = {}]
    BY <2>1, <2>3, WalkerSends
  <2>4. QED
    BY <1>6, <2>2, <2>3 DEF FlushLast
<1>7. QED
  BY <1>3, <1>4, <1>5, <1>6, WalkStepStart, WalkStepMatch DEF Walk

----------------------------------------------------------------------------
(* The task.                                                               *)

LEMMA FewerPermits == PermitsBounded /\ Permits' \subseteq Permits => PermitsBounded'
<1> SUFFICES ASSUME PermitsBounded, Permits' \subseteq Permits PROVE PermitsBounded'
  OBVIOUS
<1>1. IsFiniteSet(Searches) /\ Permits \subseteq Searches
  BY FS_Interval, SearchAssumption DEF Searches, Permits
<1>2. IsFiniteSet(Permits)
  BY <1>1, FS_Subset
<1>3. Cardinality(Permits') <= Cardinality(Permits) /\ IsFiniteSet(Permits')
  BY <1>2, FS_Subset
<1>4. Cardinality(Permits') \in Nat /\ Cardinality(Permits) \in Nat
  BY <1>2, <1>3, FS_CardinalityType
<1>5. QED
  BY <1>3, <1>4, SearchAssumption DEF PermitsBounded

\* What of the way out a step of the task of s leaves as it was.
OutGrows(s) ==
  /\ \A i \in 1..Len(out) : i \in 1..Len(out') /\ out'[i] = out[i]
  /\ \A i \in 1..Len(out') : i \in 1..Len(out) \/ out'[i].id = s

LEMMA TaskFrame ==
  ASSUME IInv, NEW s \in Searches, TaskUnchanged, UNCHANGED <<found, batch>>,
         DaemonOK', FlagsOK', stalled => stalled',
         \A r \in Searches \ {s} : /\ walker'[r] = walker[r] /\ chan'[r] = chan[r]
                                   /\ sending'[r] = sending[r] /\ task'[r] = task[r],
         task[s] # "none", task'[s] # "none",
         WalkOK(s)', TaskOK(s)', Delivering(s)', PermitsBounded', OutOK', Delivered', OutGrows(s)
  PROVE  IInv'
<1>1. UNCHANGED <<alive, stdin, token, filter, hits, answered, orphaned,
                  quickId, results, quickfix, owner, total, bcbs>>
  BY DEF TaskUnchanged, filterVars, quickVars, startVars
<1>2. StateOK'
  BY <1>1 DEF IInv, StateOK, FrontendOK
<1>3. IdsOK'
  <2>1. Numbered'
    BY <1>1 DEF IInv, IdsOK, Numbered
  <2>2. stdin \in Seq(Requests)
    BY DEF IInv, StateOK, FrontendOK
  <2>3. \A i \in 1..Len(stdin) : stdin[i].id \in Searches
    BY <2>2, RequestTypes
  <2>4. AskedOnce'
    BY <1>1, <2>3 DEF IInv, IdsOK, AskedOnce
  <2>5. ASSUME NEW r \in Searches, owner[r] = "none" PROVE Unborn(r)'
    <3>1. Unborn(r) /\ r # s
      BY <2>5 DEF IInv, IdsOK, Unborn
    <3>2. \A i \in 1..Len(out') : out'[i].id # r
      BY <3>1 DEF OutGrows, Unborn
    <3>3. QED
      BY <1>1, <3>1, <3>2 DEF Unborn
  <2>6. QED
    BY <1>1, <2>1, <2>4, <2>5 DEF IdsOK
<1>4. \A r \in Searches : MaxResults(r)' = MaxResults(r)
  BY <1>1 DEF MaxResults
<1>5. ASSUME NEW r \in Searches, r # s PROVE WalkOK(r)' /\ TaskOK(r)' /\ Delivering(r)'
  <2>1. WalkOK(r) /\ TaskOK(r) /\ Delivering(r)
    BY DEF IInv, WalksOK
  <2>2. /\ walker'[r] = walker[r] /\ chan'[r] = chan[r]
        /\ sending'[r] = sending[r] /\ task'[r] = task[r]
    BY <1>5
  <2>3. WalkOK(r)' /\ TaskOK(r)'
    <3>1. WalkOK(r)'
      BY <1>1, <1>4, <2>1, <2>2 DEF WalkOK, Full
    <3>2. TaskOK(r)'
      BY <1>1, <1>4, <2>1, <2>2 DEF TaskOK, Full, WalkEnded, Walking, HasPermit
    <3>3. QED
      BY <3>1, <3>2
  <2>4. \A n \in 1..found[r] : Told(r, n) => Told(r, n)'
    BY <1>1 DEF OutGrows, Told, Got, OnItsWay
  <2>5. Delivering(r)'
    BY <1>1, <2>1, <2>2, <2>4 DEF Delivering, Heard
  <2>6. QED
    BY <2>3, <2>5
<1>6. WalksOK'
  BY <1>5 DEF WalksOK
<1>7. ShownOK'
  BY <1>1 DEF IInv, ShownOK
<1>8. QED
  BY <1>2, <1>3, <1>6, <1>7 DEF IInv

\* The task goes on and sends nothing.
LEMMA TaskQuiet ==
  ASSUME IInv, NEW s \in Searches, TaskUnchanged, UNCHANGED <<found, batch, out>>,
         DaemonOK', FlagsOK', stalled => stalled',
         \A r \in Searches \ {s} : /\ walker'[r] = walker[r] /\ chan'[r] = chan[r]
                                   /\ sending'[r] = sending[r] /\ task'[r] = task[r],
         task[s] \notin {"none", "over"}, task'[s] # "none",
         WalkOK(s)', TaskOK(s)', Delivering(s)', PermitsBounded'
  PROVE  IInv'
<1>1. UNCHANGED <<filter, hits, quickId, results, owner, total, bcbs>>
  BY DEF TaskUnchanged, filterVars, quickVars, startVars
<1>2. OutGrows(s)
  BY DEF OutGrows
<1>3. OutOK'
  <2> SUFFICES ASSUME NEW i \in 1..Len(out), NEW r \in Searches, r = out[i].id
               PROVE  /\ out[i].items \subseteq 1..found[r]
                      /\ out[i].kind # "chunk" => /\ out[i].items = {} /\ task'[r] = "over"
                                                 /\ \A j \in 1..Len(out) : j > i => out[j].id # r
                      /\ out[i].kind = "done" => Full(r)'
    BY EventTypes DEF OutOK, IInv, StateOK, DaemonOK
  <2>1. /\ out[i].items \subseteq 1..found[r]
        /\ out[i].kind # "chunk" => /\ out[i].items = {} /\ task[r] = "over"
                                   /\ \A j \in 1..Len(out) : j > i => out[j].id # r
        /\ out[i].kind = "done" => Full(r)
    BY DEF IInv, OutOK
  <2>2. Full(r) => Full(r)'
    BY <1>1 DEF Full, MaxResults
  <2>3. QED
    BY <2>1, <2>2
<1>4. Delivered'
  BY <1>1 DEF IInv, Delivered, Heard, Told, Got, OnItsWay
<1>5. QED
  BY <1>2, <1>3, <1>4, TaskFrame

\* The task sends an event.
LEMMA TaskSends ==
  ASSUME IInv, NEW s \in Searches, NEW kind \in {"chunk", "done", "error"}, NEW items \in SUBSET Nat,
         NEW e, e = [id |-> s, kind |-> kind, items |-> items],
         TaskUnchanged, UNCHANGED <<found, batch, walker, chan, stalled>>,
         Len(out) < Capacity, out' = Append(out, e),
         NEW t \in {"recv", "over"}, task' = [task EXCEPT ![s] = t],
         sending' = [sending EXCEPT ![s] = IF kind = "chunk" THEN {} ELSE @],
         task[s] \notin {"none", "permit", "over"}, items \subseteq 1..found[s],
         kind = "chunk" <=> t = "recv", kind # "chunk" => items = {}, kind = "done" => Full(s),
         kind = "done" /\ Heard(s) => \A n \in 1..found[s] : Told(s, n),
         WalkOK(s)', TaskOK(s)', Delivering(s)', PermitsBounded'
  PROVE  IInv'
<1>1. UNCHANGED <<alive, token, orphaned, filter, hits, quickId, results, owner, total, bcbs>>
  BY DEF TaskUnchanged, filterVars, quickVars, startVars
<1>2. out \in Seq(Events) /\ e \in Events
  BY DEF Events, IInv, StateOK, DaemonOK
<1>3. /\ out' \in Seq(Events) /\ Len(out') = Len(out) + 1 /\ Len(out) \in Nat
      /\ \A i \in 1..Len(out) : out'[i] = out[i]
      /\ out'[Len(out) + 1] = e
  BY <1>2, AppendProperties, LenProperties
<1>4. e.id = s /\ e.kind = kind /\ e.items = items
  OBVIOUS
<1>5. OutGrows(s)
  BY <1>3, <1>4 DEF OutGrows
<1>6. DaemonOK'
  BY <1>3, SearchAssumption DEF IInv, StateOK, DaemonOK
<1>7. FlagsOK'
  BY <1>1, Zenon DEF IInv, StateOK, FlagsOK
<1>8. \A r \in Searches : task'[r] = IF r = s THEN t ELSE task[r]
  BY DEF IInv, StateOK, DaemonOK
<1>9. \A r \in Searches : Full(r)' <=> Full(r)
  BY <1>1 DEF Full, MaxResults
<1>10. \A i \in 1..Len(out) : out[i].id = s => out[i].kind = "chunk"
  BY DEF IInv, OutOK
<1>11. OutOK'
  <2>1. ASSUME NEW i \in 1..Len(out'), NEW r \in Searches, r = out'[i].id
        PROVE  /\ out'[i].items \subseteq 1..found[r]
               /\ out'[i].kind # "chunk" => /\ out'[i].items = {} /\ task'[r] = "over"
                                           /\ \A j \in 1..Len(out') : j > i => out'[j].id # r
               /\ out'[i].kind = "done" => Full(r)
    <3>1. CASE i = Len(out) + 1
      BY <1>3, <1>4, <1>8, <2>1, <3>1
    <3>2. CASE i \in 1..Len(out)
      <4>1. out'[i] = out[i]
        BY <1>3, <3>2
      <4>2. /\ out[i].items \subseteq 1..found[r]
            /\ out[i].kind # "chunk" => /\ out[i].items = {} /\ task[r] = "over" /\ r # s
                                       /\ \A j \in 1..Len(out) : j > i => out[j].id # r
            /\ out[i].kind = "done" => Full(r)
        BY <1>10, <2>1, <3>2, <4>1 DEF IInv, OutOK
      <4>3. \A j \in 1..Len(out') : j \in 1..Len(out) \/ out'[j].id = s
        BY <1>5 DEF OutGrows
      <4>4. QED
        BY <1>3, <1>8, <4>1, <4>2, <4>3
    <3>3. QED
      BY <1>3, <3>1, <3>2
  <2>2. \A i \in 1..Len(out') : out'[i].id \in Searches
    BY <1>3, EventTypes
  <2>3. QED
    BY <1>9, <2>1, <2>2 DEF OutOK
<1>12. Delivered'
  <2> SUFFICES ASSUME NEW i \in 1..Len(out'), NEW r \in Searches, r = out'[i].id,
                      out'[i].kind = "done", Heard(r), NEW n \in 1..found[r]
               PROVE  Told(r, n)'
    <3>1. \A i \in 1..Len(out') : out'[i].id \in Searches
      BY <1>3, EventTypes
    <3>2. QED
      BY <1>1, <3>1 DEF Delivered, Heard
  <2>1. Told(r, n)
    <3>1. CASE i = Len(out) + 1
      BY <1>3, <1>4, <3>1
    <3>2. CASE i \in 1..Len(out)
      BY <1>3, <3>2 DEF IInv, Delivered
    <3>3. QED
      BY <1>3, <3>1, <3>2
  <2>2. QED
    BY <1>1, <1>5, <2>1 DEF OutGrows, Told, Got, OnItsWay
<1>13. /\ \A r \in Searches \ {s} : /\ walker'[r] = walker[r] /\ chan'[r] = chan[r]
                                  /\ sending'[r] = sending[r] /\ task'[r] = task[r]
       /\ task[s] # "none" /\ task'[s] # "none" /\ (stalled => stalled')
  BY <1>8 DEF IInv, StateOK, DaemonOK
<1>14. QED
  BY <1>5, <1>6, <1>7, <1>11, <1>12, <1>13, TaskFrame

\* The task moves on alone.
LEMMA TaskGoes ==
  ASSUME IInv, NEW s \in Searches, NEW t \in {"join", "over", "error", "done"}, task[s] \notin {"none", "over"},
         TaskUnchanged, UNCHANGED <<found, batch, walker, chan, out>>, stalled' \in BOOLEAN, stalled => stalled',
         task' = [task EXCEPT ![s] = t],
         sending' = sending \/ sending' = [sending EXCEPT ![s] = {}],
         t = "done" => task[s] = "join" /\ WalkEnded(s) /\ walker[s] = "ended" /\ ~token[s],
         t = "error" => task[s] = "join" /\ WalkEnded(s),
         t = "join" => task[s] = "send" /\ token[s],
         t = "over" => task[s] \in {"permit", "done", "error"} \/ WalkEnded(s) \/ stalled'
  PROVE  IInv'
<1>1. UNCHANGED <<alive, token, orphaned, filter, hits, quickId, results, owner, total, bcbs>>
  BY DEF TaskUnchanged, filterVars, quickVars, startVars
<1>2. DaemonOK'
  <2>1. sending' \in [Searches -> SUBSET Nat]
    BY DEF IInv, StateOK, DaemonOK
  <2>2. QED
    BY <2>1 DEF IInv, StateOK, DaemonOK
<1>3. FlagsOK'
  BY <1>1, Zenon DEF IInv, StateOK, FlagsOK
<1>4. /\ task'[s] = t /\ sending'[s] \in {sending[s], {}}
      /\ \A r \in Searches \ {s} : /\ walker'[r] = walker[r] /\ chan'[r] = chan[r]
                                /\ sending'[r] = sending[r] /\ task'[r] = task[r]
  BY DEF IInv, StateOK, DaemonOK
<1>5. WalkOK(s) /\ TaskOK(s) /\ Delivering(s) /\ MaxResults(s)' = MaxResults(s)
  BY <1>1 DEF IInv, WalksOK, MaxResults
<1>6. WalkOK(s)'
  BY <1>1, <1>4, <1>5 DEF WalkOK, Full
<1>7. TaskOK(s)'
  <2>1. t = "over" => stalled' \/ ~Walking(s)
    BY <1>5 DEF TaskOK, Walking, WalkEnded
  <2>2. ~stalled' /\ Walking(s) => t \in {"join", "done"}
    BY <2>1 DEF Walking, WalkEnded
  <2>3. QED
    BY <1>1, <1>4, <1>5, <2>2 DEF TaskOK, Full, WalkEnded, Walking, HasPermit
<1>8. Delivering(s)'
  BY <1>1, <1>4, <1>5 DEF Delivering, Heard, Told, Got, OnItsWay
<1>9. PermitsBounded'
  <2>1. Permits' \subseteq Permits
    BY <1>4 DEF Permits, HasPermit
  <2>2. QED
    BY <2>1, FewerPermits DEF IInv
<1>10. QED
  BY <1>2, <1>3, <1>4, <1>6, <1>7, <1>8, <1>9, TaskQuiet

LEMMA TakePermitStep == \A s \in Searches : IInv /\ TakePermit(s) => IInv'
<1> SUFFICES ASSUME IInv, NEW s \in Searches, TakePermit(s) PROVE IInv'
  OBVIOUS
<1>1. /\ task[s] = "permit" /\ ~token[s] /\ Cardinality(Permits) < MAX_CONCURRENT_SCANS
      /\ task' = [task EXCEPT ![s] = "recv"] /\ walker' = [walker EXCEPT ![s] = "start"]
      /\ TaskUnchanged /\ UNCHANGED <<out, stalled, sending, found, batch, chan>>
  BY DEF TakePermit, GoTo, Permits
<1>2. UNCHANGED <<alive, token, orphaned, filter, hits, quickId, results, owner, total, bcbs>>
  BY <1>1 DEF TaskUnchanged, filterVars, quickVars, startVars
<1>3. DaemonOK'
  BY <1>1 DEF IInv, StateOK, DaemonOK
<1>4. FlagsOK'
  BY <1>1, <1>2, Zenon DEF IInv, StateOK, FlagsOK
<1>5. /\ task'[s] = "recv" /\ walker'[s] = "start"
      /\ \A r \in Searches \ {s} : /\ walker'[r] = walker[r] /\ chan'[r] = chan[r]
                                /\ sending'[r] = sending[r] /\ task'[r] = task[r]
  BY <1>1 DEF IInv, StateOK, DaemonOK
<1>6. WalkOK(s) /\ TaskOK(s) /\ MaxResults(s)' = MaxResults(s)
  BY <1>2 DEF IInv, WalksOK, MaxResults
<1>7. found[s] = 0
  BY <1>1, <1>6 DEF WalkOK, TaskOK
<1>8. WalkOK(s)'
  BY <1>1, <1>2, <1>5, <1>6, <1>7 DEF WalkOK, Full
<1>9. TaskOK(s)'
  BY <1>5 DEF TaskOK, WalkEnded, Walking, HasPermit
<1>10. Delivering(s)'
  BY <1>1, <1>7 DEF Delivering
<1>11. PermitsBounded'
  <2>1. Permits' = Permits \cup {s}
    BY <1>5 DEF Permits, HasPermit
  <2>2. IsFiniteSet(Searches) /\ Permits \subseteq Searches
    BY FS_Interval, SearchAssumption DEF Searches, Permits
  <2>3. IsFiniteSet(Permits) /\ Cardinality(Permits) \in Nat
    BY <2>2, FS_Subset, FS_CardinalityType
  <2>4. Cardinality(Permits') <= Cardinality(Permits) + 1
    <3>1. Cardinality(Permits \cup {s}) = IF s \in Permits THEN Cardinality(Permits) ELSE Cardinality(Permits) + 1
      BY <2>3, FS_AddElement
    <3>2. Cardinality(Permits \cup {s}) <= Cardinality(Permits) + 1
      BY <2>3, <3>1
    <3>3. QED
      BY <2>1, <3>2
  <2>5. Cardinality(Permits') \in Nat
    BY <2>1, <2>3, FS_AddElement, FS_CardinalityType
  <2>6. QED
    BY <1>1, <2>3, <2>4, <2>5, SearchAssumption DEF PermitsBounded
<1>12. QED
  BY <1>1, <1>3, <1>4, <1>5, <1>8, <1>9, <1>10, <1>11, TaskQuiet

\* A batch goes from the channel to the task, or the channel is closed.
LEMMA RecvStep == \A s \in Searches : IInv /\ Recv(s) => IInv'
<1> SUFFICES ASSUME IInv, NEW s \in Searches, Recv(s) PROVE IInv'
  OBVIOUS
<1>1. task[s] = "recv" /\ TaskUnchanged /\ UNCHANGED <<out, stalled, walker, found, batch>>
  BY DEF Recv, walkVars
<1>2. UNCHANGED <<alive, token, orphaned, filter, hits, quickId, results, owner, total, bcbs>>
  BY <1>1 DEF TaskUnchanged, filterVars, quickVars, startVars
<1>3. FlagsOK'
  BY <1>1, <1>2, Zenon DEF IInv, StateOK, FlagsOK
<1>4. WalkOK(s) /\ TaskOK(s) /\ Delivering(s) /\ MaxResults(s)' = MaxResults(s)
  BY <1>2 DEF IInv, WalksOK, MaxResults
<1>5. PICK t \in {"send", "join"} : task' = [task EXCEPT ![s] = t]
  BY DEF Recv, GoTo
<1>6. PermitsBounded'
  <2>1. Permits' \subseteq Permits
    BY <1>1, <1>5 DEF Permits, HasPermit, IInv, StateOK, DaemonOK
  <2>2. QED
    BY <2>1, FewerPermits DEF IInv
<1>7. task'[s] = t
  BY <1>5 DEF IInv, StateOK, DaemonOK
<1>8. CASE chan[s] # <<>> /\ chan' = [chan EXCEPT ![s] = Tail(@)]
           /\ sending' = [sending EXCEPT ![s] = Head(chan[s])] /\ t = "send"
  <2> DEFINE c == Tail(chan[s])
             h == Head(chan[s])
  <2>1. chan[s] \in Seq(SUBSET Nat)
    BY DEF IInv, StateOK, DaemonOK
  <2>2. /\ h \in SUBSET Nat /\ c \in Seq(SUBSET Nat) /\ Len(chan[s]) \in Nat \ {0} /\ Len(c) = Len(chan[s]) - 1
        /\ \A i \in 1..Len(c) : c[i] = chan[s][i + 1]
        /\ h = chan[s][1]
    BY <1>8, <2>1, HeadTailProperties, EmptySeq
  <2>3. /\ chan'[s] = c /\ sending'[s] = h
        /\ \A r \in Searches \ {s} : /\ walker'[r] = walker[r] /\ chan'[r] = chan[r]
                                  /\ sending'[r] = sending[r] /\ task'[r] = task[r]
    BY <1>1, <1>5, <1>8 DEF IInv, StateOK, DaemonOK
  <2> HIDE DEF c, h
  <2>4. DaemonOK'
    <3>1. chan' \in [Searches -> Seq(SUBSET Nat)] /\ sending' \in [Searches -> SUBSET Nat]
      BY <1>8, <2>2 DEF IInv, StateOK, DaemonOK, c, h
    <3>2. \A r \in Searches : Len(chan'[r]) <= CHANNEL
      <4>1. CHANNEL \in Nat /\ \A r \in Searches : Len(chan[r]) <= CHANNEL
        BY SearchAssumption DEF IInv, StateOK, DaemonOK
      <4>2. Len(chan'[s]) <= CHANNEL
        BY <2>2, <2>3, <4>1
      <4>3. QED
        BY <2>3, <4>1, <4>2
    <3>3. QED
      BY <1>1, <1>5, <3>1, <3>2 DEF IInv, StateOK, DaemonOK
  <2>5. WalkOK(s)'
    <3>1. h \subseteq 1..found[s] /\ \A i \in 1..Len(c) : c[i] \subseteq 1..found[s]
      <4>1. \A i \in 1..Len(chan[s]) : chan[s][i] \subseteq 1..found[s]
        BY <1>4 DEF WalkOK
      <4>2. 1 \in 1..Len(chan[s]) /\ \A i \in 1..Len(c) : i + 1 \in 1..Len(chan[s])
        BY <2>2
      <4>3. QED
        BY <2>2, <4>1, <4>2
    <3>2. QED
      BY <1>1, <1>2, <1>4, <2>3, <3>1 DEF WalkOK, Full
  <2>6. TaskOK(s)'
    BY <1>1, <1>2, <1>4, <1>7, <1>8 DEF TaskOK, Full, WalkEnded, Walking, HasPermit
  <2>7. Delivering(s)'
    <3> SUFFICES ASSUME Heard(s), ~token[s], NEW n \in 1..found[s]
                 PROVE  \/ n \in batch[s] \/ (\E i \in 1..Len(c) : n \in c[i])
                        \/ n \in h \/ Told(s, n)
      BY <1>1, <1>2, <1>7, <1>8, <2>3 DEF Delivering, Heard, Told, Got, OnItsWay
    <3>1. \/ n \in batch[s] \/ (\E i \in 1..Len(chan[s]) : n \in chan[s][i]) \/ Told(s, n)
      BY <1>1, <1>4 DEF Delivering
    <3>2. ASSUME NEW i \in 1..Len(chan[s]), n \in chan[s][i] PROVE n \in h \/ \E k \in 1..Len(c) : n \in c[k]
      <4>1. CASE i = 1
        BY <2>2, <3>2, <4>1
      <4>2. CASE i # 1
        <5>1. i - 1 \in 1..Len(c) /\ (i - 1) + 1 = i
          BY <2>2, <4>2
        <5>2. n \in c[i - 1]
          BY <2>2, <3>2, <5>1
        <5>3. QED
          BY <5>1, <5>2
      <4>3. QED
        BY <4>1, <4>2
    <3>3. QED
      BY <3>1, <3>2
  <2>8. QED
    BY <1>1, <1>3, <1>6, <1>7, <2>3, <2>4, <2>5, <2>6, <2>7, TaskQuiet
<1>9. CASE chan[s] = <<>> /\ WalkEnded(s) /\ t = "join" /\ UNCHANGED <<chan, sending>>
  <2>1. DaemonOK'
    BY <1>1, <1>5, <1>9 DEF IInv, StateOK, DaemonOK
  <2>2. WalkOK(s)'
    BY <1>1, <1>2, <1>4, <1>9 DEF WalkOK, Full
  <2>3. TaskOK(s)'
    BY <1>1, <1>2, <1>4, <1>7, <1>9 DEF TaskOK, Full, WalkEnded, Walking, HasPermit
  <2>4. Delivering(s)'
    BY <1>1, <1>2, <1>4, <1>7, <1>9 DEF Delivering, Heard, Told, Got, OnItsWay
  <2>5. \A r \in Searches \ {s} : /\ walker'[r] = walker[r] /\ chan'[r] = chan[r]
                                 /\ sending'[r] = sending[r] /\ task'[r] = task[r]
    BY <1>1, <1>5, <1>9 DEF IInv, StateOK, DaemonOK
  <2>6. QED
    BY <1>1, <1>3, <1>6, <1>7, <2>1, <2>2, <2>3, <2>4, <2>5, TaskQuiet
<1>10. QED
  <2>1. CASE chan[s] # <<>> /\ sending' = [sending EXCEPT ![s] = Head(chan[s])]
             /\ chan' = [chan EXCEPT ![s] = Tail(@)] /\ GoTo(s, "send")
    <3>1. task'[s] = "send"
      BY <2>1 DEF GoTo, IInv, StateOK, DaemonOK
    <3>2. QED
      BY <1>7, <1>8, <2>1, <3>1
  <2>2. CASE chan[s] = <<>> /\ WalkEnded(s) /\ GoTo(s, "join") /\ UNCHANGED <<chan, sending>>
    <3>1. task'[s] = "join"
      BY <2>2 DEF GoTo, IInv, StateOK, DaemonOK
    <3>2. QED
      BY <1>7, <1>9, <2>2, <3>1
  <2>3. QED
    BY <2>1, <2>2 DEF Recv

LEMMA PermitCancelledStep == \A s \in Searches : IInv /\ PermitCancelled(s) => IInv'
<1> SUFFICES ASSUME IInv, NEW s \in Searches, PermitCancelled(s) PROVE IInv'
  OBVIOUS
<1>1. task[s] = "permit" /\ task' = [task EXCEPT ![s] = "over"] /\ TaskUnchanged
      /\ UNCHANGED <<out, stalled, sending, found, batch, walker, chan>>
  BY DEF PermitCancelled, GoTo, walkVars
<1>2. stalled' \in BOOLEAN /\ (stalled => stalled')
  BY <1>1, Zenon DEF IInv, StateOK, FlagsOK
<1>3. QED
  BY <1>1, <1>2, TaskGoes

LEMMA JoinStep == \A s \in Searches : IInv /\ Join(s) => IInv'
<1> SUFFICES ASSUME IInv, NEW s \in Searches, Join(s) PROVE IInv'
  OBVIOUS
<1> DEFINE t == IF token[s] THEN "over" ELSE IF walker[s] = "failed" THEN "error" ELSE "done"
<1>1. task[s] = "join" /\ WalkEnded(s) /\ task' = [task EXCEPT ![s] = t] /\ TaskUnchanged
      /\ UNCHANGED <<out, stalled, sending, found, batch, walker, chan>>
  BY DEF Join, GoTo, walkVars
<1>2. stalled' \in BOOLEAN /\ (stalled => stalled')
  BY <1>1, Zenon DEF IInv, StateOK, FlagsOK
<1>3. t \in {"over", "error", "done"} /\ (t = "done" => ~token[s] /\ walker[s] = "ended")
  BY <1>1 DEF WalkEnded
<1> HIDE DEF t
<1>4. QED
  BY <1>1, <1>2, <1>3, TaskGoes

\* Every sending step of the task: it is cancelled, meets or causes the stall
\* of the output path, or sends.
LEMMA SendStep ==
  ASSUME IInv, NEW s \in Searches, NEW kind \in {"chunk", "done", "error"}, NEW items \in SUBSET Nat,
         NEW sent \in {"recv", "over"}, NEW cancelled \in {"join", "over"},
         SendUnlessCancelled(s, kind, items, sent, cancelled),
         TaskUnchanged, UNCHANGED <<walker, found, batch, chan>>,
         sending' = [sending EXCEPT ![s] = IF kind = "chunk" THEN {} ELSE @],
         task[s] = CASE kind = "chunk" -> "send" [] kind = "done" -> "done" [] kind = "error" -> "error",
         kind = "chunk" <=> sent = "recv", kind = "chunk" <=> cancelled = "join",
         items = IF kind = "chunk" THEN sending[s] ELSE {}
  PROVE  IInv'
<1>1. UNCHANGED <<alive, token, orphaned, filter, hits, quickId, results, owner, total, bcbs>>
  BY DEF TaskUnchanged, filterVars, quickVars, startVars
<1>2. task[s] \in {"send", "done", "error"} /\ (kind = "chunk" <=> task[s] = "send") /\ (kind = "done" <=> task[s] = "done")
  OBVIOUS
<1>3. stalled \in BOOLEAN
  BY Zenon DEF IInv, StateOK, FlagsOK
<1>4. sending' = sending \/ sending' = [sending EXCEPT ![s] = {}]
  BY DEF IInv, StateOK, DaemonOK
<1>5. CASE token[s] /\ GoTo(s, cancelled) /\ UNCHANGED <<out, stalled>>
  <2>1. task' = [task EXCEPT ![s] = cancelled]
    BY <1>5 DEF GoTo
  <2>2. stalled' \in BOOLEAN /\ (stalled => stalled')
    BY <1>3, <1>5
  <2>3. QED
    BY <1>2, <1>4, <1>5, <2>1, <2>2, TaskGoes
<1>6. CASE GoTo(s, "over") /\ stalled' = TRUE /\ UNCHANGED out
  <2>1. task' = [task EXCEPT ![s] = "over"]
    BY <1>6 DEF GoTo
  <2>2. QED
    BY <1>2, <1>4, <1>6, <2>1, TaskGoes
<1>7. CASE /\ ~token[s] /\ ~stalled /\ Len(out) < Capacity
           /\ out' = Append(out, [id |-> s, kind |-> kind, items |-> items])
           /\ GoTo(s, sent) /\ UNCHANGED stalled
  <2>1. task' = [task EXCEPT ![s] = sent]
    BY <1>7 DEF GoTo
  <2>2. task'[s] = sent /\ sending'[s] = (IF kind = "chunk" THEN {} ELSE sending[s])
        /\ \A r \in Searches \ {s} : task'[r] = task[r]
    BY <2>1 DEF IInv, StateOK, DaemonOK
  <2>3. WalkOK(s) /\ TaskOK(s) /\ Delivering(s) /\ MaxResults(s)' = MaxResults(s)
    BY <1>1 DEF IInv, WalksOK, MaxResults
  <2>4. WalkOK(s)'
    BY <1>1, <2>2, <2>3 DEF WalkOK, Full
  <2>5. TaskOK(s)'
    BY <1>1, <1>2, <1>7, <2>2, <2>3 DEF TaskOK, Full, WalkEnded, Walking, HasPermit
  <2>6. PermitsBounded'
    <3>1. Permits' \subseteq Permits
      BY <1>2, <2>2 DEF Permits, HasPermit
    <3>2. QED
      BY <3>1, FewerPermits DEF IInv
  <2>7. items \subseteq 1..found[s]
    BY <2>3 DEF WalkOK
  <2>8. kind = "done" => Full(s) /\ batch[s] = {} /\ chan[s] = <<>>
    BY <1>2, <1>7, <2>3 DEF TaskOK
  <2>9. kind = "done" /\ Heard(s) => \A n \in 1..found[s] : Told(s, n)
    <3> SUFFICES ASSUME kind = "done", Heard(s), NEW n \in 1..found[s] PROVE Told(s, n)
      OBVIOUS
    <3>1. 1..Len(chan[s]) = {}
      BY <2>8
    <3>2. QED
      BY <1>2, <1>7, <2>3, <2>8, <3>1 DEF Delivering
  <2>10. Delivering(s)'
    <3> SUFFICES ASSUME Heard(s), sent = "recv", NEW n \in 1..found[s]
                 PROVE  \/ n \in batch[s] \/ (\E i \in 1..Len(chan[s]) : n \in chan[s][i])
                        \/ Told(s, n)'
      BY <1>1, <2>2 DEF Delivering, Heard
    <3>1. out \in Seq(Events) /\ [id |-> s, kind |-> kind, items |-> items] \in Events
      BY DEF Events, IInv, StateOK, DaemonOK
    <3>2. /\ Len(out') = Len(out) + 1 /\ Len(out) \in Nat
          /\ \A i \in 1..Len(out) : out'[i] = out[i]
          /\ out'[Len(out) + 1] = [id |-> s, kind |-> kind, items |-> items]
      BY <1>7, <3>1, AppendProperties, LenProperties
    <3>3. CASE n \in items
      <4>1. Len(out) + 1 \in 1..Len(out') /\ out'[Len(out) + 1].id = s /\ out'[Len(out) + 1].items = items
        BY <3>2
      <4>2. OnItsWay(s, n)'
        BY <3>3, <4>1 DEF OnItsWay
      <4>3. QED
        BY <4>2 DEF Told
    <3>4. CASE Told(s, n)
      <4>1. \A i \in 1..Len(out) : i \in 1..Len(out') /\ out'[i] = out[i]
        BY <3>2
      <4>2. QED
        BY <1>1, <3>4, <4>1 DEF Told, Got, OnItsWay
    <3>5. QED
      BY <1>2, <1>7, <2>3, <3>3, <3>4 DEF Delivering
  <2>11. task[s] \notin {"none", "permit", "over"} /\ UNCHANGED stalled /\ Len(out) < Capacity
         /\ out' = Append(out, [id |-> s, kind |-> kind, items |-> items])
    BY <1>2, <1>7
  <2>12. kind = "done" => Full(s)
    BY <2>8
  <2>13. QED
    BY <2>1, <2>4, <2>5, <2>6, <2>7, <2>9, <2>10, <2>11, <2>12, TaskSends
<1>8. QED
  BY <1>5, <1>6, <1>7 DEF SendUnlessCancelled

LEMMA TaskStep == \A s \in Searches : IInv /\ Task(s) => IInv'
<1> SUFFICES ASSUME IInv, NEW s \in Searches, Task(s) PROVE IInv'
  OBVIOUS
<1>1. sending \in [Searches -> SUBSET Nat]
  BY DEF IInv, StateOK, DaemonOK
<1>2. CASE SendChunk(s)
  <2>1. /\ task[s] = "send" /\ SendUnlessCancelled(s, "chunk", sending[s], "recv", "join")
        /\ sending' = [sending EXCEPT ![s] = {}] /\ TaskUnchanged /\ UNCHANGED <<walker, found, batch, chan>>
    BY <1>2 DEF SendChunk, walkVars
  <2>2. QED
    BY <1>1, <2>1, SendStep
<1>3. CASE SendDone(s)
  <2>1. /\ task[s] = "done" /\ SendUnlessCancelled(s, "done", {}, "over", "over")
        /\ sending' = [sending EXCEPT ![s] = @] /\ TaskUnchanged /\ UNCHANGED <<walker, found, batch, chan>>
    BY <1>1, <1>3 DEF SendDone, walkVars
  <2>2. QED
    BY <2>1, SendStep
<1>4. CASE SendError(s)
  <2>1. /\ task[s] = "error" /\ SendUnlessCancelled(s, "error", {}, "over", "over")
        /\ sending' = [sending EXCEPT ![s] = @] /\ TaskUnchanged /\ UNCHANGED <<walker, found, batch, chan>>
    BY <1>1, <1>4 DEF SendError, walkVars
  <2>2. QED
    BY <2>1, SendStep
<1>5. QED
  BY <1>2, <1>3, <1>4, TakePermitStep, PermitCancelledStep, RecvStep, JoinStep DEF Task

\* The request loop takes a line.
LEMMA AcceptStep == IInv /\ Accept => IInv'
<1> SUFFICES ASSUME IInv, Accept PROVE IInv'
  OBVIOUS
<1> DEFINE req == Head(stdin)
<1>1. stdin \in Seq(Requests) /\ stdin # <<>> /\ stdin' = Tail(stdin)
  BY DEF Accept, IInv, StateOK, FrontendOK
<1>2. /\ stdin' \in Seq(Requests) /\ Len(stdin) \in Nat \ {0} /\ Len(stdin') = Len(stdin) - 1
      /\ req = stdin[1] /\ \A i \in 1..Len(stdin') : stdin'[i] = stdin[i + 1]
  BY <1>1, HeadTailProperties, EmptySeq
<1>3. 1 \in 1..Len(stdin) /\ \A i \in 1..Len(stdin') : i + 1 \in 1..Len(stdin)
  BY <1>2
<1>4. req.id \in Searches /\ \A i \in 1..Len(stdin) : stdin[i].id \in Searches
  BY <1>1, <1>2, <1>3, RequestTypes
<1> HIDE DEF req
<1>5. UNCHANGED <<alive, out, stalled, sending, walker, found, batch, chan, filter, hits, answered, orphaned,
                  quickId, results, quickfix, owner, total, bcbs>>
  BY DEF Accept, walkVars, filterVars, quickVars, startVars
<1>6. FrontendOK'
  BY <1>2, <1>5 DEF IInv, StateOK, FrontendOK
<1>7. \A r \in Searches : MaxResults(r)' = MaxResults(r)
  BY <1>5 DEF MaxResults
<1>8. ShownOK'
  BY <1>5 DEF IInv, ShownOK
<1>9. \A r \in Searches : \A n \in 1..found[r] : (Heard(r)' <=> Heard(r)) /\ (Told(r, n)' <=> Told(r, n))
  BY <1>5 DEF Heard, Told, Got, OnItsWay
<1>10. Delivered'
  BY <1>5 DEF IInv, Delivered, Heard, Told, Got, OnItsWay
<1>11. Numbered'
  BY <1>5 DEF IInv, IdsOK, Numbered
<1>12. \A r \in Searches : owner[r] = "none" => Unborn(r) /\ r # req.id
  BY <1>2, <1>3 DEF IInv, IdsOK, Unborn
<1>13. \A r \in Searches : WalkOK(r)'
  BY <1>5, <1>7 DEF IInv, WalksOK, WalkOK, Full
<1>14. \A i \in 1..Len(out) : out[i].id \in Searches
  BY EventTypes DEF IInv, StateOK, DaemonOK
<1>15. CASE req.type = "search" /\ task' = [task EXCEPT ![req.id] = "permit"] /\ UNCHANGED token
  <2>1. task[req.id] = "none"
    BY <1>2, <1>3, <1>15 DEF IInv, IdsOK, AskedOnce
  <2>2. task'[req.id] = "permit" /\ \A r \in Searches \ {req.id} : task'[r] = task[r]
    BY <1>4, <1>15 DEF IInv, StateOK, DaemonOK
  <2>3. DaemonOK'
    BY <1>4, <1>5, <1>15 DEF IInv, StateOK, DaemonOK
  <2>4. FlagsOK'
    BY <1>5, <1>15, Zenon DEF IInv, StateOK, FlagsOK
  <2>5. AskedOnce'
    <3>1. ASSUME NEW i \in 1..Len(stdin'), NEW j \in 1..Len(stdin'), stdin'[i].type = "search"
          PROVE  /\ task'[stdin'[i].id] = "none"
                 /\ stdin'[j].type = "search" /\ stdin'[j].id = stdin'[i].id => i = j
      <4>1. /\ i + 1 \in 1..Len(stdin) /\ j + 1 \in 1..Len(stdin) /\ i + 1 # 1
            /\ stdin'[i] = stdin[i + 1] /\ stdin'[j] = stdin[j + 1]
        BY <1>2, <1>3
      <4>2. task[stdin'[i].id] = "none" /\ stdin'[i].id \in Searches
        BY <1>4, <3>1, <4>1 DEF IInv, IdsOK, AskedOnce
      <4>3. stdin'[i].id # req.id
        BY <1>2, <1>3, <1>15, <3>1, <4>1 DEF IInv, IdsOK, AskedOnce
      <4>4. stdin'[j].type = "search" /\ stdin'[j].id = stdin'[i].id => i + 1 = j + 1
        BY <3>1, <4>1 DEF IInv, IdsOK, AskedOnce
      <4>5. QED
        BY <2>2, <4>2, <4>3, <4>4
    <3>2. QED
      BY <3>1 DEF AskedOnce
  <2>6. \A r \in Searches : owner'[r] = "none" => Unborn(r)'
    BY <1>2, <1>3, <1>5, <1>12, <2>2 DEF Unborn
  <2>7. ASSUME NEW r \in Searches PROVE TaskOK(r)' /\ Delivering(r)'
    <3>1. TaskOK(r) /\ Delivering(r)
      BY DEF IInv, WalksOK
    <3>2. TaskOK(r)'
      BY <1>5, <1>7, <1>15, <2>1, <2>2, <3>1 DEF TaskOK, Full, WalkEnded, Walking, HasPermit
    <3>3. Delivering(r)'
      BY <1>5, <1>9, <1>15, <2>2, <3>1 DEF Delivering
    <3>4. QED
      BY <3>2, <3>3
  <2>8. OutOK'
    <3>1. \A i \in 1..Len(out) : out[i].kind # "chunk" => out[i].id # req.id
      BY <2>1 DEF IInv, OutOK
    <3>2. \A r \in Searches : Full(r)' <=> Full(r)
      BY <1>5, <1>7 DEF Full
    <3>3. ASSUME NEW i \in 1..Len(out), NEW r \in Searches, r = out[i].id
          PROVE  /\ out[i].items \subseteq 1..found[r]
                 /\ out[i].kind # "chunk" => /\ out[i].items = {} /\ task'[r] = "over"
                                            /\ \A j \in 1..Len(out) : j > i => out[j].id # r
                 /\ out[i].kind = "done" => Full(r)'
      BY <2>2, <3>1, <3>2, <3>3 DEF IInv, OutOK
    <3>4. QED
      BY <1>5, <1>14, <3>3 DEF OutOK
  <2>9. PermitsBounded'
    <3>1. Permits' \subseteq Permits
      BY <2>2 DEF Permits, HasPermit
    <3>2. QED
      BY <3>1, FewerPermits DEF IInv
  <2>10. QED
    BY <1>6, <1>8, <1>10, <1>11, <1>13, <2>3, <2>4, <2>5, <2>6, <2>7, <2>8, <2>9 DEF IInv, StateOK, IdsOK, WalksOK
<1>16. CASE UNCHANGED task /\ token' = [token EXCEPT ![req.id] = @ \/ task[req.id] \notin {"none", "over"}]
  <2>1. \A r \in Searches : token[r] => token'[r]
    BY <1>16, Zenon DEF IInv, StateOK, FlagsOK
  <2>2. FlagsOK'
    BY <1>5, <1>16, Zenon DEF IInv, StateOK, FlagsOK
  <2>3. DaemonOK'
    BY <1>5, <1>16 DEF IInv, StateOK, DaemonOK
  <2>4. AskedOnce'
    <3>1. ASSUME NEW i \in 1..Len(stdin'), NEW j \in 1..Len(stdin'), stdin'[i].type = "search"
          PROVE  /\ task[stdin'[i].id] = "none"
                 /\ stdin'[j].type = "search" /\ stdin'[j].id = stdin'[i].id => i = j
      <4>1. /\ i + 1 \in 1..Len(stdin) /\ j + 1 \in 1..Len(stdin)
            /\ stdin'[i] = stdin[i + 1] /\ stdin'[j] = stdin[j + 1]
        BY <1>2, <1>3
      <4>2. /\ task[stdin'[i].id] = "none"
            /\ stdin'[j].type = "search" /\ stdin'[j].id = stdin'[i].id => i + 1 = j + 1
        BY <3>1, <4>1 DEF IInv, IdsOK, AskedOnce
      <4>3. QED
        BY <4>2
    <3>2. QED
      BY <1>16, <3>1 DEF AskedOnce
  <2>5. \A r \in Searches : owner'[r] = "none" => Unborn(r)'
    BY <1>2, <1>3, <1>5, <1>12, <1>16 DEF Unborn
  <2>6. ASSUME NEW r \in Searches PROVE TaskOK(r)' /\ Delivering(r)'
    <3>1. TaskOK(r) /\ Delivering(r) /\ (token[r] => token'[r])
      BY <2>1 DEF IInv, WalksOK
    <3>2. TaskOK(r)'
      BY <1>5, <1>7, <1>16, <3>1 DEF TaskOK, Full, WalkEnded, Walking, HasPermit
    <3>3. Delivering(r)'
      BY <1>5, <1>9, <1>16, <3>1 DEF Delivering
    <3>4. QED
      BY <3>2, <3>3
  <2>7. OutOK'
    <3>1. \A r \in Searches : Full(r)' <=> Full(r)
      BY <1>5, <1>7 DEF Full
    <3>2. QED
      BY <1>5, <1>14, <1>16, <3>1 DEF IInv, OutOK
  <2>8. PermitsBounded'
    BY <1>16 DEF IInv, PermitsBounded, Permits, HasPermit
  <2>9. QED
    BY <1>6, <1>8, <1>10, <1>11, <1>13, <2>2, <2>3, <2>4, <2>5, <2>6, <2>7, <2>8 DEF IInv, StateOK, IdsOK, WalksOK
<1>17. QED
  BY <1>15, <1>16 DEF Accept, GoTo, req

----------------------------------------------------------------------------
(* The frontend.                                                           *)

\* Started counts the searches, and the next one is the first that was not.
LEMMA StartedCounts ==
  IInv => Started \in 0..MaxSearches /\ \A s \in Searches : owner[s] # "none" <=> s <= Started
<1> SUFFICES ASSUME IInv PROVE Started \in 0..MaxSearches /\ \A s \in Searches : owner[s] # "none" <=> s <= Started
  OBVIOUS
<1>1. PICK n \in 0..MaxSearches : \A s \in Searches : owner[s] # "none" <=> s <= n
  BY DEF IInv, IdsOK, Numbered
<1>2. MaxSearches \in Nat
  BY SearchAssumption
<1>3. {s \in Searches : owner[s] # "none"} = 1..n
  BY <1>1, <1>2 DEF Searches
<1>4. Cardinality(1..n) = n
  BY <1>2, FS_Interval
<1>5. QED
  BY <1>1, <1>3, <1>4 DEF Started

\* What a search that is started finds.
LEMMA NewIsUnborn ==
  ASSUME IInv, Started < MaxSearches
  PROVE  /\ Next1 \in Searches /\ owner[Next1] = "none" /\ Unborn(Next1)
         /\ task[Next1] = "none" /\ walker[Next1] = "none" /\ found[Next1] = 0
<1>1. Next1 \in Searches /\ ~(Next1 <= Started)
  BY StartedCounts, SearchAssumption DEF Next1, Searches
<1>2. owner[Next1] = "none"
  BY <1>1, StartedCounts
<1>3. Unborn(Next1)
  BY <1>1, <1>2 DEF IInv, IdsOK
<1>4. TaskOK(Next1) /\ WalkOK(Next1)
  BY <1>1 DEF IInv, WalksOK
<1>5. QED
  BY <1>1, <1>2, <1>3, <1>4 DEF Unborn, TaskOK, WalkOK

LEMMA OneRequest == \A r \in Requests : <<r>> \in Seq(Requests) /\ Len(<<r>>) = 1 /\ <<r>>[1] = r
OBVIOUS

\* What Send adds to the requests: cancels of ids, and at the end the search.
LEMMA SendFacts ==
  ASSUME stdin \in Seq(Requests), NEW ids, ids = {} \/ \E s \in Searches : ids = {s},
         NEW requests, requests = <<>> \/ \E s \in Searches : requests = <<Ask(s)>>, Send(ids, requests)
  PROVE  /\ stdin' \in Seq(Requests)
         /\ \A i \in 1..Len(stdin') :
              \/ i \in 1..Len(stdin) /\ stdin'[i] = stdin[i]
              \/ stdin'[i].type = "cancel" /\ stdin'[i].id \in ids
              \/ i = Len(stdin') /\ requests # <<>> /\ stdin'[i] = requests[1]
<1> DEFINE c == [i \in 1..Cardinality(ids) |-> Cancel(CHOOSE s \in ids : TRUE)]
<1>1. CASE ~alive
  BY <1>1 DEF Send
<1>2. CASE alive
  <2>1. c \in Seq(Requests) /\ \A i \in 1..Len(c) : c[i].type = "cancel" /\ c[i].id \in ids
    <3>1. CASE ids = {}
      <4>1. Cardinality(ids) = 0
        BY <3>1, FS_EmptySet
      <4>2. 1..Cardinality(ids) = {}
        BY <4>1
      <4>3. c = <<>>
        BY <4>2
      <4>4. <<>> \in Seq(Requests) /\ 1..Len(<<>>) = {}
        OBVIOUS
      <4> HIDE DEF c
      <4>5. QED
        BY <4>3, <4>4
    <3>2. ASSUME NEW s \in Searches, ids = {s} PROVE c \in Seq(Requests) /\ \A i \in 1..Len(c) : c[i].type = "cancel" /\ c[i].id \in ids
      <4>1. Cardinality(ids) = 1 /\ (CHOOSE r \in ids : TRUE) = s
        BY <3>2, FS_Singleton
      <4>2. c = [i \in 1..1 |-> Cancel(s)] /\ Cancel(s) \in Requests /\ Cancel(s).type = "cancel" /\ Cancel(s).id = s
        BY <4>1 DEF Cancel, Requests
      <4>3. c = <<Cancel(s)>>
        BY <4>2
      <4> HIDE DEF c
      <4>4. c \in Seq(Requests) /\ Len(c) = 1 /\ c[1] = Cancel(s)
        BY <4>2, <4>3, OneRequest
      <4>5. QED
        BY <3>2, <4>2, <4>4
    <3>3. QED
      BY <3>1, <3>2
  <2> HIDE DEF c
  <2>2. requests \in Seq(Requests) /\ (requests # <<>> => Len(requests) = 1) /\ (requests = <<>> => Len(requests) = 0)
    <3>1. ASSUME NEW s \in Searches, requests = <<Ask(s)>> PROVE requests \in Seq(Requests) /\ Len(requests) = 1
      <4>1. Ask(s) \in Requests
        BY DEF Ask, Requests
      <4>2. QED
        BY <3>1, <4>1
    <3>2. <<>> \in Seq(Requests) /\ Len(<<>>) = 0
      OBVIOUS
    <3>3. \A e : <<e>> # <<>>
      OBVIOUS
    <3>4. QED
      BY <3>1, <3>2, <3>3
  <2>3. stdin' = (stdin \o c) \o requests
    BY <1>2 DEF Send, c
  <2>4. /\ stdin \o c \in Seq(Requests) /\ Len(stdin \o c) = Len(stdin) + Len(c) /\ Len(stdin) \in Nat /\ Len(c) \in Nat
        /\ \A i \in 1..Len(stdin) + Len(c) : (stdin \o c)[i] = IF i <= Len(stdin) THEN stdin[i] ELSE c[i - Len(stdin)]
    BY <2>1, ConcatProperties, LenProperties
  <2> DEFINE q == stdin \o c
  <2> HIDE DEF q
  <2>5. /\ stdin' \in Seq(Requests) /\ Len(stdin') = Len(q) + Len(requests) /\ Len(requests) \in Nat
        /\ \A i \in 1..Len(q) + Len(requests) : stdin'[i] = IF i <= Len(q) THEN q[i] ELSE requests[i - Len(q)]
    BY <2>2, <2>3, <2>4, ConcatProperties, LenProperties DEF q
  <2>6. ASSUME NEW i \in 1..Len(stdin')
        PROVE  \/ i \in 1..Len(stdin) /\ stdin'[i] = stdin[i]
               \/ stdin'[i].type = "cancel" /\ stdin'[i].id \in ids
               \/ i = Len(stdin') /\ requests # <<>> /\ stdin'[i] = requests[1]
    <3>1. Len(q) = Len(stdin) + Len(c)
      BY <2>4 DEF q
    <3>2. CASE i <= Len(stdin)
      <4>1. i \in 1..Len(stdin) /\ i \in 1..Len(stdin) + Len(c) /\ i <= Len(q) /\ i \in 1..Len(q) + Len(requests)
        BY <2>4, <2>5, <3>1, <3>2
      <4>2. QED
        BY <2>4, <2>5, <3>2, <4>1 DEF q
    <3>3. CASE i > Len(stdin) /\ i <= Len(q)
      <4>1. i - Len(stdin) \in 1..Len(c) /\ i \in 1..Len(stdin) + Len(c) /\ i \in 1..Len(q) + Len(requests) /\ ~(i <= Len(stdin))
        BY <2>4, <2>5, <3>1, <3>3
      <4>2. stdin'[i] = c[i - Len(stdin)]
        BY <2>4, <2>5, <3>3, <4>1 DEF q
      <4>3. QED
        BY <2>1, <4>1, <4>2
    <3>4. CASE i > Len(q)
      <4>1. requests # <<>> /\ i = Len(q) + 1 /\ i = Len(stdin') /\ i - Len(q) = 1 /\ ~(i <= Len(q))
            /\ i \in 1..Len(q) + Len(requests)
        <5>1. Len(q) \in Nat /\ i \in Nat /\ i <= Len(q) + Len(requests) /\ i > Len(q) /\ i >= 1
          BY <2>4, <2>5, <3>1, <3>4
        <5>2. Len(requests) # 0
          BY <5>1
        <5>3. Len(requests) = 1
          BY <2>2, <5>2
        <5>4. QED
          BY <2>2, <2>5, <5>1, <5>2, <5>3
      <4>2. stdin'[i] = requests[i - Len(q)]
        BY <2>5, <3>4, <4>1
      <4>3. QED
        BY <4>1, <4>2
    <3>5. QED
      BY <2>4, <2>5, <3>1, <3>2, <3>3, <3>4
  <2>7. QED
    BY <2>5, <2>6
<1>3. QED
  BY <1>1, <1>2

\* Which searches a step of the frontend leaves unborn: all but those in fresh.
LEMMA IdsFrame ==
  ASSUME IInv, UNCHANGED task, NEW fresh \in SUBSET Searches, Numbered',
         \A r \in Searches \ fresh : owner'[r] = owner[r],
         \A r \in fresh : owner'[r] # "none" /\ Unborn(r),
         bcbs' \subseteq bcbs \cup fresh, filter'.id \in {filter.id, 0} \cup fresh,
         answered' \in {answered, filter.id, 0}, quickId' \in {quickId, 0} \cup fresh,
         \A r \in Searches : r # quickId => results'[r] = results[r],
         \A i \in 1..Len(stdin') :
           \/ i \in 1..Len(stdin) /\ stdin'[i] = stdin[i]
           \/ stdin'[i].type = "cancel" /\ stdin'[i].id \in {filter.id, quickId}
           \/ i = Len(stdin') /\ stdin'[i].id \in fresh,
         \A i \in 1..Len(out') : \E j \in 1..Len(out) : out'[i] = out[j]
  PROVE  IdsOK'
<1>1. AskedOnce'
  <2>1. ASSUME NEW i \in 1..Len(stdin'), NEW j \in 1..Len(stdin'), stdin'[i].type = "search"
        PROVE  /\ task[stdin'[i].id] = "none"
               /\ stdin'[j].type = "search" /\ stdin'[j].id = stdin'[i].id => i = j
    <3>1. CASE i \in 1..Len(stdin) /\ stdin'[i] = stdin[i]
      <4>1. task[stdin'[i].id] = "none"
        BY <2>1, <3>1 DEF IInv, IdsOK, AskedOnce
      <4>2. ASSUME stdin'[j].type = "search", stdin'[j].id = stdin'[i].id PROVE i = j
        <5>1. stdin'[i].id \notin fresh
          BY <3>1 DEF Unborn
        <5>2. j \in 1..Len(stdin) /\ stdin'[j] = stdin[j]
          BY <4>2, <5>1
        <5>3. QED
          BY <2>1, <3>1, <4>2, <5>2 DEF IInv, IdsOK, AskedOnce
      <4>3. QED
        BY <4>1, <4>2
    <3>2. CASE i = Len(stdin') /\ stdin'[i].id \in fresh
      <4>1. task[stdin'[i].id] = "none"
        BY <3>2 DEF Unborn
      <4>2. ASSUME stdin'[j].type = "search", stdin'[j].id = stdin'[i].id PROVE i = j
        <5>1. ~(j \in 1..Len(stdin) /\ stdin'[j] = stdin[j])
          BY <3>2, <4>2 DEF Unborn
        <5>2. QED
          BY <3>2, <4>2, <5>1
      <4>3. QED
        BY <4>1, <4>2
    <3>3. QED
      BY <2>1, <3>1, <3>2
  <2>2. QED
    BY <2>1 DEF AskedOnce
<1>2. ASSUME NEW r \in Searches, owner'[r] = "none" PROVE Unborn(r)'
  <2>1. r \notin fresh /\ r # 0
    BY <1>2, SearchAssumption DEF Searches
  <2>2. Unborn(r)
    BY <1>2, <2>1 DEF IInv, IdsOK
  <2>3. r \notin bcbs' /\ filter'.id # r /\ answered' # r /\ quickId' # r /\ results'[r] = {}
    BY <2>1, <2>2 DEF Unborn
  <2>4. \A i \in 1..Len(stdin') : stdin'[i].id # r
    BY <2>1, <2>2 DEF Unborn
  <2>5. \A i \in 1..Len(out') : out'[i].id # r
    BY <2>2 DEF Unborn
  <2>6. QED
    BY <2>2, <2>3, <2>4, <2>5 DEF Unborn
<1>3. QED
  BY <1>1, <1>2 DEF IdsOK

\* A step of the frontend touches no task and no walker: what it must keep is
\* its own part, and that whoever still listens has been told as much.
LEMMA UiFrame ==
  ASSUME IInv, UiUnchanged, UNCHANGED stalled, StateOK', IdsOK', ShownOK',
         \A s \in Searches : owner[s] # "none" => owner'[s] = owner[s] /\ total'[s] = total[s],
         NEW k \in {0, 1}, Len(out') = Len(out) - k, \A i \in 1..Len(out') : out'[i] = out[i + k],
         \A s \in Searches : Heard(s)' /\ task[s] # "none" =>
           Heard(s) /\ \A n \in 1..found[s] : Told(s, n) => Told(s, n)'
  PROVE  IInv'
<1>1. UNCHANGED <<task, token, sending, walker, found, batch, chan, stalled>>
  BY DEF UiUnchanged, taskVars, walkVars
<1>2. Len(out) \in Nat /\ \A i \in 1..Len(out') : i + k \in 1..Len(out)
  BY LenProperties DEF IInv, StateOK, DaemonOK
<1>3. ASSUME NEW s \in Searches PROVE
        /\ owner[s] = "none" => task[s] = "none" /\ walker[s] = "none" /\ found[s] = 0
        /\ owner[s] # "none" => MaxResults(s)' = MaxResults(s) /\ (Full(s) <=> Full(s)')
  <2>1. owner[s] = "none" => task[s] = "none" /\ TaskOK(s) /\ WalkOK(s)
    BY DEF IInv, IdsOK, Unborn, WalksOK
  <2>2. owner[s] # "none" => MaxResults(s)' = MaxResults(s)
    BY DEF MaxResults
  <2>3. QED
    BY <1>1, <2>1, <2>2 DEF TaskOK, WalkOK, Full
<1>4. ASSUME NEW s \in Searches PROVE WalkOK(s)' /\ TaskOK(s)' /\ Delivering(s)'
  <2>1. WalkOK(s) /\ TaskOK(s) /\ Delivering(s)
    BY DEF IInv, WalksOK
  <2>2. WalkOK(s)'
    <3>1. CASE owner[s] = "none"
      <4>1. (MaxResults(s) \in Nat \ {0})' /\ total'[s] \in Nat
        <5>1. total'[s] \in Nat
          BY DEF StateOK, FrontendOK
        <5>2. (MaxResults(s) \in Nat \ {0})'
          BY SearchAssumption DEF MaxResults
        <5>3. QED
          BY <5>1, <5>2
      <4>2. QED
        BY <1>1, <1>3, <2>1, <3>1, <4>1 DEF WalkOK
    <3>2. CASE owner[s] # "none"
      BY <1>1, <1>3, <2>1, <3>2 DEF WalkOK
    <3>3. QED
      BY <3>1, <3>2
  <2>3. TaskOK(s)'
    BY <1>1, <1>3, <2>1 DEF TaskOK, WalkEnded, Walking, HasPermit
  <2>4. Delivering(s)'
    BY <1>1, <2>1 DEF Delivering
  <2>5. QED
    BY <2>2, <2>3, <2>4
<1>5. WalksOK'
  BY <1>4 DEF WalksOK
<1>6. \A i \in 1..Len(out) : out[i].id \in Searches /\ owner[out[i].id] # "none"
  <2>1. \A i \in 1..Len(out) : out[i].id \in Searches
    BY EventTypes DEF IInv, StateOK, DaemonOK
  <2>2. \A r \in Searches : owner[r] = "none" => Unborn(r)
    BY DEF IInv, IdsOK
  <2>3. QED
    BY ONLY <2>1, <2>2 DEF Unborn
<1>7. ASSUME NEW i \in 1..Len(out'), NEW r \in Searches, r = out'[i].id
      PROVE  /\ out'[i].items \subseteq 1..found[r]
             /\ out'[i].kind # "chunk" => /\ out'[i].items = {} /\ task[r] = "over"
                                         /\ \A j \in 1..Len(out') : j > i => out'[j].id # r
             /\ out'[i].kind = "done" => Full(r)'
  <2>1. i + k \in 1..Len(out) /\ out'[i] = out[i + k]
    BY <1>2
  <2>2. /\ out[i + k].items \subseteq 1..found[r]
        /\ out[i + k].kind # "chunk" => /\ out[i + k].items = {} /\ task[r] = "over"
                                       /\ \A j \in 1..Len(out) : j > i + k => out[j].id # r
        /\ out[i + k].kind = "done" => Full(r)
    BY <1>7, <2>1 DEF IInv, OutOK
  <2>3. owner[r] # "none"
    BY <1>6, <1>7, <2>1
  <2>4. \A j \in 1..Len(out') : j > i => j + k > i + k /\ j + k \in 1..Len(out) /\ out'[j] = out[j + k]
    BY <1>2
  <2>5. out'[i].kind # "chunk" => \A j \in 1..Len(out') : j > i => out'[j].id # r
    BY ONLY <2>1, <2>2, <2>4
  <2>6. Full(r) => Full(r)'
    BY <1>3, <2>3
  <2>7. QED
    BY ONLY <2>1, <2>2, <2>5, <2>6
<1>8. \A i \in 1..Len(out') : out'[i].id \in Searches
  BY EventTypes DEF StateOK, DaemonOK
<1>9. OutOK'
  BY <1>1, <1>7, <1>8 DEF OutOK
<1>10. Delivered'
  <2> SUFFICES ASSUME NEW i \in 1..Len(out'), NEW r \in Searches, r = out'[i].id, out'[i].kind = "done", Heard(r)'
               PROVE  \A n \in 1..found[r] : Told(r, n)'
    BY <1>1, <1>8 DEF Delivered
  <2>1. i + k \in 1..Len(out) /\ out'[i] = out[i + k]
    BY <1>2
  <2>2. Heard(r) /\ \A n \in 1..found[r] : Told(r, n) => Told(r, n)'
    BY <1>7
  <2>3. \A n \in 1..found[r] : Told(r, n)
    BY <2>1, <2>2 DEF IInv, Delivered
  <2>4. QED
    BY <2>2, <2>3
<1>11. PermitsBounded'
  BY <1>1 DEF IInv, PermitsBounded, Permits, HasPermit
<1>12. QED
  BY <1>5, <1>9, <1>10, <1>11 DEF IInv

\* What a new search of w is to the invariant, whoever asks for it.
LEMMA NewSearchFacts ==
  ASSUME IInv, NEW w \in {"filter", "quickfix"}, NewSearch(w)
  PROVE  /\ Next1 \in Searches /\ Unborn(Next1) /\ owner[Next1] = "none" /\ found[Next1] = 0 /\ task[Next1] = "none"
         /\ owner' \in [Searches -> {"none", "filter", "quickfix"}] /\ total' \in [Searches -> Nat]
         /\ owner'[Next1] = w
         /\ \A r \in Searches : r # Next1 => owner'[r] = owner[r] /\ total'[r] = total[r]
         /\ Numbered' /\ \A r \in Searches : owner[r] # "none" => r <= Next1
<1>1. Started < MaxSearches /\ owner' = [owner EXCEPT ![Next1] = w]
  BY DEF NewSearch
<1>2. PICK n \in Totals : total' = [total EXCEPT ![Next1] = n]
  BY DEF NewSearch
<1>3. /\ Next1 \in Searches /\ Unborn(Next1) /\ owner[Next1] = "none" /\ found[Next1] = 0 /\ task[Next1] = "none"
  BY <1>1, NewIsUnborn
<1>4. owner \in [Searches -> {"none", "filter", "quickfix"}] /\ total \in [Searches -> Nat]
  BY DEF IInv, StateOK, FrontendOK
<1>5. n \in Nat
  BY SearchAssumption
<1>6. /\ owner' \in [Searches -> {"none", "filter", "quickfix"}] /\ total' \in [Searches -> Nat]
      /\ owner'[Next1] = w
      /\ \A r \in Searches : r # Next1 => owner'[r] = owner[r] /\ total'[r] = total[r]
  BY <1>1, <1>2, <1>3, <1>4, <1>5
<1>7. Started \in 0..MaxSearches /\ Next1 \in 0..MaxSearches /\ \A s \in Searches : owner[s] # "none" <=> s <= Started
  BY <1>1, StartedCounts, SearchAssumption DEF Next1
<1>8. \A r \in Searches : (r <= Next1 <=> r <= Started \/ r = Next1) /\ r \in Nat
  BY <1>7 DEF Next1, Searches
<1>9. \A r \in Searches : owner'[r] # "none" <=> r <= Next1
  BY <1>3, <1>6, <1>7, <1>8
<1>10. Numbered'
  BY <1>7, <1>9 DEF Numbered
<1>11. QED
  BY <1>3, <1>6, <1>7, <1>8, <1>10

LEMMA FilterStep == IInv /\ Filter => IInv'
<1> SUFFICES ASSUME IInv, Filter PROVE IInv'
  OBVIOUS
<1> DEFINE n == Next1
<1>1. /\ NewSearch("filter") /\ filter' = [id |-> n, pending |-> TRUE, truncated |-> FALSE]
      /\ hits' = {} /\ answered' = 0 /\ orphaned' = FALSE
      /\ bcbs' = (bcbs \ ToCancel) \cup {n} /\ Send(ToCancel, <<Ask(n)>>)
      /\ UNCHANGED <<alive, out, stalled, quickId, results, quickfix>> /\ UiUnchanged
  BY DEF Filter, StartFilterSearch, quickVars
<1>2. UNCHANGED <<task, token, sending, walker, found, batch, chan>>
  BY <1>1 DEF UiUnchanged, taskVars, walkVars
<1>3. /\ n \in Searches /\ Unborn(n) /\ owner[n] = "none" /\ found[n] = 0 /\ task[n] = "none"
      /\ owner' \in [Searches -> {"none", "filter", "quickfix"}] /\ total' \in [Searches -> Nat]
      /\ owner'[n] = "filter"
      /\ \A r \in Searches : r # n => owner'[r] = owner[r] /\ total'[r] = total[r]
      /\ Numbered'
  BY <1>1, NewSearchFacts
<1> HIDE DEF n
<1>4. FrontendOK
  BY DEF IInv, StateOK
<1>5. /\ stdin' \in Seq(Requests)
      /\ \A i \in 1..Len(stdin') :
           \/ i \in 1..Len(stdin) /\ stdin'[i] = stdin[i]
           \/ stdin'[i].type = "cancel" /\ stdin'[i].id \in ToCancel
           \/ i = Len(stdin') /\ stdin'[i] = Ask(n)
  <2>1. ToCancel = {} \/ \E s \in Searches : ToCancel = {s}
    BY <1>4 DEF FrontendOK, ToCancel
  <2>2. <<Ask(n)>>[1] = Ask(n) /\ stdin \in Seq(Requests)
    BY <1>4 DEF FrontendOK
  <2>3. QED
    BY <1>1, <1>3, <2>1, <2>2, SendFacts
<1>6. Ask(n).id = n /\ ToCancel \subseteq {filter.id}
  BY DEF Ask, ToCancel
<1>7. filter' \in [id : Searches \cup {0}, pending : BOOLEAN, truncated : BOOLEAN] /\ filter'.id = n
  BY <1>1, <1>3
<1>8. FrontendOK'
  BY <1>1, <1>3, <1>4, <1>5, <1>7 DEF FrontendOK
<1>9. DaemonOK'
  BY <1>1, <1>2 DEF IInv, StateOK, DaemonOK
<1>10. FlagsOK'
  BY <1>1, <1>2, Zenon DEF IInv, StateOK, FlagsOK
<1>11. IdsOK'
  <2>1. {n} \in SUBSET Searches /\ \A r \in Searches \ {n} : owner'[r] = owner[r]
    BY <1>3
  <2>2. bcbs' \subseteq bcbs \cup {n} /\ filter'.id \in {filter.id, 0} \cup {n} /\ quickId' \in {quickId, 0} \cup {n}
        /\ answered' \in {answered, filter.id, 0} /\ \A r \in Searches : r # quickId => results'[r] = results[r]
    BY <1>1, <1>7
  <2>3. \A i \in 1..Len(stdin') :
           \/ i \in 1..Len(stdin) /\ stdin'[i] = stdin[i]
           \/ stdin'[i].type = "cancel" /\ stdin'[i].id \in {filter.id, quickId}
           \/ i = Len(stdin') /\ stdin'[i].id \in {n}
    BY <1>5, <1>6
  <2>4. \A r \in {n} : owner'[r] # "none" /\ Unborn(r)
    BY <1>3
  <2>5. \A i \in 1..Len(out') : \E j \in 1..Len(out) : out'[i] = out[j]
    BY <1>1
  <2>6. QED
    BY <1>2, <1>3, <2>1, <2>2, <2>3, <2>4, <2>5, IdsFrame
<1>12. ShownOK'
  <2>1. quickId # n
    BY <1>3 DEF Unborn
  <2>2. quickId \in Searches \cup {0} /\ (quickId # 0 => owner[quickId] = "quickfix"
          /\ \A s \in Searches : owner[s] = "quickfix" => s <= quickId)
    BY <1>4 DEF FrontendOK, IInv, ShownOK
  <2>3. quickId # 0 => owner'[quickId] = "quickfix" /\ \A s \in Searches : owner'[s] = "quickfix" => s <= quickId
    BY <1>3, <2>1, <2>2
  <2>4. \A s \in Searches : results[s] \subseteq 1..found[s]
    BY DEF IInv, ShownOK
  <2>5. QED
    BY <1>1, <1>2, <1>3, <1>7, <2>3, <2>4 DEF ShownOK
<1>13. ASSUME NEW s \in Searches, Heard(s)', task[s] # "none"
       PROVE  Heard(s) /\ \A m \in 1..found[s] : Told(s, m) => Told(s, m)'
  <2>1. s # n /\ s \in bcbs /\ s \notin ToCancel /\ quickId = s
    BY <1>1, <1>3, <1>7, <1>13 DEF Heard
  <2>2. Heard(s)
    BY <2>1 DEF Heard
  <2>3. QED
    BY <1>1, <1>7, <2>1, <2>2 DEF Told, Got, OnItsWay
<1>14. \A s \in Searches : owner[s] # "none" => owner'[s] = owner[s] /\ total'[s] = total[s]
  BY <1>3
<1>15. Len(out') = Len(out) - 0 /\ \A i \in 1..Len(out') : out'[i] = out[i + 0]
  BY <1>1, LenProperties DEF IInv, StateOK, DaemonOK
<1>16. StateOK'
  BY <1>8, <1>9, <1>10 DEF StateOK
<1>17. QED
  BY <1>1, <1>11, <1>12, <1>13, <1>14, <1>15, <1>16, UiFrame

LEMMA ClearStep == IInv /\ ClearFilterHits => IInv'
<1> SUFFICES ASSUME IInv, ClearFilterHits PROVE IInv'
  OBVIOUS
<1>1. /\ filter' = NoFilter /\ hits' = {} /\ answered' = 0 /\ orphaned' = FALSE
      /\ bcbs' = bcbs \ ToCancel /\ Send(ToCancel, <<>>)
      /\ UNCHANGED <<alive, out, stalled, owner, total, quickId, results, quickfix>> /\ UiUnchanged
  BY DEF ClearFilterHits, quickVars, startVars
<1>2. UNCHANGED <<task, token, sending, walker, found, batch, chan>>
  BY <1>1 DEF UiUnchanged, taskVars, walkVars
<1>3. FrontendOK
  BY DEF IInv, StateOK
<1>4. /\ stdin' \in Seq(Requests)
      /\ \A i \in 1..Len(stdin') :
           \/ i \in 1..Len(stdin) /\ stdin'[i] = stdin[i]
           \/ stdin'[i].type = "cancel" /\ stdin'[i].id \in ToCancel
  <2>1. ToCancel = {} \/ \E s \in Searches : ToCancel = {s}
    BY <1>3 DEF FrontendOK, ToCancel
  <2>2. stdin \in Seq(Requests)
    BY <1>3 DEF FrontendOK
  <2>3. QED
    BY <1>1, <2>1, <2>2, SendFacts
<1>5. filter' \in [id : Searches \cup {0}, pending : BOOLEAN, truncated : BOOLEAN] /\ filter'.id = 0
  BY <1>1 DEF NoFilter
<1>6. FrontendOK'
  BY <1>1, <1>3, <1>4, <1>5 DEF FrontendOK
<1>7. DaemonOK'
  BY <1>1, <1>2 DEF IInv, StateOK, DaemonOK
<1>8. FlagsOK'
  BY <1>1, <1>2, Zenon DEF IInv, StateOK, FlagsOK
<1>9. IdsOK'
  <2>1. Numbered'
    BY <1>1 DEF IInv, IdsOK, Numbered
  <2>2. bcbs' \subseteq bcbs \cup {} /\ filter'.id \in {filter.id, 0} \cup {} /\ quickId' \in {quickId, 0} \cup {}
        /\ answered' \in {answered, filter.id, 0} /\ \A r \in Searches : r # quickId => results'[r] = results[r]
    BY <1>1, <1>5
  <2>3. \A i \in 1..Len(stdin') :
           \/ i \in 1..Len(stdin) /\ stdin'[i] = stdin[i]
           \/ stdin'[i].type = "cancel" /\ stdin'[i].id \in {filter.id, quickId}
           \/ i = Len(stdin') /\ stdin'[i].id \in {}
    BY <1>4 DEF ToCancel
  <2>4. /\ {} \in SUBSET Searches /\ \A r \in Searches \ {} : owner'[r] = owner[r]
        /\ \A r \in {} : owner'[r] # "none" /\ Unborn(r)
    BY <1>1
  <2>5. \A i \in 1..Len(out') : \E j \in 1..Len(out) : out'[i] = out[j]
    BY <1>1
  <2>6. QED
    BY <1>2, <2>1, <2>2, <2>3, <2>4, <2>5, IdsFrame
<1>10. ShownOK'
  BY <1>1, <1>2, <1>5 DEF IInv, ShownOK
<1>11. ASSUME NEW s \in Searches, Heard(s)', task[s] # "none"
       PROVE  Heard(s) /\ \A m \in 1..found[s] : Told(s, m) => Told(s, m)'
  <2>1. s # 0
    BY SearchAssumption DEF Searches
  <2>2. s \in bcbs /\ quickId = s
    BY <1>1, <1>5, <1>11, <2>1 DEF Heard
  <2>3. QED
    BY <1>1, <1>5, <2>1, <2>2 DEF Heard, Told, Got, OnItsWay
<1>12. \A s \in Searches : owner[s] # "none" => owner'[s] = owner[s] /\ total'[s] = total[s]
  BY <1>1
<1>13. Len(out') = Len(out) - 0 /\ \A i \in 1..Len(out') : out'[i] = out[i + 0]
  BY <1>1, LenProperties DEF IInv, StateOK, DaemonOK
<1>14. StateOK'
  BY <1>6, <1>7, <1>8 DEF StateOK
<1>15. QED
  BY <1>1, <1>9, <1>10, <1>11, <1>12, <1>13, <1>14, UiFrame

LEMMA QuickSearchStep == IInv /\ QuickSearch => IInv'
<1> SUFFICES ASSUME IInv, QuickSearch PROVE IInv'
  OBVIOUS
<1> DEFINE n == Next1
<1>1. /\ NewSearch("quickfix") /\ quickId' = n
      /\ bcbs' = (bcbs \ {quickId}) \cup {n} /\ Send({quickId} \ {0}, <<Ask(n)>>)
      /\ UNCHANGED <<alive, out, stalled, filter, hits, answered, orphaned, results, quickfix>> /\ UiUnchanged
  BY DEF QuickSearch, filterVars
<1>2. UNCHANGED <<task, token, sending, walker, found, batch, chan>>
  BY <1>1 DEF UiUnchanged, taskVars, walkVars
<1>3. /\ n \in Searches /\ Unborn(n) /\ owner[n] = "none" /\ found[n] = 0 /\ task[n] = "none"
      /\ owner' \in [Searches -> {"none", "filter", "quickfix"}] /\ total' \in [Searches -> Nat]
      /\ owner'[n] = "quickfix"
      /\ \A r \in Searches : r # n => owner'[r] = owner[r] /\ total'[r] = total[r]
      /\ Numbered' /\ \A r \in Searches : owner[r] # "none" => r <= n
  BY <1>1, NewSearchFacts
<1> HIDE DEF n
<1>4. FrontendOK
  BY DEF IInv, StateOK
<1>5. /\ stdin' \in Seq(Requests)
      /\ \A i \in 1..Len(stdin') :
           \/ i \in 1..Len(stdin) /\ stdin'[i] = stdin[i]
           \/ stdin'[i].type = "cancel" /\ stdin'[i].id \in {quickId} \ {0}
           \/ i = Len(stdin') /\ stdin'[i] = Ask(n)
  <2> DEFINE ids == {quickId} \ {0}
  <2>1. ids = {} \/ \E s \in Searches : ids = {s}
    <3>1. CASE quickId = 0
      BY <3>1
    <3>2. CASE quickId # 0
      <4>1. quickId \in Searches /\ ids = {quickId}
        BY <1>4, <3>2 DEF FrontendOK
      <4>2. QED
        BY <4>1
    <3>3. QED
      BY <3>1, <3>2
  <2>2. <<Ask(n)>>[1] = Ask(n) /\ stdin \in Seq(Requests)
    BY <1>4 DEF FrontendOK
  <2>3. Send(ids, <<Ask(n)>>)
    BY <1>1
  <2> HIDE DEF ids
  <2>4. /\ stdin' \in Seq(Requests)
        /\ \A i \in 1..Len(stdin') :
             \/ i \in 1..Len(stdin) /\ stdin'[i] = stdin[i]
             \/ stdin'[i].type = "cancel" /\ stdin'[i].id \in ids
             \/ i = Len(stdin') /\ stdin'[i] = Ask(n)
    BY <1>3, <2>1, <2>2, <2>3, SendFacts
  <2>5. QED
    BY <2>4 DEF ids
<1>6. Ask(n).id = n
  BY DEF Ask
<1>7. FrontendOK'
  BY <1>1, <1>3, <1>4, <1>5 DEF FrontendOK
<1>8. DaemonOK'
  BY <1>1, <1>2 DEF IInv, StateOK, DaemonOK
<1>9. FlagsOK'
  BY <1>1, <1>2, Zenon DEF IInv, StateOK, FlagsOK
<1>10. IdsOK'
  <2>1. {n} \in SUBSET Searches /\ \A r \in Searches \ {n} : owner'[r] = owner[r]
    BY <1>3
  <2>2. bcbs' \subseteq bcbs \cup {n} /\ filter'.id \in {filter.id, 0} \cup {n} /\ quickId' \in {quickId, 0} \cup {n}
        /\ answered' \in {answered, filter.id, 0} /\ \A r \in Searches : r # quickId => results'[r] = results[r]
    BY <1>1
  <2>3. \A i \in 1..Len(stdin') :
           \/ i \in 1..Len(stdin) /\ stdin'[i] = stdin[i]
           \/ stdin'[i].type = "cancel" /\ stdin'[i].id \in {filter.id, quickId}
           \/ i = Len(stdin') /\ stdin'[i].id \in {n}
    BY <1>5, <1>6
  <2>4. \A r \in {n} : owner'[r] # "none" /\ Unborn(r)
    BY <1>3
  <2>5. \A i \in 1..Len(out') : \E j \in 1..Len(out) : out'[i] = out[j]
    BY <1>1
  <2>6. QED
    BY <1>2, <1>3, <2>1, <2>2, <2>3, <2>4, <2>5, IdsFrame
<1>11. ShownOK'
  <2>1. filter.id # n /\ answered # n
    BY <1>3 DEF Unborn
  <2>2. filter.id # 0 => /\ owner[filter.id] = "filter" /\ filter.id \in Searches /\ answered = 0
                         /\ hits \subseteq {filter.id} \X (1..found[filter.id])
    BY <1>4 DEF FrontendOK, IInv, ShownOK
  <2>3. filter'.id # 0 => /\ owner'[filter'.id] = "filter" /\ answered' = 0
                          /\ hits' \subseteq {filter'.id} \X (1..found'[filter'.id])
    BY <1>1, <1>2, <1>3, <2>1, <2>2
  <2>4. \A s \in Searches : owner'[s] = "quickfix" => s <= n
    <3>1. n <= n
      BY <1>3 DEF Searches
    <3>2. QED
      BY <1>3, <3>1
  <2>5. \A s \in Searches : results[s] \subseteq 1..found[s]
    BY DEF IInv, ShownOK
  <2>6. (answered' # 0 /\ ~filter'.truncated /\ FilterMaxResults <= MAX_SEARCH_RESULTS)
          => hits' = {answered'} \X (1..total'[answered'])
    <3>1. answered # 0 => answered \in Searches /\ total'[answered] = total[answered]
      BY <1>3, <1>4, <2>1 DEF FrontendOK
    <3>2. QED
      BY <1>1, <3>1 DEF IInv, ShownOK
  <2>7. QED
    BY <1>1, <1>2, <1>3, <2>3, <2>4, <2>5, <2>6 DEF ShownOK
<1>12. ASSUME NEW s \in Searches, Heard(s)', task[s] # "none"
       PROVE  Heard(s) /\ \A m \in 1..found[s] : Told(s, m) => Told(s, m)'
  <2>1. s # n /\ s \in bcbs /\ s # quickId /\ filter.id = s
    BY <1>1, <1>3, <1>12 DEF Heard
  <2>2. Heard(s)
    BY <2>1 DEF Heard
  <2>3. QED
    BY <1>1, <2>1, <2>2 DEF Told, Got, OnItsWay
<1>13. \A s \in Searches : owner[s] # "none" => owner'[s] = owner[s] /\ total'[s] = total[s]
  BY <1>3
<1>14. Len(out') = Len(out) - 0 /\ \A i \in 1..Len(out') : out'[i] = out[i + 0]
  BY <1>1, LenProperties DEF IInv, StateOK, DaemonOK
<1>15. StateOK'
  BY <1>7, <1>8, <1>9 DEF StateOK
<1>16. QED
  BY <1>1, <1>10, <1>11, <1>12, <1>13, <1>14, <1>15, UiFrame

\* The tree is closed: nobody listens any more.
LEMMA CancelStep == IInv /\ CancelFrontendWork => IInv'
<1> SUFFICES ASSUME IInv, CancelFrontendWork PROVE IInv'
  OBVIOUS
<1>1. /\ bcbs' = {} /\ orphaned' = (orphaned \/ filter.id \in bcbs) /\ quickId' = 0
      /\ UNCHANGED <<alive, stdin, out, stalled, owner, total, filter, hits, answered, results, quickfix>> /\ UiUnchanged
  BY DEF CancelFrontendWork, ClearBackendCallbacks, wireVars, startVars
<1>2. UNCHANGED <<task, token, sending, walker, found, batch, chan>>
  BY <1>1 DEF UiUnchanged, taskVars, walkVars
<1>3. FrontendOK'
  BY <1>1 DEF IInv, StateOK, FrontendOK
<1>4. DaemonOK'
  BY <1>1, <1>2 DEF IInv, StateOK, DaemonOK
<1>5. FlagsOK'
  <2>1. orphaned' \in BOOLEAN
    BY <1>1
  <2>2. QED
    BY <1>1, <1>2, <2>1, Zenon DEF IInv, StateOK, FlagsOK
<1>6. IdsOK'
  <2>1. Numbered' /\ AskedOnce'
    BY <1>1, <1>2 DEF IInv, IdsOK, Numbered, AskedOnce
  <2>2. \A s \in Searches : s # 0
    BY SearchAssumption DEF Searches
  <2>3. \A s \in Searches : owner'[s] = "none" => Unborn(s)'
    BY <1>1, <1>2, <2>2 DEF IInv, IdsOK, Unborn
  <2>4. QED
    BY <2>1, <2>3 DEF IdsOK
<1>7. ShownOK'
  BY <1>1, <1>2 DEF IInv, ShownOK
<1>8. \A s \in Searches : ~Heard(s)'
  BY <1>1 DEF Heard
<1>9. \A s \in Searches : owner[s] # "none" => owner'[s] = owner[s] /\ total'[s] = total[s]
  BY <1>1
<1>10. Len(out') = Len(out) - 0 /\ \A i \in 1..Len(out') : out'[i] = out[i + 0]
  BY <1>1, LenProperties DEF IInv, StateOK, DaemonOK
<1>11. StateOK'
  BY <1>3, <1>4, <1>5 DEF StateOK
<1>12. QED
  BY <1>1, <1>6, <1>7, <1>8, <1>9, <1>10, <1>11, UiFrame

\* The daemon is gone, and with it every task and walker.
LEMMA ExitStep == IInv /\ Exit => IInv'
<1> SUFFICES ASSUME IInv, Exit PROVE IInv'
  OBVIOUS
<1>1. /\ alive' = FALSE /\ stdin' = <<>> /\ out' = <<>> /\ stalled' = FALSE
      /\ task' = [s \in Searches |-> IF task[s] = "none" THEN "none" ELSE "over"]
      /\ walker' = [s \in Searches |-> IF walker[s] = "none" THEN "none" ELSE "ended"]
      /\ chan' = [s \in Searches |-> <<>>]
      /\ bcbs' = {} /\ orphaned' = (orphaned \/ filter.id \in bcbs)
      /\ UNCHANGED <<token, sending, found, batch, quickId, results, quickfix, owner, total, filter, hits, answered>>
  BY DEF Exit, ClearBackendCallbacks, quickVars, startVars
<1>2. DaemonOK'
  BY <1>1, SearchAssumption DEF IInv, StateOK, DaemonOK
<1>3. FrontendOK'
  BY <1>1 DEF IInv, StateOK, FrontendOK
<1>4. FlagsOK'
  <2>1. orphaned' \in BOOLEAN
    BY <1>1
  <2>2. QED
    BY <1>1, <2>1, Zenon DEF IInv, StateOK, FlagsOK
<1>5. IdsOK'
  BY <1>1 DEF IInv, IdsOK, Numbered, AskedOnce, Unborn
<1>6. ASSUME NEW s \in Searches PROVE WalkOK(s)' /\ TaskOK(s)' /\ Delivering(s)'
  <2>1. WalkOK(s) /\ TaskOK(s) /\ MaxResults(s)' = MaxResults(s)
    BY <1>1 DEF IInv, WalksOK, MaxResults
  <2>2. WalkOK(s)'
    BY <1>1, <2>1 DEF WalkOK
  <2>3. TaskOK(s)'
    BY <1>1, <2>1 DEF TaskOK, Walking, WalkEnded
  <2>4. Delivering(s)'
    BY <1>1 DEF Delivering, Heard
  <2>5. QED
    BY <2>2, <2>3, <2>4
<1>7. OutOK' /\ Delivered'
  BY <1>1 DEF OutOK, Delivered
<1>8. PermitsBounded'
  <2>1. Permits' = {}
    BY <1>1 DEF Permits, HasPermit
  <2>2. QED
    BY <2>1, FewerPermits DEF IInv
<1>9. ShownOK'
  BY <1>1 DEF IInv, ShownOK
<1>10. QED
  BY <1>2, <1>3, <1>4, <1>5, <1>6, <1>7, <1>8, <1>9 DEF IInv, StateOK, WalksOK

\* Nothing but alive is another.
LEMMA AliveOnly ==
  ASSUME IInv, alive' \in BOOLEAN,
         UNCHANGED <<wireVars, taskVars, walkVars, chan, filterVars, quickVars, startVars, bcbs>>
  PROVE  IInv'
<1>1. UNCHANGED <<stdin, out, stalled, task, token, sending, walker, found, batch, chan, filter, hits, answered,
                  orphaned, quickId, results, quickfix, owner, total, bcbs>>
  BY DEF wireVars, taskVars, walkVars, filterVars, quickVars, startVars
<1>2. FlagsOK'
  BY <1>1, Zenon DEF IInv, StateOK, FlagsOK
<1>3. DaemonOK' /\ FrontendOK'
  BY <1>1 DEF IInv, StateOK, DaemonOK, FrontendOK
<1>4. IdsOK' /\ ShownOK'
  BY <1>1 DEF IInv, IdsOK, Numbered, AskedOnce, Unborn, ShownOK
<1>5. \A s \in Searches : MaxResults(s)' = MaxResults(s) /\ (Full(s)' <=> Full(s))
  BY <1>1 DEF MaxResults, Full
<1>6. WalksOK'
  BY <1>1, <1>5 DEF IInv, WalksOK, WalkOK, TaskOK, WalkEnded, Walking, HasPermit, Delivering, Heard, Told, Got, OnItsWay
<1>7. \A i \in 1..Len(out) : out[i].id \in Searches
  BY EventTypes DEF IInv, StateOK, DaemonOK
<1>8. OutOK'
  BY <1>1, <1>5, <1>7 DEF IInv, OutOK
<1>9. Delivered' /\ PermitsBounded'
  BY <1>1 DEF IInv, Delivered, Heard, Told, Got, OnItsWay, PermitsBounded, Permits, HasPermit
<1>10. QED
  BY <1>2, <1>3, <1>4, <1>6, <1>8, <1>9 DEF IInv, StateOK

\* Vim reads a line that changes only what it shows.
LEMMA DispatchFrame ==
  ASSUME IInv, out # <<>>, out' = Tail(out), UNCHANGED <<alive, stdin, stalled, owner, total, orphaned>>, UiUnchanged,
         FrontendOK', ShownOK', bcbs' \subseteq bcbs, filter'.id \in {filter.id, 0},
         answered' \in {answered, filter.id}, quickId' \in {quickId, 0},
         \A r \in Searches : r # quickId => results'[r] = results[r],
         \A s \in Searches : Heard(s)' => Heard(s) /\ \A n \in 1..found[s] : Told(s, n) => Told(s, n)'
  PROVE  IInv'
<1>1. UNCHANGED <<task, token, sending, walker, found, batch, chan>>
  BY DEF UiUnchanged, taskVars, walkVars
<1>2. out \in Seq(Events)
  BY DEF IInv, StateOK, DaemonOK
<1>3. /\ out' \in Seq(Events) /\ Len(out') = Len(out) - 1 /\ Len(out) \in Nat \ {0}
      /\ \A i \in 1..Len(out') : out'[i] = out[i + 1]
  BY <1>2, HeadTailProperties, EmptySeq
<1>4. DaemonOK'
  <2>1. Len(out') <= Capacity
    BY <1>3, SearchAssumption DEF IInv, StateOK, DaemonOK
  <2>2. QED
    BY <1>1, <1>3, <2>1 DEF IInv, StateOK, DaemonOK
<1>5. FlagsOK'
  BY <1>1, Zenon DEF IInv, StateOK, FlagsOK
<1>6. IdsOK'
  <2>1. Numbered'
    BY DEF IInv, IdsOK, Numbered
  <2>2. \A i \in 1..Len(out') : i + 1 \in 1..Len(out)
    BY <1>3
  <2>3. \A i \in 1..Len(out') : \E j \in 1..Len(out) : out'[i] = out[j]
    BY <1>3, <2>2
  <2>4. /\ {} \in SUBSET Searches /\ \A r \in Searches \ {} : owner'[r] = owner[r]
        /\ \A r \in {} : owner'[r] # "none" /\ Unborn(r)
    OBVIOUS
  <2>5. bcbs' \subseteq bcbs \cup {} /\ filter'.id \in {filter.id, 0} \cup {} /\ quickId' \in {quickId, 0} \cup {}
        /\ answered' \in {answered, filter.id, 0}
    OBVIOUS
  <2>6. \A i \in 1..Len(stdin') :
           \/ i \in 1..Len(stdin) /\ stdin'[i] = stdin[i]
           \/ stdin'[i].type = "cancel" /\ stdin'[i].id \in {filter.id, quickId}
           \/ i = Len(stdin') /\ stdin'[i].id \in {}
    OBVIOUS
  <2>7. QED
    BY <1>1, <2>1, <2>3, <2>4, <2>5, <2>6, IdsFrame
<1>7. StateOK'
  BY <1>4, <1>5 DEF StateOK
<1>8. \A s \in Searches : owner[s] # "none" => owner'[s] = owner[s] /\ total'[s] = total[s]
  OBVIOUS
<1>9. QED
  BY <1>3, <1>6, <1>7, <1>8, UiFrame

\* What is known of the first event on the way.
LEMMA HeadFacts ==
  ASSUME IInv, out # <<>>, out' = Tail(out), UiUnchanged, NEW e, e = Head(out)
  PROVE  /\ e.id \in Searches /\ e.items \subseteq 1..found[e.id] /\ owner[e.id] # "none" /\ found' = found
         /\ found[e.id] \in Nat /\ found[e.id] <= total[e.id] /\ found[e.id] <= MaxResults(e.id) /\ total[e.id] \in Nat
         /\ \A s \in Searches : \A n \in 1..found[s] : OnItsWay(s, n) => OnItsWay(s, n)' \/ (s = e.id /\ n \in e.items)
         /\ e.kind = "done" =>
              Full(e.id) /\ (e.id \in bcbs /\ e.id \in {filter.id, quickId} => \A n \in 1..found[e.id] : Got(e.id, n))
<1>1. out \in Seq(Events)
  BY DEF IInv, StateOK, DaemonOK
<1>2. /\ out' \in Seq(Events) /\ Len(out') = Len(out) - 1 /\ Len(out) \in Nat \ {0}
      /\ e = out[1] /\ \A i \in 1..Len(out') : out'[i] = out[i + 1]
  BY <1>1, HeadTailProperties, EmptySeq
<1>3. 1 \in 1..Len(out)
  BY <1>2
<1>4. e.id \in Searches /\ owner[e.id] # "none" /\ e.items \subseteq 1..found[e.id]
  BY <1>1, <1>2, <1>3, EventTypes DEF IInv, IdsOK, Unborn, OutOK
<1>5. found' = found /\ found[e.id] \in Nat /\ total[e.id] \in Nat
      /\ found[e.id] <= total[e.id] /\ found[e.id] <= MaxResults(e.id)
  BY <1>4 DEF UiUnchanged, walkVars, IInv, StateOK, DaemonOK, FrontendOK, WalksOK, WalkOK
<1>6. ASSUME NEW s \in Searches, NEW n \in 1..found[s], OnItsWay(s, n)
      PROVE  OnItsWay(s, n)' \/ (s = e.id /\ n \in e.items)
  <2>1. PICK i \in 1..Len(out) : out[i].id = s /\ n \in out[i].items
    BY <1>6 DEF OnItsWay
  <2>2. CASE i = 1
    BY <1>2, <2>1, <2>2
  <2>3. CASE i # 1
    <3>1. i - 1 \in 1..Len(out') /\ (i - 1) + 1 = i
      BY <1>2, <2>3
    <3>2. out'[i - 1] = out[i]
      BY <1>2, <3>1
    <3>3. QED
      BY <2>1, <3>1, <3>2 DEF OnItsWay
  <2>4. QED
    BY <2>2, <2>3
<1>7. ASSUME e.kind = "done", e.id \in bcbs, e.id \in {filter.id, quickId}, NEW n \in 1..found[e.id] PROVE Got(e.id, n)
  <2>1. Told(e.id, n)
    BY <1>2, <1>3, <1>7 DEF IInv, Delivered, Heard
  <2>2. ~OnItsWay(e.id, n)
    <3>1. e.items = {} /\ \A j \in 1..Len(out) : j > 1 => out[j].id # e.id
      BY <1>2, <1>3, <1>7 DEF IInv, OutOK
    <3>2. \A j \in 1..Len(out) : j = 1 \/ j > 1
      BY <1>2
    <3>3. QED
      BY <1>2, <3>1, <3>2 DEF OnItsWay
  <2>3. QED
    BY <2>1, <2>2 DEF Told
<1>8. e.kind = "done" => Full(e.id)
  BY <1>2, <1>3 DEF IInv, OutOK
<1>9. QED
  BY <1>4, <1>5, <1>6, <1>7, <1>8

LEMMA ChunkStep ==
  ASSUME IInv, out # <<>>, out' = Tail(out), UNCHANGED <<alive, stdin, stalled, startVars>>, UiUnchanged,
         NEW e, e = Head(out), e.id \in bcbs, OnChunk(e.id, e.items)
  PROVE  IInv'
<1>1. UNCHANGED <<alive, stdin, stalled, owner, total, orphaned, filter, answered, quickId, quickfix, bcbs>>
  BY DEF startVars, OnChunk
<1>2. /\ e.id \in Searches /\ e.items \subseteq 1..found[e.id] /\ found' = found /\ found[e.id] \in Nat
      /\ \A s \in Searches : \A n \in 1..found[s] : OnItsWay(s, n) => OnItsWay(s, n)' \/ (s = e.id /\ n \in e.items)
  BY HeadFacts
<1>3. FrontendOK
  BY DEF IInv, StateOK
<1> DEFINE s == e.id
<1>4. /\ hits' = (IF s = filter.id THEN hits \cup ({s} \X e.items) ELSE hits)
      /\ results' = IF s = quickId THEN [results EXCEPT ![s] = @ \cup e.items] ELSE results
  BY DEF OnChunk
<1>5. s \in Searches /\ s # 0 /\ e.items \subseteq Nat
  BY <1>2, SearchAssumption DEF Searches
<1>6. \A r \in Searches : results'[r] = IF r = s /\ s = quickId THEN results[r] \cup e.items ELSE results[r]
  BY <1>3, <1>4, <1>5 DEF FrontendOK
<1>7. FrontendOK'
  <2>1. hits' \subseteq Searches \X Nat
    BY <1>3, <1>4, <1>5 DEF FrontendOK
  <2>2. results' \in [Searches -> SUBSET Nat]
    BY <1>3, <1>4, <1>5 DEF FrontendOK
  <2>3. QED
    BY <1>1, <1>3, <2>1, <2>2 DEF FrontendOK
<1>8. ShownOK'
  <2>1. filter.id # 0 => owner[filter.id] = "filter" /\ answered = 0 /\ hits' \subseteq {filter.id} \X (1..found[filter.id])
    BY <1>2, <1>4 DEF IInv, ShownOK
  <2>2. \A r \in Searches : results'[r] \subseteq 1..found[r]
    <3>1. \A r \in Searches : results[r] \subseteq 1..found[r]
      BY DEF IInv, ShownOK
    <3>2. QED
      BY <1>2, <1>6, <3>1
  <2>3. answered # 0 => hits' = hits
    BY <1>4, <1>5, <2>1
  <2>4. QED
    BY <1>1, <1>2, <2>1, <2>2, <2>3 DEF IInv, ShownOK
<1>9. ASSUME NEW r \in Searches, Heard(r)' PROVE Heard(r) /\ \A n \in 1..found[r] : Told(r, n) => Told(r, n)'
  <2>1. Heard(r)
    BY <1>1, <1>9 DEF Heard
  <2>2. ASSUME NEW n \in 1..found[r], Told(r, n) PROVE Told(r, n)'
    <3>1. CASE Got(r, n)
      <4>1. Got(r, n)'
        BY <1>1, <1>4, <1>6, <3>1 DEF Got
      <4>2. QED
        BY <4>1 DEF Told
    <3>2. CASE r = s /\ n \in e.items
      <4>1. s = filter.id => <<s, n>> \in hits'
        BY <1>4, <3>2
      <4>2. s = quickId => n \in results'[s]
        BY <1>6, <3>2
      <4>3. Got(r, n)'
        BY <1>1, <3>2, <4>1, <4>2 DEF Got
      <4>4. QED
        BY <4>3 DEF Told
    <3>3. CASE OnItsWay(r, n)'
      BY <3>3 DEF Told
    <3>4. QED
      BY <1>2, <2>2, <3>1, <3>2, <3>3 DEF Told
  <2>3. QED
    BY <2>1, <2>2
<1>10. \A r \in Searches : r # quickId => results'[r] = results[r]
  BY <1>6
<1>11. QED
  BY <1>1, <1>7, <1>8, <1>9, <1>10, DispatchFrame

\* An event that ends its search, or one that nobody listens to.
LEMMA EndStep ==
  ASSUME IInv, out # <<>>, out' = Tail(out), UNCHANGED <<alive, stdin, stalled, startVars, orphaned, results>>, UiUnchanged,
         NEW e, e = Head(out), bcbs' = bcbs \ {e.id}, FrontendOK', ShownOK',
         filter'.id \in {filter.id, 0}, answered' \in {answered, filter.id}, quickId' \in {quickId, 0},
         \A r \in Searches : (filter'.id = r => filter.id = r /\ hits' = hits) /\ (quickId' = r => quickId = r)
  PROVE  IInv'
<1>1. UNCHANGED <<owner, total>>
  BY DEF startVars
<1>2. /\ e.id \in Searches
      /\ \A s \in Searches : \A n \in 1..found[s] : OnItsWay(s, n) => OnItsWay(s, n)' \/ (s = e.id /\ n \in e.items)
  BY HeadFacts
<1>3. ASSUME NEW r \in Searches, Heard(r)' PROVE Heard(r) /\ \A n \in 1..found[r] : Told(r, n) => Told(r, n)'
  <2>1. r # e.id /\ Heard(r)
    BY <1>3 DEF Heard
  <2>2. QED
    BY <1>2, <2>1 DEF Told, Got
<1>4. QED
  BY <1>1, <1>3, DispatchFrame

LEMMA DoneStep ==
  ASSUME IInv, out # <<>>, out' = Tail(out), UNCHANGED <<alive, stdin, stalled, startVars>>, UiUnchanged,
         NEW e, e = Head(out), e.id \in bcbs, e.kind = "done", OnDone(e.id)
  PROVE  IInv'
<1> DEFINE s == e.id
<1>1. UNCHANGED <<owner, total, hits, orphaned, results>> /\ bcbs' = bcbs \ {s}
  BY DEF startVars, OnDone
<1>2. /\ s \in Searches /\ owner[s] # "none" /\ found' = found
      /\ found[s] \in Nat /\ found[s] <= total[s] /\ found[s] <= MaxResults(s) /\ total[s] \in Nat
      /\ Full(s) /\ (s \in {filter.id, quickId} => \A n \in 1..found[s] : Got(s, n))
  BY HeadFacts
<1>3. FrontendOK /\ ShownOK
  BY DEF IInv, StateOK
<1>4. s # 0
  BY <1>2, SearchAssumption DEF Searches
<1>5. /\ s = filter.id => filter' = [NoFilter EXCEPT !.truncated = Cardinality(hits) >= FilterMaxResults] /\ answered' = s
      /\ s # filter.id => UNCHANGED <<filter, answered>>
      /\ s = quickId => quickId' = 0 /\ quickfix' \in {quickfix, [of |-> s, items |-> results[s]]}
      /\ s # quickId => UNCHANGED <<quickId, quickfix>>
  BY DEF OnDone
<1> HIDE DEF s
<1>6. filter' \in [id : Searches \cup {0}, pending : BOOLEAN, truncated : BOOLEAN]
  <2>1. CASE s = filter.id
    <3>1. (Cardinality(hits) >= FilterMaxResults) \in BOOLEAN
      OBVIOUS
    <3>2. QED
      BY <1>5, <2>1, <3>1 DEF NoFilter
  <2>2. CASE s # filter.id
    BY <1>3, <1>5, <2>2 DEF FrontendOK
  <2>3. QED
    BY <2>1, <2>2
<1>7. s = filter.id => filter'.id = 0
  BY <1>5 DEF NoFilter
<1>8. FrontendOK'
  <2>1. quickfix' \in [of : Searches \cup {0}, items : SUBSET Nat]
    BY <1>2, <1>3, <1>5 DEF FrontendOK
  <2>2. quickId' \in Searches \cup {0} /\ answered' \in Searches \cup {0}
    BY <1>2, <1>3, <1>5 DEF FrontendOK
  <2>3. QED
    BY <1>1, <1>3, <1>6, <2>1, <2>2 DEF FrontendOK
<1>9. ASSUME s = filter.id, ~filter'.truncated, FilterMaxResults <= MAX_SEARCH_RESULTS PROVE hits = {s} \X (1..total[s])
  <2>1. hits \subseteq {s} \X (1..found[s]) /\ owner[s] = "filter"
    BY <1>3, <1>4, <1>9 DEF ShownOK
  <2>2. \A n \in 1..found[s] : <<s, n>> \in hits
    BY <1>2, <1>9 DEF Got
  <2>3. hits = {s} \X (1..found[s])
    BY <2>1, <2>2
  <2>4. Cardinality(hits) = found[s]
    <3>1. IsFiniteSet({s}) /\ Cardinality({s}) = 1
      BY FS_Singleton
    <3>2. IsFiniteSet(1..found[s]) /\ Cardinality(1..found[s]) = found[s]
      <4>1. 1 \in Int /\ found[s] \in Int
        BY <1>2
      <4>2. IsFiniteSet(1..found[s]) /\ Cardinality(1..found[s]) = IF 1 > found[s] THEN 0 ELSE found[s] - 1 + 1
        BY ONLY <4>1, FS_Interval
      <4>3. QED
        BY <1>2, <4>2
    <3>3. Cardinality({s} \X (1..found[s])) = 1 * found[s]
      <4>1. Cardinality({s} \X (1..found[s])) = Cardinality({s}) * Cardinality(1..found[s])
        BY ONLY <3>1, <3>2, FS_Product, Zenon
      <4>2. QED
        BY ONLY <3>1, <3>2, <4>1
    <3>4. QED
      BY <1>2, <2>3, <3>3
  <2>5. ~(Cardinality(hits) >= FilterMaxResults)
    BY <1>5, <1>9 DEF NoFilter
  <2>6. MaxResults(s) = FilterMaxResults
    BY <1>9, <2>1, SearchAssumption DEF MaxResults
  <2>7. found[s] = total[s]
    BY <1>2, <2>4, <2>5, <2>6, SearchAssumption DEF Full
  <2>8. QED
    BY <2>3, <2>7
<1>10. ShownOK'
  <2>1. filter'.id # 0 => UNCHANGED <<filter, answered>> /\ s # filter.id
    BY <1>5, <1>7
  <2>2. quickId' # 0 => quickId' = quickId
    BY <1>5
  <2>3. (answered' # 0 /\ ~filter'.truncated /\ FilterMaxResults <= MAX_SEARCH_RESULTS)
          => hits' = {answered'} \X (1..total'[answered'])
    BY <1>1, <1>3, <1>5, <1>9 DEF ShownOK
  <2>4. QED
    BY <1>1, <1>2, <1>3, <2>1, <2>2, <2>3 DEF ShownOK
<1>11. /\ filter'.id \in {filter.id, 0} /\ answered' \in {answered, filter.id} /\ quickId' \in {quickId, 0}
       /\ \A r \in Searches : (filter'.id = r => filter.id = r /\ hits' = hits) /\ (quickId' = r => quickId = r)
  <2>1. \A r \in Searches : r # 0
    BY SearchAssumption DEF Searches
  <2>2. QED
    BY <1>1, <1>5, <1>7, <2>1
<1>12. QED
  BY <1>1, <1>8, <1>10, <1>11, EndStep DEF s

LEMMA ErrorStep ==
  ASSUME IInv, out # <<>>, out' = Tail(out), UNCHANGED <<alive, stdin, stalled, startVars>>, UiUnchanged,
         NEW e, e = Head(out), e.id \in bcbs, OnError(e.id)
  PROVE  IInv'
<1> DEFINE s == e.id
<1>1. UNCHANGED <<owner, total, hits, orphaned, answered, results, quickfix>> /\ bcbs' = bcbs \ {s}
  BY DEF startVars, OnError
<1>2. s \in Searches /\ found' = found
  BY HeadFacts
<1>3. FrontendOK /\ ShownOK
  BY DEF IInv, StateOK
<1>4. \A r \in Searches : r # 0
  BY SearchAssumption DEF Searches
<1>5. /\ filter' = (IF s = filter.id THEN [filter EXCEPT !.id = 0, !.pending = FALSE] ELSE filter)
      /\ quickId' = IF s = quickId THEN 0 ELSE quickId
  BY DEF OnError
<1>6. /\ filter' \in [id : Searches \cup {0}, pending : BOOLEAN, truncated : BOOLEAN]
      /\ filter'.id = (IF s = filter.id THEN 0 ELSE filter.id) /\ filter'.truncated = filter.truncated
  BY <1>3, <1>5 DEF FrontendOK
<1>7. FrontendOK'
  BY <1>1, <1>3, <1>5, <1>6 DEF FrontendOK
<1>8. ShownOK'
  BY <1>1, <1>2, <1>3, <1>5, <1>6 DEF ShownOK
<1>9. QED
  BY <1>1, <1>4, <1>5, <1>6, <1>7, <1>8, EndStep

LEMMA DispatchStep == IInv /\ Dispatch => IInv'
<1> SUFFICES ASSUME IInv, Dispatch PROVE IInv'
  OBVIOUS
<1> DEFINE e == Head(out)
<1>1. out # <<>> /\ out' = Tail(out) /\ UNCHANGED <<alive, stdin, stalled, startVars>> /\ UiUnchanged
  BY DEF Dispatch
<1>2. CASE e.id \in bcbs /\ OnChunk(e.id, e.items)
  BY <1>1, <1>2, ChunkStep
<1>3. CASE e.id \in bcbs /\ e.kind = "done" /\ OnDone(e.id)
  BY <1>1, <1>3, DoneStep
<1>4. CASE e.id \in bcbs /\ OnError(e.id)
  BY <1>1, <1>4, ErrorStep
<1>5. CASE e.id \notin bcbs /\ UNCHANGED <<filterVars, quickVars, bcbs>>
  <2>1. UNCHANGED <<owner, total, filter, hits, answered, orphaned, quickId, results, quickfix, bcbs>>
    BY <1>1, <1>5 DEF startVars, filterVars, quickVars
  <2>2. found' = found
    BY <1>1 DEF UiUnchanged, walkVars
  <2>3. FrontendOK' /\ ShownOK'
    BY <1>1, <2>1, <2>2 DEF IInv, StateOK, FrontendOK, ShownOK
  <2>4. bcbs' = bcbs \ {e.id}
    BY <1>5
  <2>5. QED
    BY <1>1, <2>1, <2>3, <2>4, EndStep
<1>6. QED
  BY <1>2, <1>3, <1>4, <1>5 DEF Dispatch

----------------------------------------------------------------------------
LEMMA NextStep == IInv /\ [Next]_vars => IInv'
<1> SUFFICES ASSUME IInv, [Next]_vars PROVE IInv'
  OBVIOUS
<1>1. CASE UNCHANGED vars
  <2>1. alive \in BOOLEAN
    BY Zenon DEF IInv, StateOK, FlagsOK
  <2>2. alive' \in BOOLEAN /\ UNCHANGED <<wireVars, taskVars, walkVars, chan, filterVars, quickVars, startVars, bcbs>>
    BY <1>1, <2>1 DEF vars
  <2>3. QED
    BY <2>2, AliveOnly
<1>2. CASE Restarted
  <2>1. alive' \in BOOLEAN /\ UNCHANGED <<wireVars, taskVars, walkVars, chan, filterVars, quickVars, startVars, bcbs>>
    BY <1>2 DEF Restarted, UiUnchanged
  <2>2. QED
    BY <2>1, AliveOnly
<1>3. CASE \E s \in Searches : Walk(s) \/ Task(s)
  BY <1>3, WalkStep, TaskStep
<1>4. QED
  BY <1>1, <1>2, <1>3, AcceptStep, FilterStep, ClearStep, QuickSearchStep, DispatchStep, CancelStep, ExitStep DEF Next

\* The inductive invariant holds in every state.
THEOREM Invariant == Spec => []IInv
<1>1. QED
  BY InitStep, NextStep, PTL DEF Spec

\* Types: the daemon's and the frontend's part, and no queue above its bound.
THEOREM TypeCorrect == Spec => []TypeOK
<1>1. DaemonOK /\ FrontendOK /\ FlagsOK => TypeOK
  BY Zenon DEF DaemonOK, FrontendOK, FlagsOK, TypeOK
<1>2. IInv => TypeOK
  BY <1>1 DEF IInv, StateOK
<1>3. QED
  BY <1>2, Invariant, PTL

\* As long as the client reads, every walker is that of a task with a permit,
\* and there are no more of those than permits.
THEOREM WalkersBoundedHolds == Spec => []WalkersBounded
<1>1. ASSUME IInv, ~stalled PROVE Cardinality({s \in Searches : Walking(s)}) <= MAX_CONCURRENT_SCANS
  <2>1. {s \in Searches : Walking(s)} \subseteq Permits
    BY <1>1 DEF IInv, WalksOK, TaskOK, Permits
  <2>2. IsFiniteSet(Searches) /\ Permits \subseteq Searches
    BY FS_Interval, SearchAssumption DEF Searches, Permits
  <2>3. IsFiniteSet(Permits) /\ Cardinality(Permits) \in Nat
    BY <2>2, FS_Subset, FS_CardinalityType
  <2>4. /\ IsFiniteSet({s \in Searches : Walking(s)})
        /\ Cardinality({s \in Searches : Walking(s)}) <= Cardinality(Permits)
    BY <2>1, <2>3, FS_Subset
  <2>5. Cardinality({s \in Searches : Walking(s)}) \in Nat
    BY <2>4, FS_CardinalityType
  <2>6. Cardinality(Permits) <= MAX_CONCURRENT_SCANS
    BY <1>1 DEF IInv, PermitsBounded
  <2>7. QED
    BY <2>3, <2>4, <2>5, <2>6, SearchAssumption
<1>2. IInv => WalkersBounded
  BY <1>1 DEF WalkersBounded
<1>3. QED
  BY <1>2, Invariant, PTL

\* A filter shows matches of its own query only, and all of them when it was
\* answered and is not marked truncated.
THEOREM FilterCompleteHolds == Spec => []FilterComplete
<1>1. ASSUME IInv, filter.id # 0 PROVE hits \subseteq {filter.id} \X (1..total[filter.id])
  <2>1. filter.id \in Searches /\ hits \subseteq {filter.id} \X (1..found[filter.id])
    BY <1>1 DEF IInv, StateOK, FrontendOK, ShownOK
  <2>2. found[filter.id] <= total[filter.id] /\ found[filter.id] \in Nat /\ total[filter.id] \in Nat
    BY <1>1, <2>1 DEF IInv, StateOK, DaemonOK, FrontendOK, WalksOK, WalkOK
  <2>3. 1..found[filter.id] \subseteq 1..total[filter.id]
    BY <2>2
  <2>4. QED
    BY <2>1, <2>3
<1>2. IInv => FilterComplete
  BY <1>1 DEF FilterComplete, IInv, ShownOK
<1>3. QED
  BY <1>2, Invariant, PTL

\* The quickfix list changes only to the whole answer of the newest search.
THEOREM QuickfixOfNewestHolds == Spec => QuickfixOfNewest
<1>1. ASSUME IInv, [Next]_vars, quickfix' # quickfix
      PROVE  /\ \A s \in Searches : owner[s] = "quickfix" => s <= quickfix'.of
             /\ quickfix'.items = Answer(quickfix'.of)
  <2>1. /\ out # <<>> /\ out' = Tail(out) /\ UiUnchanged
        /\ Head(out).id \in bcbs /\ Head(out).kind = "done" /\ OnDone(Head(out).id)
    <3>1. Dispatch
      BY <1>1 DEF Next, vars, Walk, Task, WalkerUnchanged, TaskUnchanged, WalkStart, WalkMatch, WalkCancelled,
                  WalkExhausted, Flush, FlushLast, TakePermit, PermitCancelled, Recv, SendChunk, Join, SendDone,
                  SendError, Accept, Filter, ClearFilterHits, QuickSearch, CancelFrontendWork, Exit, Restarted, quickVars
    <3>2. QED
      BY <1>1, <3>1 DEF Dispatch, OnChunk, OnError, quickVars
  <2> DEFINE s == Head(out).id
  <2>2. s = quickId /\ quickfix' = [of |-> s, items |-> results[s]]
    BY <1>1, <2>1 DEF OnDone
  <2>3. /\ s \in Searches /\ found[s] \in Nat /\ found[s] <= total[s] /\ found[s] <= MaxResults(s) /\ total[s] \in Nat
        /\ Full(s) /\ \A n \in 1..found[s] : Got(s, n)
    BY <1>1, <2>1, <2>2, HeadFacts
  <2> HIDE DEF s
  <2>4. s # 0 /\ MaxResults(s) \in Nat
    BY <2>3, MaxType, SearchAssumption DEF Searches
  <2>5. \A r \in Searches : owner[r] = "quickfix" => r <= s
    BY <1>1, <2>2, <2>4 DEF IInv, ShownOK
  <2>6. results[s] = 1..found[s]
    BY <1>1, <2>2, <2>3 DEF IInv, ShownOK, Got
  <2>7. 1..found[s] = Answer(s)
    BY <2>3, <2>4 DEF Full, Answer
  <2>8. QED
    BY <2>2, <2>5, <2>6, <2>7
<1>2. IInv /\ [Next]_vars =>
        [quickfix' # quickfix =>
           /\ \A s \in Searches : owner[s] = "quickfix" => s <= quickfix'.of
           /\ quickfix'.items = Answer(quickfix'.of)]_vars
  BY <1>1
<1>3. QED
  BY <1>2, Invariant, PTL DEF Spec, QuickfixOfNewest

----------------------------------------------------------------------------
(* Nobody waits for nothing.                                               *)

Asked(s) == \E i \in 1..Len(stdin) : stdin[i].type = "search" /\ stdin[i].id = s
Ending(s) == \E i \in 1..Len(out) : out[i].kind # "chunk" /\ out[i].id = s
AtWork(s) == task[s] \in {"permit", "recv", "send", "join", "done", "error"}

\* Search s goes on: it was not cancelled, and it is on its way to the daemon, or its task
\* is at work, or its last event is on the way.
Uncancelled(s) ==
  ~token[s] /\ \A i \in 1..Len(stdin) : stdin[i].type = "cancel" => stdin[i].id # s

Coming(s) == alive /\ Uncancelled(s) /\ (Asked(s) \/ AtWork(s) \/ Ending(s))

\* FilterEnds, without the time it takes: a callback waits for a search that goes on, with
\* a walker if the task waits for one, unless the daemon has given its output path up;
\* and a filter that is searching has its callback, unless they were thrown away.
AnswersComing ==
  /\ \A s \in bcbs : alive /\ (stalled \/ Coming(s))
  /\ \A s \in Searches : task[s] \in {"recv", "send", "join"} => walker[s] # "none"
  /\ filter.id # 0 => orphaned \/ filter.id \in bcbs

CallbacksDue == \A s \in bcbs : alive /\ Uncancelled(s) /\ (stalled \/ Asked(s) \/ AtWork(s) \/ Ending(s))
FilterHeld == filter.id # 0 => orphaned \/ filter.id \in bcbs
Walked == \A s \in Searches : task[s] \in {"recv", "send", "join"} => walker[s] # "none"
TokensBorn == \A s \in Searches : token[s] => owner[s] # "none"

DueInv == CallbacksDue /\ FilterHeld /\ Walked /\ TokensBorn

LEMMA WalkDue == \A s \in Searches : IInv /\ DueInv /\ Walk(s) => DueInv'
<1> SUFFICES ASSUME IInv, DueInv, NEW s \in Searches, Walk(s) PROVE DueInv'
  OBVIOUS
<1>1. UNCHANGED <<alive, stdin, out, stalled, task, token, filter, orphaned, owner, bcbs>>
  BY DEF Walk, WalkStart, WalkMatch, WalkCancelled, WalkExhausted, Flush, FlushLast, WalkerUnchanged,
     wireVars, taskVars, filterVars, startVars
<1>2. walker \in [Searches -> {"none", "start", "walk", "flush", "last", "ended", "failed"}]
  BY DEF IInv, StateOK, DaemonOK
<1>3. \E w \in {"walk", "failed", "flush", "last", "ended"} : walker' = [walker EXCEPT ![s] = w]
  BY Zenon DEF Walk, WalkStart, WalkMatch, WalkCancelled, WalkExhausted, Flush, FlushLast
<1>4. \A r \in Searches : walker[r] # "none" => walker'[r] # "none"
  BY <1>2, <1>3
<1>5. CallbacksDue' /\ FilterHeld' /\ TokensBorn'
  BY <1>1 DEF DueInv, CallbacksDue, FilterHeld, TokensBorn, Uncancelled, Asked, AtWork, Ending
<1>6. Walked'
  BY <1>1, <1>4 DEF DueInv, Walked
<1>7. QED
  BY <1>5, <1>6 DEF DueInv

\* A task that is not cancelled goes on, says that it has ended, or gives the path up.
LEMMA TaskDue == \A s \in Searches : IInv /\ DueInv /\ Task(s) => DueInv'
<1> SUFFICES ASSUME IInv, DueInv, NEW s \in Searches, Task(s) PROVE DueInv'
  OBVIOUS
<1>1. UNCHANGED <<alive, stdin, token, filter, orphaned, owner, bcbs>>
  BY DEF Task, TakePermit, PermitCancelled, Recv, SendChunk, Join, SendDone, SendError, TaskUnchanged,
     filterVars, startVars
<1>2. /\ task \in [Searches -> {"none", "permit", "recv", "send", "join", "done", "error", "over"}]
      /\ walker \in [Searches -> {"none", "start", "walk", "flush", "last", "ended", "failed"}]
      /\ out \in Seq(Events)
  BY DEF IInv, StateOK, DaemonOK
<1>3. /\ \A r \in Searches \ {s} : task'[r] = task[r]
      /\ \A r \in Searches : walker[r] # "none" => walker'[r] # "none"
      /\ task'[s] \in {"recv", "send", "join"} => walker'[s] # "none"
  <2>1. CASE TakePermit(s)
    BY <1>2, <2>1 DEF TakePermit, GoTo
  <2>2. CASE PermitCancelled(s) \/ Recv(s) \/ Join(s)
    BY <1>2, <2>2 DEF PermitCancelled, Recv, Join, GoTo, walkVars, DueInv, Walked
  <2>3. CASE SendChunk(s) \/ SendDone(s) \/ SendError(s)
    BY <1>2, <2>3 DEF SendChunk, SendDone, SendError, SendUnlessCancelled, GoTo, walkVars, DueInv, Walked
  <2>4. QED
    BY <2>1, <2>2, <2>3 DEF Task
<1>4. UNCHANGED out \/ \E e : out' = Append(out, e)
  BY Zenon DEF Task, TakePermit, PermitCancelled, Recv, SendChunk, Join, SendDone, SendError, SendUnlessCancelled
<1>5. \A r \in Searches : Ending(r) => Ending(r)'
  <2>1. \A i \in 1..Len(out) : i \in 1..Len(out') /\ out'[i] = out[i]
    BY <1>2, <1>4
  <2>2. QED
    BY <2>1 DEF Ending
<1>6. stalled => stalled'
  BY Zenon DEF Task, TakePermit, PermitCancelled, Recv, SendChunk, Join, SendDone, SendError, SendUnlessCancelled
<1>7. ~token[s] /\ AtWork(s) => stalled' \/ AtWork(s)' \/ Ending(s)'
  <2> SUFFICES ASSUME ~token[s], AtWork(s) PROVE stalled' \/ AtWork(s)' \/ Ending(s)'
    OBVIOUS
  <2>1. CASE TakePermit(s) \/ PermitCancelled(s) \/ Recv(s) \/ Join(s)
    BY <1>2, <2>1 DEF TakePermit, PermitCancelled, Recv, Join, GoTo, AtWork
  <2>2. CASE SendChunk(s)
    BY <1>2, <2>2 DEF SendChunk, SendUnlessCancelled, GoTo, AtWork
  <2>3. ASSUME NEW kind \in {"done", "error"}, SendUnlessCancelled(s, kind, {}, "over", "over")
        PROVE  stalled' \/ Ending(s)'
    <3>1. stalled \/ stalled' \/ out' = Append(out, [id |-> s, kind |-> kind, items |-> {}])
      BY <2>3 DEF SendUnlessCancelled
    <3>2. ASSUME out' = Append(out, [id |-> s, kind |-> kind, items |-> {}]) PROVE Ending(s)'
      <4> DEFINE e == [id |-> s, kind |-> kind, items |-> {}]
      <4>1. e.id = s /\ e.kind # "chunk"
        OBVIOUS
      <4> HIDE DEF e
      <4>2. Len(out) + 1 \in 1..Len(out') /\ out'[Len(out) + 1] = e
        BY <1>2, <3>2 DEF e
      <4>3. QED
        BY <4>1, <4>2 DEF Ending
    <3>3. QED
      BY <1>6, <3>1, <3>2
  <2>4. QED
    BY <2>1, <2>2, <2>3 DEF Task, SendDone, SendError
<1>8. CallbacksDue'
  <2> SUFFICES ASSUME NEW r \in bcbs PROVE alive /\ Uncancelled(r)' /\ (stalled' \/ Asked(r)' \/ AtWork(r)' \/ Ending(r)')
    BY <1>1 DEF CallbacksDue
  <2>1. r \in Searches /\ alive /\ Uncancelled(r) /\ (stalled \/ Asked(r) \/ AtWork(r) \/ Ending(r))
    BY DEF DueInv, CallbacksDue, IInv, StateOK, FrontendOK
  <2>2. Uncancelled(r)' /\ (Asked(r) => Asked(r)')
    BY <1>1, <2>1 DEF Uncancelled, Asked
  <2>3. AtWork(r) => stalled' \/ AtWork(r)' \/ Ending(r)'
    <3>1. CASE r = s
      BY <1>7, <2>1, <3>1 DEF Uncancelled
    <3>2. CASE r # s
      BY <1>3, <2>1, <3>2 DEF AtWork
    <3>3. QED
      BY <3>1, <3>2
  <2>4. QED
    BY <1>5, <1>6, <2>1, <2>2, <2>3
<1>9. Walked'
  BY <1>3 DEF DueInv, Walked
<1>10. QED
  BY <1>1, <1>8, <1>9 DEF DueInv, FilterHeld, TokensBorn

\* The request loop takes a search to its task, and a cancel to a search nobody waits for.
LEMMA AcceptDue == IInv /\ DueInv /\ Accept => DueInv'
<1> SUFFICES ASSUME IInv, DueInv, Accept PROVE DueInv'
  OBVIOUS
<1> DEFINE req == Head(stdin)
<1>1. stdin \in Seq(Requests) /\ stdin # <<>> /\ stdin' = Tail(stdin)
  BY DEF Accept, IInv, StateOK, FrontendOK
<1>2. /\ Len(stdin) \in Nat \ {0} /\ Len(stdin') = Len(stdin) - 1
      /\ req = stdin[1] /\ \A i \in 1..Len(stdin') : stdin'[i] = stdin[i + 1]
  BY <1>1, HeadTailProperties, EmptySeq
<1>3. 1 \in 1..Len(stdin) /\ \A i \in 1..Len(stdin') : i + 1 \in 1..Len(stdin)
  BY <1>2
<1>4. req.id \in Searches
  BY <1>1, <1>2, <1>3, RequestTypes
<1> HIDE DEF req
<1>5. UNCHANGED <<alive, out, stalled, walker, filter, orphaned, owner, bcbs>>
  BY DEF Accept, walkVars, filterVars, startVars
<1>6. \/ req.type = "search" /\ task' = [task EXCEPT ![req.id] = "permit"] /\ UNCHANGED token
      \/ /\ req.type = "cancel" /\ UNCHANGED task
         /\ token' = [token EXCEPT ![req.id] = @ \/ task[req.id] \notin {"none", "over"}]
  BY DEF Accept, GoTo, req
<1>7. task \in [Searches -> {"none", "permit", "recv", "send", "join", "done", "error", "over"}]
      /\ token \in [Searches -> BOOLEAN]
  BY DEF IInv, StateOK, DaemonOK, FlagsOK
<1>8. /\ \A r \in Searches : task'[r] = task[r] \/ task'[r] = "permit"
      /\ req.type = "search" => task'[req.id] = "permit"
  BY <1>4, <1>6, <1>7
<1>9. \A r \in Searches : r # req.id \/ req.type = "search" => token'[r] = token[r]
  BY <1>4, <1>6, <1>7
<1>10. owner[req.id] # "none"
  BY <1>2, <1>3, <1>4 DEF IInv, IdsOK, Unborn
<1>11. ASSUME NEW s \in bcbs PROVE alive /\ Uncancelled(s)' /\ (stalled \/ Asked(s)' \/ AtWork(s)' \/ Ending(s)')
  <2>1. s \in Searches /\ alive /\ Uncancelled(s) /\ (stalled \/ Asked(s) \/ AtWork(s) \/ Ending(s))
    BY DEF DueInv, CallbacksDue, IInv, StateOK, FrontendOK
  <2>2. req.type = "cancel" => s # req.id
    BY <1>2, <1>3, <2>1 DEF Uncancelled
  <2>3. token'[s] = token[s]
    BY <1>6, <1>9, <2>1, <2>2
  <2>4. Uncancelled(s)'
    BY <1>2, <1>3, <2>1, <2>3 DEF Uncancelled
  <2>5. Asked(s) => Asked(s)' \/ AtWork(s)'
    <3>1. ASSUME NEW i \in 1..Len(stdin), stdin[i].type = "search", stdin[i].id = s, i # 1 PROVE Asked(s)'
      <4>1. i - 1 \in 1..Len(stdin') /\ (i - 1) + 1 = i
        BY <1>2, <3>1
      <4>2. stdin'[i - 1] = stdin[i]
        BY <1>2, <4>1
      <4>3. QED
        BY <3>1, <4>1, <4>2 DEF Asked
    <3>2. stdin[1].type = "search" /\ stdin[1].id = s => AtWork(s)'
      BY <1>2, <1>8 DEF AtWork
    <3>3. QED
      BY <3>1, <3>2 DEF Asked
  <2>6. AtWork(s) => AtWork(s)'
    BY <1>8, <2>1 DEF AtWork
  <2>7. Ending(s) => Ending(s)'
    BY <1>5 DEF Ending
  <2>8. QED
    BY <2>1, <2>4, <2>5, <2>6, <2>7
<1>12. CallbacksDue'
  BY <1>5, <1>11 DEF CallbacksDue
<1>13. Walked'
  BY <1>5, <1>8 DEF DueInv, Walked
<1>14. TokensBorn'
  BY <1>5, <1>9, <1>10 DEF DueInv, TokensBorn
<1>15. QED
  BY <1>5, <1>12, <1>13, <1>14 DEF DueInv, FilterHeld

\* Send leaves the requests before it where they are, and the daemon that is alive is asked.
LEMMA SendKeeps ==
  ASSUME stdin \in Seq(Requests), NEW ids, ids = {} \/ \E s \in Searches : ids = {s},
         NEW requests, requests = <<>> \/ \E s \in Searches : requests = <<Ask(s)>>, Send(ids, requests)
  PROVE  /\ \A i \in 1..Len(stdin) : i \in 1..Len(stdin') /\ stdin'[i] = stdin[i]
         /\ \A s \in Searches : alive /\ requests = <<Ask(s)>> => Asked(s)'
<1> DEFINE c == [i \in 1..Cardinality(ids) |-> Cancel(CHOOSE s \in ids : TRUE)]
<1>1. CASE ~alive
  BY <1>1 DEF Send
<1>2. CASE alive
  <2>1. c \in Seq(Requests)
    <3>1. CASE ids = {}
      <4>1. Cardinality(ids) = 0
        BY <3>1, FS_EmptySet
      <4>2. 1..Cardinality(ids) = {}
        BY <4>1
      <4>3. c = <<>>
        BY <4>2
      <4>4. <<>> \in Seq(Requests)
        OBVIOUS
      <4> HIDE DEF c
      <4>5. QED
        BY <4>3, <4>4
    <3>2. ASSUME NEW s \in Searches, ids = {s} PROVE c \in Seq(Requests)
      <4>1. Cardinality(ids) = 1 /\ (CHOOSE r \in ids : TRUE) = s
        BY <3>2, FS_Singleton
      <4>2. c = [i \in 1..1 |-> Cancel(s)] /\ Cancel(s) \in Requests
        BY <4>1 DEF Cancel, Requests
      <4>3. c = <<Cancel(s)>>
        BY <4>2
      <4> HIDE DEF c
      <4>4. QED
        BY <4>2, <4>3, OneRequest
    <3>3. QED
      BY <3>1, <3>2
  <2> HIDE DEF c
  <2>2. requests \in Seq(Requests)
    <3>1. ASSUME NEW s \in Searches, requests = <<Ask(s)>> PROVE requests \in Seq(Requests)
      <4>1. Ask(s) \in Requests
        BY DEF Ask, Requests
      <4>2. QED
        BY <3>1, <4>1
    <3>2. <<>> \in Seq(Requests)
      OBVIOUS
    <3>3. QED
      BY <3>1, <3>2
  <2> DEFINE q == stdin \o c
  <2>3. stdin' = q \o requests
    BY <1>2 DEF Send, c
  <2>4. /\ q \in Seq(Requests) /\ Len(q) = Len(stdin) + Len(c) /\ Len(stdin) \in Nat /\ Len(c) \in Nat
        /\ \A i \in 1..Len(stdin) + Len(c) : q[i] = IF i <= Len(stdin) THEN stdin[i] ELSE c[i - Len(stdin)]
    BY <2>1, ConcatProperties, LenProperties
  <2> HIDE DEF q
  <2>5. /\ Len(stdin') = Len(q) + Len(requests) /\ Len(requests) \in Nat
        /\ \A i \in 1..Len(q) + Len(requests) : stdin'[i] = IF i <= Len(q) THEN q[i] ELSE requests[i - Len(q)]
    <3>1. q \in Seq(Requests) /\ requests \in Seq(Requests)
      BY <2>2, <2>4
    <3>2. Len(requests) \in Nat
      BY <3>1, LenProperties
    <3>3. /\ Len(q \o requests) = Len(q) + Len(requests)
          /\ \A i \in 1..Len(q) + Len(requests) : (q \o requests)[i] = IF i <= Len(q) THEN q[i] ELSE requests[i - Len(q)]
      BY ONLY <3>1, ConcatProperties
    <3>4. QED
      BY ONLY <2>3, <3>2, <3>3
  <2>6. ASSUME NEW i \in 1..Len(stdin) PROVE i \in 1..Len(stdin') /\ stdin'[i] = stdin[i]
    <3>1. i <= Len(stdin) /\ i \in 1..Len(stdin) + Len(c) /\ i <= Len(q) /\ i \in 1..Len(q) + Len(requests)
      BY <2>4, <2>5
    <3>2. QED
      BY <2>4, <2>5, <3>1
  <2>7. ASSUME NEW s \in Searches, requests = <<Ask(s)>> PROVE Asked(s)'
    <3>1. Len(requests) = 1 /\ requests[1] = Ask(s)
      BY <2>7
    <3>2. Len(q) \in Nat /\ Len(stdin') = Len(q) + 1 /\ Len(q) + 1 \in 1..Len(stdin') /\ ~(Len(q) + 1 <= Len(q))
          /\ (Len(q) + 1) - Len(q) = 1
      BY <2>4, <2>5, <3>1
    <3>3. stdin'[Len(q) + 1] = Ask(s)
      BY <2>5, <3>1, <3>2
    <3>4. Ask(s).type = "search" /\ Ask(s).id = s
      BY DEF Ask
    <3>5. QED
      BY <3>2, <3>3, <3>4 DEF Asked
  <2>8. QED
    BY <2>6, <2>7
<1>3. QED
  BY <1>1, <1>2

\* A step of the frontend that cancels the searches in ids and asks for the one in requests
\* leaves a callback only for those it did not cancel, and for the one it asked for.
LEMMA UiDue ==
  ASSUME IInv, DueInv, UiUnchanged, UNCHANGED <<alive, out, stalled>>,
         NEW ids, ids = {} \/ \E s \in Searches : ids = {s},
         NEW requests, requests = <<>> \/ \E s \in Searches : requests = <<Ask(s)>>, Send(ids, requests),
         FilterHeld', \A r \in bcbs' : r \notin ids,
         \A r \in bcbs' : r \in bcbs \/ (alive /\ r \in Searches /\ owner[r] = "none" /\ requests = <<Ask(r)>>),
         \A r \in Searches : owner[r] # "none" => owner'[r] # "none"
  PROVE  DueInv'
<1>1. UNCHANGED <<task, token, walker>> /\ stdin \in Seq(Requests)
  BY DEF UiUnchanged, taskVars, walkVars, IInv, StateOK, FrontendOK
<1>2. /\ \A i \in 1..Len(stdin) : i \in 1..Len(stdin') /\ stdin'[i] = stdin[i]
      /\ \A s \in Searches : alive /\ requests = <<Ask(s)>> => Asked(s)'
  BY <1>1, SendKeeps
<1>3. \A i \in 1..Len(stdin') : stdin'[i].type = "cancel" =>
        (i \in 1..Len(stdin) /\ stdin'[i] = stdin[i]) \/ stdin'[i].id \in ids
  <2>1. \A i \in 1..Len(stdin') :
           \/ i \in 1..Len(stdin) /\ stdin'[i] = stdin[i]
           \/ stdin'[i].type = "cancel" /\ stdin'[i].id \in ids
           \/ i = Len(stdin') /\ requests # <<>> /\ stdin'[i] = requests[1]
    BY <1>1, SendFacts
  <2>2. ASSUME requests # <<>> PROVE requests[1].type # "cancel"
    <3>1. PICK s \in Searches : requests = <<Ask(s)>>
      BY <2>2
    <3>2. requests[1] = Ask(s) /\ Ask(s).type = "search"
      BY <3>1 DEF Ask
    <3>3. QED
      BY <3>2
  <2>3. QED
    BY <2>1, <2>2
<1>4. ASSUME NEW r \in bcbs' PROVE alive /\ Uncancelled(r)' /\ (stalled \/ Asked(r)' \/ AtWork(r)' \/ Ending(r)')
  <2>1. r \notin ids
    OBVIOUS
  <2>2. CASE r \in bcbs
    <3>1. alive /\ Uncancelled(r) /\ (stalled \/ Asked(r) \/ AtWork(r) \/ Ending(r))
      BY <2>2 DEF DueInv, CallbacksDue
    <3>2. Uncancelled(r)'
      BY <1>1, <1>3, <2>1, <3>1 DEF Uncancelled
    <3>3. Asked(r) => Asked(r)'
      BY <1>2 DEF Asked
    <3>4. (AtWork(r) => AtWork(r)') /\ (Ending(r) => Ending(r)')
      BY <1>1 DEF AtWork, Ending
    <3>5. QED
      BY <3>1, <3>2, <3>3, <3>4
  <2>3. CASE r \notin bcbs
    <3>1. alive /\ r \in Searches /\ owner[r] = "none" /\ requests = <<Ask(r)>>
      BY <2>3
    <3>2. ~token[r] /\ Unborn(r)
      BY <3>1 DEF DueInv, TokensBorn, IInv, IdsOK
    <3>3. Uncancelled(r)'
      BY <1>1, <1>3, <2>1, <3>2 DEF Uncancelled, Unborn
    <3>4. QED
      BY <1>2, <3>1, <3>3
  <2>4. QED
    BY <2>2, <2>3
<1>5. CallbacksDue'
  BY <1>4 DEF CallbacksDue
<1>6. Walked' /\ TokensBorn'
  BY <1>1 DEF DueInv, Walked, TokensBorn
<1>7. QED
  BY <1>5, <1>6 DEF DueInv

LEMMA FilterDue == IInv /\ DueInv /\ Filter => DueInv'
<1> SUFFICES ASSUME IInv, DueInv, Filter PROVE DueInv'
  OBVIOUS
<1> DEFINE n == Next1
<1>1. /\ alive /\ NewSearch("filter") /\ filter' = [id |-> n, pending |-> TRUE, truncated |-> FALSE]
      /\ bcbs' = (bcbs \ ToCancel) \cup {n} /\ Send(ToCancel, <<Ask(n)>>)
      /\ UNCHANGED <<alive, out, stalled>> /\ UiUnchanged
  BY Zenon DEF Filter, StartFilterSearch
<1>2. /\ n \in Searches /\ Unborn(n) /\ owner[n] = "none" /\ owner'[n] = "filter"
      /\ \A r \in Searches : r # n => owner'[r] = owner[r]
  BY <1>1, NewSearchFacts
<1> HIDE DEF n
<1>3. (ToCancel = {} \/ \E s \in Searches : ToCancel = {s}) /\ ToCancel \subseteq {filter.id}
  BY DEF IInv, StateOK, FrontendOK, ToCancel
<1>4. FilterHeld' /\ n \notin ToCancel
  BY <1>1, <1>2, <1>3 DEF FilterHeld, Unborn
<1>5. /\ \A r \in bcbs' : r \notin ToCancel
      /\ \A r \in bcbs' : r \in bcbs \/ (alive /\ r \in Searches /\ owner[r] = "none" /\ <<Ask(n)>> = <<Ask(r)>>)
      /\ \A r \in Searches : owner[r] # "none" => owner'[r] # "none"
  BY <1>1, <1>2, <1>4
<1>6. \E s \in Searches : <<Ask(n)>> = <<Ask(s)>>
  BY <1>2
<1>7. QED
  BY <1>1, <1>3, <1>4, <1>5, <1>6, UiDue

LEMMA ClearDue == IInv /\ DueInv /\ ClearFilterHits => DueInv'
<1> SUFFICES ASSUME IInv, DueInv, ClearFilterHits PROVE DueInv'
  OBVIOUS
<1>1. /\ filter'.id = 0 /\ bcbs' = bcbs \ ToCancel /\ Send(ToCancel, <<>>)
      /\ UNCHANGED <<alive, out, stalled, owner>> /\ UiUnchanged
  BY DEF ClearFilterHits, NoFilter, startVars
<1>2. ToCancel = {} \/ \E s \in Searches : ToCancel = {s}
  BY DEF IInv, StateOK, FrontendOK, ToCancel
<1>3. FilterHeld'
  BY <1>1 DEF FilterHeld
<1>4. /\ \A r \in bcbs' : r \notin ToCancel
      /\ \A r \in bcbs' : r \in bcbs
      /\ \A r \in Searches : owner[r] # "none" => owner'[r] # "none"
  BY <1>1
<1>5. QED
  BY <1>1, <1>2, <1>3, <1>4, UiDue

LEMMA QuickSearchDue == IInv /\ DueInv /\ QuickSearch => DueInv'
<1> SUFFICES ASSUME IInv, DueInv, QuickSearch PROVE DueInv'
  OBVIOUS
<1> DEFINE n == Next1
           ids == {quickId} \ {0}
<1>1. /\ alive /\ NewSearch("quickfix")
      /\ bcbs' = (bcbs \ {quickId}) \cup {n} /\ Send(ids, <<Ask(n)>>)
      /\ UNCHANGED <<alive, out, stalled, filter, orphaned>> /\ UiUnchanged
  BY Zenon DEF QuickSearch, filterVars
<1>2. /\ n \in Searches /\ Unborn(n) /\ owner[n] = "none" /\ owner'[n] = "quickfix"
      /\ \A r \in Searches : r # n => owner'[r] = owner[r]
  BY <1>1, NewSearchFacts
<1> HIDE DEF n
<1>3. quickId \in Searches \cup {0} /\ filter.id \in Searches \cup {0}
  BY DEF IInv, StateOK, FrontendOK
<1>4. (ids = {} \/ \E s \in Searches : ids = {s}) /\ ids \subseteq {quickId}
  <2>1. CASE quickId = 0
    BY <2>1
  <2>2. CASE quickId # 0
    <3>1. quickId \in Searches /\ ids = {quickId}
      BY <1>3, <2>2
    <3>2. QED
      BY <3>1
  <2>3. QED
    BY <2>1, <2>2
<1> HIDE DEF ids
<1>5. n # quickId
  BY <1>2 DEF Unborn
<1>6. filter.id # 0 => filter.id # quickId
  BY DEF IInv, ShownOK
<1>7. FilterHeld'
  BY <1>1, <1>6 DEF DueInv, FilterHeld
<1>8. /\ \A r \in bcbs' : r \notin ids
      /\ \A r \in bcbs' : r \in bcbs \/ (alive /\ r \in Searches /\ owner[r] = "none" /\ <<Ask(n)>> = <<Ask(r)>>)
      /\ \A r \in Searches : owner[r] # "none" => owner'[r] # "none"
  BY <1>1, <1>2, <1>4, <1>5
<1>9. \E s \in Searches : <<Ask(n)>> = <<Ask(s)>>
  BY <1>2
<1>10. QED
  BY <1>1, <1>4, <1>7, <1>8, <1>9, UiDue

\* The last event of a search takes its callback with it; any other event ends no search.
LEMMA DispatchDue == IInv /\ DueInv /\ Dispatch => DueInv'
<1> SUFFICES ASSUME IInv, DueInv, Dispatch PROVE DueInv'
  OBVIOUS
<1> DEFINE e == Head(out)
<1>1. out # <<>> /\ out' = Tail(out) /\ UNCHANGED <<alive, stdin, stalled, owner, task, token, walker>>
  BY DEF Dispatch, UiUnchanged, startVars, taskVars, walkVars
<1>2. /\ out \in Seq(Events) /\ Len(out) \in Nat \ {0} /\ Len(out') = Len(out) - 1
      /\ e = out[1] /\ \A i \in 1..Len(out') : out'[i] = out[i + 1]
  BY <1>1, HeadTailProperties, EmptySeq DEF IInv, StateOK, DaemonOK
<1>3. e.kind \in {"chunk", "done", "error"} /\ e.id \in Searches
  BY <1>2, EventTypes
<1>4. \/ e.id \in bcbs /\ e.kind = "chunk" /\ OnChunk(e.id, e.items)
      \/ e.id \in bcbs /\ OnDone(e.id)
      \/ e.id \in bcbs /\ OnError(e.id)
      \/ e.id \notin bcbs /\ UNCHANGED <<filterVars, quickVars, bcbs>>
  BY DEF Dispatch
<1> HIDE DEF e
<1>5. /\ bcbs' \subseteq bcbs
      /\ \A s \in bcbs' : e.id = s => e.kind = "chunk"
  BY <1>4 DEF OnChunk, OnDone, OnError
<1>6. FilterHeld'
  <2>1. CASE OnChunk(e.id, e.items) \/ UNCHANGED <<filterVars, quickVars, bcbs>>
    BY <2>1 DEF DueInv, FilterHeld, OnChunk, filterVars
  <2>2. CASE OnDone(e.id) \/ OnError(e.id)
    <3>1. filter.id = e.id => filter'.id = 0
      BY <2>2 DEF OnDone, OnError, NoFilter, IInv, StateOK, FrontendOK
    <3>2. filter.id # e.id => filter' = filter
      BY <2>2 DEF OnDone, OnError
    <3>3. bcbs' = bcbs \ {e.id} /\ orphaned' = orphaned
      BY <2>2 DEF OnDone, OnError
    <3>4. QED
      BY <3>1, <3>2, <3>3 DEF DueInv, FilterHeld
  <2>3. QED
    BY <1>4, <2>1, <2>2
<1>7. ASSUME NEW s \in bcbs' PROVE alive /\ Uncancelled(s)' /\ (stalled \/ Asked(s)' \/ AtWork(s)' \/ Ending(s)')
  <2>1. alive /\ Uncancelled(s) /\ (stalled \/ Asked(s) \/ AtWork(s) \/ Ending(s))
    BY <1>5 DEF DueInv, CallbacksDue
  <2>2. Uncancelled(s)' /\ (Asked(s) => Asked(s)') /\ (AtWork(s) => AtWork(s)')
    BY <1>1, <2>1 DEF Uncancelled, Asked, AtWork
  <2>3. ASSUME NEW i \in 1..Len(out), out[i].kind # "chunk", out[i].id = s PROVE Ending(s)'
    <3>1. i # 1
      BY <1>2, <1>5, <2>3
    <3>2. i - 1 \in 1..Len(out') /\ (i - 1) + 1 = i
      BY <1>2, <3>1
    <3>3. out'[i - 1] = out[i]
      BY <1>2, <3>2
    <3>4. QED
      BY <2>3, <3>2, <3>3 DEF Ending
  <2>4. QED
    BY <2>1, <2>2, <2>3 DEF Ending
<1>8. CallbacksDue'
  BY <1>1, <1>7 DEF CallbacksDue
<1>9. QED
  BY <1>1, <1>6, <1>8 DEF DueInv, Walked, TokensBorn

\* The daemon's end and the closed tree leave no callback.
LEMMA CancelDue == IInv /\ DueInv /\ (CancelFrontendWork \/ Exit) => DueInv'
<1> SUFFICES ASSUME IInv, DueInv, CancelFrontendWork \/ Exit PROVE DueInv'
  OBVIOUS
<1>1. bcbs' = {} /\ filter' = filter /\ orphaned' = (orphaned \/ filter.id \in bcbs) /\ UNCHANGED <<owner, token>>
  BY DEF CancelFrontendWork, Exit, ClearBackendCallbacks, UiUnchanged, taskVars, startVars
<1>2. CallbacksDue' /\ FilterHeld' /\ TokensBorn'
  BY <1>1 DEF DueInv, CallbacksDue, FilterHeld, TokensBorn
<1>3. Walked'
  <2>1. CASE CancelFrontendWork
    BY <2>1 DEF CancelFrontendWork, UiUnchanged, taskVars, walkVars, DueInv, Walked
  <2>2. CASE Exit
    BY <2>2 DEF Exit, Walked
  <2>3. QED
    BY <2>1, <2>2
<1>4. QED
  BY <1>2, <1>3 DEF DueInv

LEMMA NextDue == IInv /\ DueInv /\ [Next]_vars => DueInv'
<1> SUFFICES ASSUME IInv, DueInv, [Next]_vars PROVE DueInv'
  OBVIOUS
<1>1. CASE UNCHANGED vars
  <2>1. UNCHANGED <<alive, stdin, out, stalled, task, token, walker, filter, orphaned, owner, bcbs>>
    BY <1>1 DEF vars, wireVars, taskVars, walkVars, filterVars, startVars
  <2>2. QED
    BY <2>1 DEF DueInv, CallbacksDue, FilterHeld, Walked, TokensBorn, Uncancelled, Asked, AtWork, Ending
<1>2. CASE Restarted
  <2>1. ~alive /\ UNCHANGED <<task, token, walker, filter, orphaned, owner, bcbs>>
    BY <1>2 DEF Restarted, UiUnchanged, taskVars, walkVars, filterVars, startVars
  <2>2. bcbs = {}
    BY <2>1 DEF DueInv, CallbacksDue
  <2>3. QED
    BY <2>1, <2>2 DEF DueInv, CallbacksDue, FilterHeld, Walked, TokensBorn
<1>3. CASE \E s \in Searches : Walk(s) \/ Task(s)
  BY <1>3, WalkDue, TaskDue
<1>4. QED
  BY <1>1, <1>2, <1>3, AcceptDue, FilterDue, ClearDue, QuickSearchDue, DispatchDue, CancelDue DEF Next

\* No callback, and no filter that has not lost its callback, waits for a search that
\* nobody works on any more: what FilterEnds says of the end, without the time it takes.
THEOREM AnswersComingHolds == Spec => []AnswersComing
<1>1. Init => DueInv
  BY DEF Init, NoFilter, DueInv, CallbacksDue, FilterHeld, Walked, TokensBorn
<1>2. DueInv => AnswersComing
  BY DEF DueInv, CallbacksDue, FilterHeld, Walked, AnswersComing, Coming
<1>3. QED
  BY <1>1, <1>2, InitStep, NextStep, NextDue, PTL DEF Spec
=============================================================================
