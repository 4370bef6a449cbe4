---------------------------- MODULE PasteProofs ----------------------------
(***************************************************************************)
(* Proofs about Paste, for any directories, names and number of pastes:    *)
(* what was cut stays in the clipboard, and a paste that replaces a file   *)
(* nobody was asked about has found another paste's there.                 *)
(*                                                                         *)
(* The invariant says of each paste that the plan it still has to carry    *)
(* out is as it was made: a target nobody was asked about holds nothing,   *)
(* or what another paste has put there.  And a paste that goes on has      *)
(* something to wait for, so nobody is stuck.                              *)
(***************************************************************************)
EXTENDS Paste, FiniteSetTheorems, SequenceTheorems, TLAPS

Jobs == [src : Paths, dst : Paths, asked : BOOLEAN]
Outs == [installed : BOOLEAN, removed : BOOLEAN]
Contexts == [at : {"none", "loop", "sent", "preview", "timer", "over"}, mode : {"copy", "cut"},
             todo : Seq(Jobs), remaining : SUBSET Paths]
Ops == [at : {"none", "sent"}] \cup [at : {"answered"}, out : Outs]

Clipboards == {c \in [mode : {"", "copy", "cut"}, items : SUBSET Paths] : c.mode = "" => c.items = {}}

DataOK ==
  /\ there \in [Paths -> {Nothing, 0} \cup Pastes]
  /\ clipboard \in Clipboards
  /\ paste \in [Pastes -> Contexts] /\ op \in [Pastes -> Ops]
  /\ busy \in Seq(Pastes \cup {0}) /\ daemon \in {"down", "ready", "stopping", "dead"}
  /\ strays \subseteq [job : Jobs, by : Pastes]
  /\ owed \subseteq Paths /\ overruled \subseteq Paths /\ since \subseteq Started

\* The jobs of a paste: no source twice, and a target that an earlier job of it
\* has is one that the user was asked about.
Plan(c) ==
  /\ \A i \in 1..Len(c.todo) : c.todo[i].src # c.todo[i].dst /\ c.todo[i].src \notin c.remaining
  /\ \A i, k \in 1..Len(c.todo) :
       i < k => /\ c.todo[i].src # c.todo[k].src
                /\ c.todo[i].dst = c.todo[k].dst => c.todo[k].asked
  /\ c.at \in {"sent", "preview"} => c.todo # <<>>
  /\ c.at = "preview" => c.mode = "cut"

\* A target nobody was asked about holds nothing, or what another paste has put
\* there, until its own job is done.
FreeOK(p) ==
  \A i \in 1..Len(paste[p].todo) :
    ~paste[p].todo[i].asked /\ (i = 1 => op[p].at # "answered") =>
      there[paste[p].todo[i].dst] \in ({Nothing} \cup Pastes) \ {p}

\* An operation is that of a paste that waits; what it has moved is not owed.
OpOK(p) ==
  /\ op[p].at # "none" => paste[p].at = "sent"
  /\ op[p].at = "answered" /\ p \notin since => (op[p].out.removed => paste[p].todo[1].src \notin owed)

\* A paste of what was cut last has all that is owed.
Srcs(c) == {c.todo[i].src : i \in 1..Len(c.todo)} \cup c.remaining
HeldOK(p) ==
  p \notin since /\ paste[p].mode = "cut" /\ paste[p].at \in {"loop", "sent", "preview", "timer"} =>
    owed \subseteq Srcs(paste[p]) \cup overruled

PasteOK(p) == Plan(paste[p]) /\ FreeOK(p) /\ OpOK(p) /\ HeldOK(p)

\* An operation that goes on by itself meets no job that nobody was asked about.
StraysOK ==
  \A s \in strays : /\ paste[s.by].at # "none"
                    /\ \A i \in 1..Len(paste[s.by].todo) :
                         paste[s.by].todo[i].dst = s.job.dst => paste[s.by].todo[i].asked

IInv ==
  /\ DataOK /\ \A p \in Pastes : PasteOK(p)
  /\ StraysOK /\ CutKept /\ OnlyOthersReplaced

----------------------------------------------------------------------------
LEMMA PathsFinite == IsFiniteSet(Paths)
BY FS_Product, PasteAssumption DEF Paths

LEMMA NatPastes == \A p \in Pastes : p \in Nat /\ p # 0 /\ p # Nothing
BY PasteAssumption DEF Pastes, Nothing

LEMMA JobTypes == \A q \in Seq(Jobs) : \A i \in 1..Len(q) :
  q[i] \in Jobs /\ q[i].src \in Paths /\ q[i].dst \in Paths /\ q[i].asked \in BOOLEAN
<1> SUFFICES ASSUME NEW q \in Seq(Jobs), NEW i \in 1..Len(q) PROVE q[i] \in Jobs
  BY DEF Jobs
<1>1. QED
  BY ElementOfSeq

\* The elements of a finite set in some order.
LEMMA InSomeOrder ==
  ASSUME NEW S, IsFiniteSet(S), NEW f \in SetToSeqs(S)
  PROVE  /\ f \in Seq(S) /\ DOMAIN f = 1..Len(f) /\ \A i, j \in 1..Len(f) : i # j => f[i] # f[j]
         /\ \A x \in S : \E i \in 1..Len(f) : f[i] = x
<1>1. f \in [1..Cardinality(S) -> S] /\ \A i, j \in 1..Cardinality(S) : i # j => f[i] # f[j]
  BY DEF SetToSeqs
<1>2. Cardinality(S) \in Nat
  BY FS_CardinalityType
<1>3. f \in Seq(S) /\ Len(f) = Cardinality(S)
  BY <1>1, <1>2
<1>4. \A x \in S : \E i \in 1..Cardinality(S) : f[i] = x
  <2>1. IsFiniteSet(1..Cardinality(S)) /\ Cardinality(1..Cardinality(S)) = Cardinality(S)
    BY <1>2, FS_Interval
  <2>2. f \in Injection(1..Cardinality(S), S)
    BY <1>1 DEF Injection, IsInjective
  <2>3. f \in Surjection(1..Cardinality(S), S)
    BY <2>1, <2>2, FS_Injection
  <2>4. QED
    BY <2>3 DEF Surjection
<1>5. QED
  BY <1>1, <1>3, <1>4

LEMMA InitStep == Init => IInv
<1> SUFFICES ASSUME Init PROVE IInv
  OBVIOUS
<1>1. NoPaste \in Contexts /\ NoPaste.todo = <<>> /\ NoPaste.at = "none" /\ NoPaste.mode = "copy"
  BY DEF NoPaste, Contexts
<1>2. NoOp \in Ops /\ NoOp.at = "none"
  BY DEF NoOp, Ops
<1>3. DataOK
  <2>1. there \in [Paths -> {Nothing, 0} \cup Pastes]
    BY DEF Init
  <2>2. clipboard \in Clipboards
    BY DEF Init, Clipboards
  <2>3. paste \in [Pastes -> Contexts] /\ op \in [Pastes -> Ops]
    BY <1>1, <1>2 DEF Init
  <2>4. busy \in Seq(Pastes \cup {0})
    <3>1. \A S : <<>> \in Seq(S)
      OBVIOUS
    <3>2. QED
      BY <3>1 DEF Init
  <2>5. QED
    BY <2>1, <2>2, <2>3, <2>4 DEF Init, DataOK
<1>4. ASSUME NEW p \in Pastes PROVE PasteOK(p)
  <2>1. paste[p] = NoPaste /\ op[p] = NoOp
    BY DEF Init
  <2>2. Len(<<>>) = 0 /\ 1..0 = {}
    OBVIOUS
  <2>3. Plan(paste[p])
    BY <1>1, <2>1, <2>2 DEF Plan
  <2>4. FreeOK(p) /\ OpOK(p) /\ HeldOK(p)
    BY <1>1, <1>2, <2>1, <2>2 DEF FreeOK, OpOK, HeldOK
  <2>5. QED
    BY <2>3, <2>4 DEF PasteOK
<1>5. StraysOK /\ CutKept /\ OnlyOthersReplaced
  BY DEF Init, StraysOK, CutKept, OnlyOthersReplaced
<1>6. QED
  BY <1>3, <1>4, <1>5 DEF IInv

\* A paste that a step leaves alone: what others put on its targets, and what
\* they move away, leaves its plan good.
LEMMA Untouched ==
  ASSUME IInv, NEW r \in Pastes, paste'[r] = paste[r], op'[r] = op[r], since' = since,
         \A x \in Paths :
           \/ there'[x] \in {there[x], Nothing}
           \/ /\ there'[x] \in Pastes
              /\ there'[x] = r => \A i \in 1..Len(paste[r].todo) : paste[r].todo[i].dst = x => paste[r].todo[i].asked,
         owed' \subseteq owed, overruled' = overruled \/ owed' \subseteq overruled'
  PROVE  PasteOK(r)'
<1>1. Plan(paste[r]) /\ FreeOK(r) /\ OpOK(r) /\ HeldOK(r)
  BY DEF IInv, PasteOK
<1>2. paste[r].todo \in Seq(Jobs)
  BY DEF IInv, DataOK, Contexts
<1>3. FreeOK(r)'
  <2> SUFFICES ASSUME NEW i \in 1..Len(paste[r].todo), ~paste[r].todo[i].asked, i = 1 => op[r].at # "answered"
               PROVE  there'[paste[r].todo[i].dst] \in ({Nothing} \cup Pastes) \ {r}
    BY DEF FreeOK
  <2>1. paste[r].todo[i].dst \in Paths /\ there[paste[r].todo[i].dst] \in ({Nothing} \cup Pastes) \ {r}
    BY <1>1, <1>2, JobTypes DEF FreeOK
  <2>2. QED
    BY <2>1, NatPastes
<1>4. Plan(paste[r])'
  BY <1>1
<1>5. OpOK(r)'
  BY <1>1 DEF OpOK
<1>6. HeldOK(r)'
  BY <1>1 DEF HeldOK
<1>7. QED
  BY <1>3, <1>4, <1>5, <1>6 DEF PasteOK

\* An operation with its outcome: where what is on the disk comes from.
LEMMA CarryFacts ==
  ASSUME DataOK, NEW job \in Jobs, NEW mode, NEW q \in Pastes, NEW o \in Outcomes(job, mode), Carry(job, q, o)
  PROVE  /\ there' \in [Paths -> {Nothing, 0} \cup Pastes] /\ o.out \in Outs
         /\ \A x \in Paths : there'[x] \in {there[x], Nothing} \/ (x = job.dst /\ there'[x] = q)
         /\ owed' \subseteq owed
         /\ o.out.removed /\ job.src # job.dst => job.src \notin owed'
<1> DEFINE failed == [installed |-> FALSE, removed |-> FALSE]
           moved == [there EXCEPT ![job.dst] = there[job.src], ![job.src] = Nothing]
           copied == [there EXCEPT ![job.dst] = there[job.src]]
<1>1. job.src \in Paths /\ job.dst \in Paths /\ there \in [Paths -> {Nothing, 0} \cup Pastes]
  BY DEF DataOK, Jobs
<1>2. there' = (IF o.out.installed THEN [o.to EXCEPT ![job.dst] = q] ELSE o.to) /\ owed' = {x \in owed : there'[x] # Nothing}
  BY DEF Carry
<1>3. \/ o = [to |-> there, out |-> failed]
      \/ o = [to |-> copied, out |-> [installed |-> TRUE, removed |-> FALSE]]
      \/ o = [to |-> moved, out |-> [installed |-> TRUE, removed |-> TRUE]]
  BY DEF Outcomes
<1>4. CASE o = [to |-> there, out |-> failed]
  BY <1>1, <1>2, <1>4 DEF Outs
<1>5. CASE o = [to |-> copied, out |-> [installed |-> TRUE, removed |-> FALSE]]
  <2>1. there' = [copied EXCEPT ![job.dst] = q]
    BY <1>2, <1>5
  <2>2. \A x \in Paths : there'[x] = IF x = job.dst THEN q ELSE there[x]
    BY <1>1, <2>1
  <2>3. there' \in [Paths -> {Nothing, 0} \cup Pastes]
    BY <1>1, <2>1
  <2>4. o.out = [installed |-> TRUE, removed |-> FALSE]
    BY <1>5
  <2>5. QED
    BY <1>2, <2>2, <2>3, <2>4 DEF Outs
<1>6. CASE o = [to |-> moved, out |-> [installed |-> TRUE, removed |-> TRUE]]
  <2>1. there' = [moved EXCEPT ![job.dst] = q]
    BY <1>2, <1>6
  <2>2. \A x \in Paths : there'[x] = IF x = job.dst THEN q ELSE IF x = job.src THEN Nothing ELSE there[x]
    BY <1>1, <2>1
  <2>3. there' \in [Paths -> {Nothing, 0} \cup Pastes]
    BY <1>1, <2>1
  <2>4. o.out = [installed |-> TRUE, removed |-> TRUE]
    BY <1>6
  <2>5. job.src # job.dst => job.src \notin owed'
    BY <1>1, <1>2, <2>2
  <2>6. QED
    BY <1>2, <2>2, <2>3, <2>4, <2>5 DEF Outs
<1>7. QED
  BY <1>3, <1>4, <1>5, <1>6

\* The plan without its first job is a plan.
LEMMA NextJobFacts ==
  ASSUME NEW c \in Contexts, Plan(c), c.todo # <<>>, NEW out \in Outs
  PROVE  LET d == NextJob(c, out) IN
         /\ d \in Contexts /\ Plan(d) /\ d.at = "loop" /\ d.mode = c.mode
         /\ c.todo \in Seq(Jobs) /\ 1 \in 1..Len(c.todo) /\ Len(c.todo) \in Nat /\ Head(c.todo) = c.todo[1]
         /\ Len(d.todo) = Len(c.todo) - 1 /\ \A i \in 1..Len(d.todo) : i + 1 \in 1..Len(c.todo) /\ d.todo[i] = c.todo[i + 1]
         /\ c.mode = "cut" => Srcs(c) \subseteq Srcs(d) \cup (IF out.removed THEN {c.todo[1].src} ELSE {})
<1> DEFINE rest == Tail(c.todo)
           left == IF c.mode = "cut" /\ ~out.removed THEN c.remaining \cup {Head(c.todo).src} ELSE c.remaining
           d == NextJob(c, out)
<1>1. c.todo \in Seq(Jobs) /\ c.remaining \subseteq Paths /\ c.mode \in {"copy", "cut"}
  BY DEF Contexts
<1>2. /\ rest \in Seq(Jobs) /\ Len(c.todo) \in Nat \ {0} /\ Len(rest) = Len(c.todo) - 1
      /\ Head(c.todo) = c.todo[1] /\ \A i \in 1..Len(rest) : rest[i] = c.todo[i + 1]
  BY <1>1, HeadTailProperties, EmptySeq
<1>3. d = [at |-> "loop", mode |-> c.mode, todo |-> rest, remaining |-> left]
  <2>1. d = [PasteApply(c, out) EXCEPT !.at = "loop", !.todo = Tail(@)]
    BY DEF NextJob
  <2>2. PasteApply(c, out) = [c EXCEPT !.remaining = left]
    BY DEF PasteApply, Contexts
  <2>3. QED
    BY <2>1, <2>2 DEF Contexts
<1> HIDE DEF d, rest
<1>4. 1 \in 1..Len(c.todo) /\ \A i \in 1..Len(rest) : i + 1 \in 1..Len(c.todo) /\ 1 < i + 1
  BY <1>2
<1>5. c.todo[1].src \in Paths
  BY <1>1, <1>4, JobTypes
<1>6. d \in Contexts
  BY <1>1, <1>2, <1>3, <1>5 DEF Contexts
<1>7. Plan(d)
  <2>1. ASSUME NEW i \in 1..Len(rest) PROVE rest[i].src # rest[i].dst /\ rest[i].src \notin left
    <3>1. i + 1 \in 1..Len(c.todo) /\ rest[i] = c.todo[i + 1] /\ 1 < i + 1
      BY <1>2, <1>4
    <3>2. /\ c.todo[i + 1].src # c.todo[i + 1].dst /\ c.todo[i + 1].src \notin c.remaining
          /\ c.todo[1].src # c.todo[i + 1].src
      BY <1>4, <3>1 DEF Plan
    <3>3. QED
      BY <1>2, <3>1, <3>2
  <2>2. ASSUME NEW i \in 1..Len(rest), NEW k \in 1..Len(rest), i < k
        PROVE  rest[i].src # rest[k].src /\ (rest[i].dst = rest[k].dst => rest[k].asked)
    <3>1. i + 1 \in 1..Len(c.todo) /\ k + 1 \in 1..Len(c.todo) /\ i + 1 < k + 1
      BY <1>4, <2>2
    <3>2. rest[i] = c.todo[i + 1] /\ rest[k] = c.todo[k + 1]
      BY <1>2
    <3>3. QED
      BY <3>1, <3>2 DEF Plan
  <2>3. QED
    BY <1>3, <2>1, <2>2 DEF Plan
<1>8. c.mode = "cut" => Srcs(c) \subseteq Srcs(d) \cup (IF out.removed THEN {c.todo[1].src} ELSE {})
  <2> SUFFICES ASSUME c.mode = "cut", NEW x \in Srcs(c), x \notin Srcs(d) PROVE out.removed /\ x = c.todo[1].src
    OBVIOUS
  <2>1. x \notin left /\ c.remaining \subseteq left /\ (out.removed \/ c.todo[1].src \in left)
    BY <1>2, <1>3 DEF Srcs
  <2>2. PICK i \in 1..Len(c.todo) : x = c.todo[i].src
    BY <2>1 DEF Srcs
  <2>3. CASE i = 1
    BY <2>1, <2>2, <2>3
  <2>4. CASE i # 1
    <3>1. i - 1 \in 1..Len(rest) /\ (i - 1) + 1 = i
      BY <1>2, <2>4
    <3>2. rest[i - 1].src = x
      BY <1>2, <2>2, <3>1
    <3>3. x \in Srcs(d)
      BY <1>3, <3>1, <3>2 DEF Srcs
    <3>4. QED
      BY <3>3
  <2>5. QED
    BY <2>3, <2>4
<1>9. d.at = "loop" /\ d.mode = c.mode /\ d.todo = rest
  BY <1>3
<1>10. QED
  BY <1>1, <1>2, <1>4, <1>6, <1>7, <1>8, <1>9 DEF d

\* Paste p has done its first job, with out.
LEMMA MovesOn ==
  ASSUME IInv, NEW p \in Pastes, paste[p].todo # <<>>, paste[p].at \notin {"none", "over"}, NEW out \in Outs, NEW t \in {"loop", "timer"},
         paste' = [paste EXCEPT ![p] = [NextJob(paste[p], out) EXCEPT !.at = t]],
         op' \in [Pastes -> Ops], op'[p].at = "none", \A r \in Pastes \ {p} : op'[r] = op[r],
         there' \in [Paths -> {Nothing, 0} \cup Pastes],
         \A x \in Paths : there'[x] \in {there[x], Nothing} \/ (x = paste[p].todo[1].dst /\ there'[x] = p),
         since' = since, owed' \subseteq owed, out.removed /\ p \notin since => paste[p].todo[1].src \notin owed',
         clipboard' \in Clipboards, overruled' \subseteq Paths,
         overruled' = overruled \/ owed' \subseteq overruled', CutKept',
         busy' \in Seq(Pastes \cup {0}), daemon' \in {"down", "ready", "stopping", "dead"},
         strays' \subseteq strays \cup {[job |-> paste[p].todo[1], by |-> p]}, OnlyOthersReplaced'
  PROVE  IInv'
<1> DEFINE c == paste[p]
           d == NextJob(c, out)
           e == [d EXCEPT !.at = t]
           job == c.todo[1]
<1>1. c \in Contexts /\ Plan(c) /\ FreeOK(p)
  BY DEF IInv, DataOK, PasteOK
<1>2. /\ d \in Contexts /\ Plan(d) /\ d.at = "loop" /\ d.mode = c.mode
      /\ c.todo \in Seq(Jobs) /\ 1 \in 1..Len(c.todo) /\ Len(c.todo) \in Nat
      /\ Len(d.todo) = Len(c.todo) - 1 /\ \A i \in 1..Len(d.todo) : i + 1 \in 1..Len(c.todo) /\ d.todo[i] = c.todo[i + 1]
      /\ c.mode = "cut" => Srcs(c) \subseteq Srcs(d) \cup (IF out.removed THEN {c.todo[1].src} ELSE {})
  BY <1>1, NextJobFacts
<1> HIDE DEF d
<1>3. /\ e \in Contexts /\ e.at = t /\ e.mode = c.mode /\ e.todo = d.todo /\ e.remaining = d.remaining
  BY <1>2 DEF Contexts
<1> HIDE DEF e, c, job
<1>4. Plan(e) /\ Srcs(e) = Srcs(d)
  <2>1. Plan(d) /\ e.todo = d.todo /\ e.remaining = d.remaining /\ e.at \notin {"sent", "preview"}
    BY <1>2, <1>3
  <2>2. QED
    BY ONLY <2>1 DEF Plan, Srcs
<1>5. \A i \in 1..Len(e.todo) : i + 1 \in 1..Len(c.todo) /\ e.todo[i] = c.todo[i + 1] /\ 1 < i + 1
  <2>1. d.todo \in Seq(Jobs)
    BY <1>2 DEF Contexts
  <2>2. Len(d.todo) \in Nat
    BY ONLY <2>1, LenProperties
  <2>3. QED
    BY ONLY <1>2, <1>3, <2>2
<1>6. paste' \in [Pastes -> Contexts] /\ paste'[p] = e /\ \A r \in Pastes \ {p} : paste'[r] = paste[r]
  BY <1>3 DEF IInv, DataOK, e, d, c
<1>7. job \in Jobs /\ \A i \in 1..Len(e.todo) : e.todo[i].dst = job.dst => e.todo[i].asked
  <2>1. job \in Jobs
    BY <1>2, JobTypes DEF job
  <2>2. ASSUME NEW i \in 1..Len(e.todo), e.todo[i].dst = job.dst PROVE e.todo[i].asked
    <3>1. i + 1 \in 1..Len(c.todo) /\ e.todo[i] = c.todo[i + 1] /\ 1 < i + 1
      BY <1>5
    <3>2. c.todo[1].dst = c.todo[i + 1].dst => c.todo[i + 1].asked
      BY <1>1, <1>2, <3>1 DEF Plan, c
    <3>3. QED
      BY <2>2, <3>1, <3>2 DEF job
  <2>3. QED
    BY <2>1, <2>2
<1>8. DataOK'
  <2>1. strays' \subseteq [job : Jobs, by : Pastes]
    <3>1. [job |-> job, by |-> p] \in [job : Jobs, by : Pastes]
      BY <1>7
    <3>2. strays \subseteq [job : Jobs, by : Pastes]
      BY DEF IInv, DataOK
    <3>3. QED
      BY <3>1, <3>2 DEF job, c
  <2>2. since' \subseteq Started'
    BY <1>3, <1>6 DEF IInv, DataOK, Started
  <2>3. owed' \subseteq Paths
    BY DEF IInv, DataOK
  <2>4. QED
    BY <1>6, <2>1, <2>2, <2>3 DEF DataOK
<1>9. PasteOK(p)'
  <2>1. Plan(paste[p])'
    BY <1>4, <1>6
  <2>2. FreeOK(p)'
    <3> SUFFICES ASSUME NEW i \in 1..Len(e.todo), ~e.todo[i].asked
                 PROVE  there'[e.todo[i].dst] \in ({Nothing} \cup Pastes) \ {p}
      BY <1>6 DEF FreeOK
    <3>1. i + 1 \in 1..Len(c.todo) /\ e.todo[i] = c.todo[i + 1] /\ 1 < i + 1 /\ i + 1 \in Nat
      BY ONLY <1>2, <1>5, i \in 1..Len(e.todo)
    <3>2. c.todo[i + 1].dst \in Paths /\ e.todo[i].dst # job.dst
      BY <1>2, <1>7, <3>1, JobTypes
    <3>3. there[e.todo[i].dst] \in ({Nothing} \cup Pastes) \ {p}
      <4>1. i + 1 # 1
        BY ONLY <3>1
      <4>2. QED
        BY <1>1, <3>1, <4>1 DEF FreeOK, c
    <3>4. QED
      BY <3>1, <3>2, <3>3, NatPastes DEF c, job
  <2>3. OpOK(p)'
    BY DEF OpOK
  <2>4. HeldOK(p)'
    <3> SUFFICES ASSUME p \notin since, c.mode = "cut" PROVE owed' \subseteq Srcs(e) \cup overruled'
      BY <1>3, <1>6 DEF HeldOK
    <3>1. paste[p].at \in {"loop", "sent", "preview", "timer"} => owed \subseteq Srcs(c) \cup overruled
      BY DEF HeldOK, IInv, PasteOK, c
    <3>2. paste[p].at \in {"loop", "sent", "preview", "timer", "none", "over"}
      BY <1>1 DEF Contexts, c
    <3>3. owed \subseteq Srcs(c) \cup overruled
      BY <3>1, <3>2
    <3>4. Srcs(c) \subseteq Srcs(e) \cup (IF out.removed THEN {c.todo[1].src} ELSE {})
      BY <1>2, <1>4
    <3>5. out.removed => c.todo[1].src \notin owed'
      BY DEF c
    <3>6. QED
      BY <3>3, <3>4, <3>5
  <2>5. QED
    BY <2>1, <2>2, <2>3, <2>4 DEF PasteOK
<1>10. ASSUME NEW r \in Pastes, r # p PROVE PasteOK(r)'
  <2>1. paste'[r] = paste[r] /\ op'[r] = op[r]
    BY <1>6, <1>10
  <2>2. \A x \in Paths :
           \/ there'[x] \in {there[x], Nothing}
           \/ /\ there'[x] \in Pastes
              /\ there'[x] = r => \A i \in 1..Len(paste[r].todo) : paste[r].todo[i].dst = x => paste[r].todo[i].asked
    BY <1>10
  <2>3. QED
    BY <2>1, <2>2, Untouched
<1>11. StraysOK'
  <2> SUFFICES ASSUME NEW s \in strays'
               PROVE  /\ paste'[s.by].at # "none"
                      /\ \A i \in 1..Len(paste'[s.by].todo) : paste'[s.by].todo[i].dst = s.job.dst => paste'[s.by].todo[i].asked
    BY DEF StraysOK
  <2>1. paste'[p].at # "none" /\ paste'[p].todo = e.todo
    BY ONLY <1>3, <1>6, t \in {"loop", "timer"}
  <2>2. CASE s = [job |-> job, by |-> p]
    <3>1. s.job = job /\ s.by = p
      BY ONLY <2>2
    <3>2. QED
      BY ONLY <1>7, <2>1, <3>1
  <2>3. CASE s \in strays /\ s.by = p
    <3>1. \A i \in 1..Len(c.todo) : c.todo[i].dst = s.job.dst => c.todo[i].asked
      BY <2>3 DEF IInv, StraysOK, c
    <3>2. \A i \in 1..Len(e.todo) : e.todo[i].dst = s.job.dst => e.todo[i].asked
      BY ONLY <1>5, <3>1
    <3>3. QED
      BY ONLY <2>3, <2>1, <3>2
  <2>4. CASE s \in strays /\ s.by # p
    <3>1. s.by \in Pastes
      BY <2>4 DEF IInv, DataOK
    <3>2. paste'[s.by] = paste[s.by]
      BY <1>6, <2>4, <3>1
    <3>3. QED
      BY <2>4, <3>2 DEF IInv, StraysOK
  <2>5. QED
    BY <2>2, <2>3, <2>4 DEF c, job
<1>12. QED
  BY <1>8, <1>9, <1>10, <1>11 DEF IInv

----------------------------------------------------------------------------
(* The steps.                                                              *)

\* No paste is touched, nor what it works on.
LEMMA SamePastes ==
  ASSUME IInv, UNCHANGED <<there, clipboard, paste, op, historyVars>>, strays' \subseteq strays,
         busy' \in Seq(Pastes \cup {0}), daemon' \in {"down", "ready", "stopping", "dead"}
  PROVE  IInv'
<1>1. UNCHANGED <<there, clipboard, paste, op, owed, since, overruled, clobbered>>
  BY DEF historyVars
<1>2. DataOK'
  BY <1>1 DEF IInv, DataOK, Started
<1>3. \A p \in Pastes : PasteOK(p)'
  BY <1>1 DEF IInv, PasteOK, Plan, FreeOK, OpOK, HeldOK
<1>4. StraysOK' /\ CutKept' /\ OnlyOthersReplaced'
  BY <1>1 DEF IInv, StraysOK, CutKept, OnlyOthersReplaced
<1>5. QED
  BY <1>2, <1>3, <1>4 DEF IInv

\* Paste p waits for somebody, or is back in its loop.
LEMMA MovesAt ==
  ASSUME IInv, NEW p \in Pastes, NEW x \in {"loop", "sent", "preview"}, paste[p].at \in {"loop", "timer"},
         x # "loop" => paste[p].todo # <<>>, x = "preview" => paste[p].mode = "cut",
         paste' = [paste EXCEPT ![p].at = x],
         op' = IF x = "sent" THEN [op EXCEPT ![p] = [at |-> "sent"]] ELSE op,
         busy' \in Seq(Pastes \cup {0}), UNCHANGED <<there, clipboard, daemon, strays, historyVars>>
  PROVE  IInv'
<1>1. UNCHANGED <<there, clipboard, daemon, strays, owed, since, overruled, clobbered>>
  BY DEF historyVars
<1>2. /\ paste' \in [Pastes -> Contexts] /\ \A r \in Pastes \ {p} : paste'[r] = paste[r]
      /\ paste'[p].at = x /\ paste'[p].mode = paste[p].mode
      /\ paste'[p].todo = paste[p].todo /\ paste'[p].remaining = paste[p].remaining
  BY DEF IInv, DataOK, Contexts
<1>3. /\ op' \in [Pastes -> Ops] /\ \A r \in Pastes \ {p} : op'[r] = op[r]
      /\ op'[p].at \in {"sent", op[p].at} /\ (op'[p].at # op[p].at => x = "sent")
  BY DEF IInv, DataOK, Ops
<1>4. op[p].at = "none" /\ Plan(paste[p]) /\ FreeOK(p) /\ HeldOK(p)
  BY DEF IInv, PasteOK, OpOK
<1>5. DataOK'
  <2>1. since' \subseteq Started'
    BY <1>1, <1>2 DEF IInv, DataOK, Started
  <2>2. QED
    BY <1>1, <1>2, <1>3, <2>1 DEF IInv, DataOK
<1>6. PasteOK(p)'
  <2>1. Plan(paste[p])'
    BY <1>2, <1>4 DEF Plan
  <2>2. FreeOK(p)'
    BY <1>1, <1>2, <1>4 DEF FreeOK
  <2>3. OpOK(p)'
    BY <1>2, <1>3, <1>4 DEF OpOK
  <2>4. HeldOK(p)'
    BY <1>1, <1>2, <1>4 DEF HeldOK, Srcs
  <2>5. QED
    BY <2>1, <2>2, <2>3, <2>4 DEF PasteOK
<1>7. ASSUME NEW r \in Pastes, r # p PROVE PasteOK(r)'
  BY <1>1, <1>2, <1>3, <1>7, Untouched
<1>8. StraysOK'
  <2>1. \A s \in strays : s.by \in Pastes
    BY DEF IInv, DataOK
  <2>2. \A r \in Pastes : paste'[r].todo = paste[r].todo /\ (paste[r].at # "none" => paste'[r].at # "none")
    BY <1>2
  <2>3. QED
    BY <1>1, <2>1, <2>2 DEF IInv, StraysOK
<1>9. CutKept' /\ OnlyOthersReplaced'
  BY <1>1 DEF IInv, CutKept, OnlyOthersReplaced
<1>10. QED
  BY <1>5, <1>6, <1>7, <1>8, <1>9 DEF IInv

LEMMA CopyOrCutStep == \A mode \in {"copy", "cut"} : IInv /\ OnCopyOrCut(mode) => IInv'
<1> SUFFICES ASSUME IInv, NEW mode \in {"copy", "cut"}, OnCopyOrCut(mode) PROVE IInv'
  OBVIOUS
<1>1. UNCHANGED <<there, paste, busy, clobbered, op, daemon, strays>> /\ since' = Started /\ overruled' = {}
  BY DEF OnCopyOrCut, DaemonUnchanged
<1>2. PICK items \in SUBSET {x \in Paths : Exists(x)} :
        clipboard' = [mode |-> mode, items |-> items] /\ owed' = IF mode = "cut" THEN items ELSE {}
  BY DEF OnCopyOrCut
<1>3. DataOK'
  <2>1. clipboard' \in Clipboards /\ owed' \subseteq Paths
    BY <1>2 DEF Clipboards
  <2>2. since' \subseteq Started'
    BY <1>1 DEF Started
  <2>3. QED
    BY <1>1, <2>1, <2>2 DEF IInv, DataOK
<1>4. ASSUME NEW p \in Pastes PROVE PasteOK(p)'
  <2>1. Plan(paste[p]) /\ FreeOK(p) /\ OpOK(p)
    BY DEF IInv, PasteOK
  <2>2. Plan(paste[p])' /\ FreeOK(p)'
    BY <1>1, <2>1 DEF FreeOK
  <2>3. p \notin since' => paste[p].at = "none"
    BY <1>1 DEF Started
  <2>4. OpOK(p)' /\ HeldOK(p)'
    BY <1>1, <2>1, <2>3 DEF OpOK, HeldOK
  <2>5. QED
    BY <2>2, <2>4 DEF PasteOK
<1>5. StraysOK' /\ OnlyOthersReplaced'
  BY <1>1 DEF IInv, StraysOK, OnlyOthersReplaced
<1>6. CutKept'
  BY <1>1, <1>2 DEF CutKept
<1>7. QED
  BY <1>3, <1>4, <1>5, <1>6 DEF IInv

LEMMA FinishStep == \A p \in Pastes : IInv /\ busy # <<>> /\ paste[p].at = "loop" /\ PasteFinish(p) => IInv'
<1> SUFFICES ASSUME IInv, NEW p \in Pastes, busy # <<>>, paste[p].at = "loop", PasteFinish(p) PROVE IInv'
  OBVIOUS
<1>1. /\ paste[p].todo = <<>> /\ busy' = Tail(busy) /\ paste' = [paste EXCEPT ![p] = [NoPaste EXCEPT !.at = "over"]]
      /\ UNCHANGED <<there, owed, since, clobbered, op, daemon, strays>>
  BY DEF PasteFinish, DaemonUnchanged
<1>2. busy' \in Seq(Pastes \cup {0})
  BY <1>1, HeadTailProperties DEF IInv, DataOK
<1>3. /\ clipboard' \in Clipboards /\ overruled' \subseteq Paths
      /\ overruled' = overruled \/ owed' \subseteq overruled'
      /\ CutKept'
  <2>1. CASE paste[p].mode # "cut"
    <3>1. UNCHANGED <<clipboard, overruled>>
      BY <2>1 DEF PasteFinish
    <3>2. QED
      BY <1>1, <3>1 DEF IInv, DataOK, CutKept
  <2>2. CASE paste[p].mode = "cut"
    <3>1. Keep(p, paste[p].remaining)
      BY <2>2 DEF PasteFinish
    <3>2. paste[p].remaining \subseteq Paths
      BY DEF IInv, DataOK, Contexts
    <3>3. clipboard' \in Clipboards
      BY <3>1, <3>2 DEF Keep, Clipboards
    <3>4. p \in since => overruled' = owed
      BY <3>1 DEF Keep
    <3>5. p \notin since => overruled' = overruled /\ owed \subseteq paste[p].remaining \cup overruled
      <4>1. HeldOK(p) /\ Srcs(paste[p]) = paste[p].remaining
        BY <1>1 DEF IInv, PasteOK, Srcs
      <4>2. QED
        BY <2>2, <3>1, <4>1 DEF HeldOK, Keep
    <3>6. paste[p].remaining \subseteq (IF clipboard'.mode = "cut" THEN clipboard'.items ELSE {})
      BY <3>1 DEF Keep
    <3>7. CutKept'
      BY <1>1, <3>4, <3>5, <3>6 DEF CutKept
    <3>8. QED
      BY <1>1, <3>3, <3>4, <3>5, <3>7 DEF IInv, DataOK
  <2>3. QED
    BY <2>1, <2>2
<1> DEFINE e == [NoPaste EXCEPT !.at = "over"]
<1>4. e \in Contexts /\ e.at = "over" /\ e.todo = <<>>
  <2>1. NoPaste \in Contexts /\ NoPaste.todo = <<>>
    BY DEF NoPaste, Contexts
  <2>2. QED
    BY <2>1 DEF Contexts
<1>5. paste' \in [Pastes -> Contexts] /\ paste'[p] = e /\ \A r \in Pastes \ {p} : paste'[r] = paste[r]
  BY <1>1, <1>4 DEF IInv, DataOK
<1> HIDE DEF e
<1>6. DataOK'
  <2>1. since' \subseteq Started'
    BY <1>1, <1>4, <1>5 DEF IInv, DataOK, Started
  <2>2. QED
    BY <1>1, <1>2, <1>3, <1>5, <2>1 DEF IInv, DataOK
<1>7. PasteOK(p)'
  <2>1. op[p].at = "none"
    BY DEF IInv, PasteOK, OpOK
  <2>2. 1..Len(e.todo) = {}
    BY <1>4
  <2>3. Plan(e)
    BY <1>4, <2>2 DEF Plan
  <2>4. FreeOK(p)' /\ OpOK(p)' /\ HeldOK(p)'
    BY <1>1, <1>4, <1>5, <2>1, <2>2 DEF FreeOK, OpOK, HeldOK
  <2>5. QED
    BY <1>5, <2>3, <2>4 DEF PasteOK
<1>8. ASSUME NEW r \in Pastes, r # p PROVE PasteOK(r)'
  BY <1>1, <1>3, <1>5, <1>8, Untouched
<1>9. StraysOK'
  <2>1. \A s \in strays : s.by \in Pastes
    BY DEF IInv, DataOK
  <2>2. 1..Len(e.todo) = {}
    BY <1>4
  <2>3. QED
    BY <1>1, <1>4, <1>5, <2>1, <2>2 DEF IInv, StraysOK
<1>10. OnlyOthersReplaced'
  BY <1>1 DEF IInv, OnlyOthersReplaced
<1>11. QED
  BY <1>3, <1>6, <1>7, <1>8, <1>9, <1>10 DEF IInv

\* What Vim is in the middle of.
LEMMA CurrentFacts ==
  ASSUME IInv, busy # <<>>
  PROVE  Current \in Pastes \cup {0} /\ Tail(busy) \in Seq(Pastes \cup {0})
BY HeadTailProperties DEF IInv, DataOK, Current

LEMMA PreviewStep == \A p \in Pastes : IInv /\ busy # <<>> /\ paste[p].at = "loop" /\ Preview(p) => IInv'
<1> SUFFICES ASSUME IInv, NEW p \in Pastes, busy # <<>>, paste[p].at = "loop", Preview(p) PROVE IInv'
  OBVIOUS
<1>1. busy' \in Seq(Pastes \cup {0})
  BY CurrentFacts DEF Preview
<1>2. QED
  BY <1>1, MovesAt DEF Preview, DaemonUnchanged

LEMMA SendStep == \A p \in Pastes : IInv /\ busy # <<>> /\ paste[p].at = "loop" /\ Send(p) => IInv'
<1> SUFFICES ASSUME IInv, NEW p \in Pastes, busy # <<>>, paste[p].at = "loop", Send(p) PROVE IInv'
  OBVIOUS
<1>1. busy' \in Seq(Pastes \cup {0})
  BY CurrentFacts DEF Send
<1>2. QED
  BY <1>1, MovesAt DEF Send

LEMMA TimerStep == \A p \in Pastes : IInv /\ PasteTimer(p) => IInv'
<1> SUFFICES ASSUME IInv, NEW p \in Pastes, PasteTimer(p) PROVE IInv'
  OBVIOUS
<1>1. busy' \in Seq(Pastes \cup {0})
  BY DEF PasteTimer
<1>2. QED
  BY <1>1, MovesAt DEF PasteTimer, DaemonUnchanged

\* The first job of a paste.
LEMMA JobFacts ==
  ASSUME IInv, NEW p \in Pastes, paste[p].todo # <<>>
  PROVE  /\ Job(p) = paste[p].todo[1] /\ Job(p) \in Jobs /\ Job(p).src # Job(p).dst /\ 1 \in 1..Len(paste[p].todo)
         /\ paste[p] \in Contexts
         /\ \A out \in Outs : [NextJob(paste[p], out) EXCEPT !.at = "loop"] = NextJob(paste[p], out)
<1>1. paste[p] \in Contexts /\ Plan(paste[p])
  BY DEF IInv, DataOK, PasteOK
<1>2. ASSUME NEW out \in Outs PROVE
        /\ NextJob(paste[p], out) \in Contexts /\ NextJob(paste[p], out).at = "loop"
        /\ paste[p].todo \in Seq(Jobs) /\ 1 \in 1..Len(paste[p].todo) /\ Job(p) = paste[p].todo[1]
  BY <1>1, NextJobFacts DEF Job
<1>3. ASSUME NEW d \in Contexts, d.at = "loop" PROVE [d EXCEPT !.at = "loop"] = d
  BY <1>3 DEF Contexts
<1>4. [installed |-> FALSE, removed |-> FALSE] \in Outs
  BY DEF Outs
<1>5. paste[p].todo \in Seq(Jobs) /\ 1 \in 1..Len(paste[p].todo) /\ Job(p) = paste[p].todo[1]
  BY <1>2, <1>4
<1>6. Job(p) \in Jobs /\ Job(p).src # Job(p).dst
  BY <1>1, <1>5, JobTypes DEF Plan
<1>7. QED
  BY <1>1, <1>2, <1>3, <1>5, <1>6

\* A replaced target that nobody was asked about was another paste's.
LEMMA RecordFacts ==
  ASSUME IInv, NEW p \in Pastes, paste[p].todo # <<>>, op[p].at # "answered",
         NEW o, Record(Job(p), p, o)
  PROVE  OnlyOthersReplaced'
<1>1. Job(p) = paste[p].todo[1] /\ 1 \in 1..Len(paste[p].todo) /\ FreeOK(p)
  BY JobFacts DEF IInv, PasteOK
<1>2. Exists(Job(p).dst) /\ ~Job(p).asked => there[Job(p).dst] \in Pastes \ {p}
  BY <1>1, NatPastes DEF FreeOK, Exists
<1>3. clobbered' = clobbered \/ (clobbered' = clobbered \cup {[by |-> p, of |-> there[Job(p).dst]]}
                                /\ Exists(Job(p).dst) /\ ~Job(p).asked)
  BY DEF Record
<1>4. QED
  BY <1>2, <1>3 DEF IInv, OnlyOthersReplaced

LEMMA SyncStep == \A p \in Pastes : IInv /\ busy # <<>> /\ paste[p].at = "loop" /\ Sync(p) => IInv'
<1> SUFFICES ASSUME IInv, NEW p \in Pastes, busy # <<>>, paste[p].at = "loop", Sync(p) PROVE IInv'
  OBVIOUS
<1>1. /\ paste[p].todo # <<>> /\ UNCHANGED <<clipboard, busy, since, overruled, op, daemon, strays>>
  BY DEF Sync, DaemonUnchanged
<1>2. PICK o \in Outcomes(Job(p), Kind(p)) :
        Carry(Job(p), p, o) /\ Record(Job(p), p, o) /\ paste' = [paste EXCEPT ![p] = NextJob(@, o.out)]
  BY DEF Sync
<1>3. /\ Job(p) = paste[p].todo[1] /\ Job(p) \in Jobs /\ Job(p).src # Job(p).dst
      /\ \A out \in Outs : [NextJob(paste[p], out) EXCEPT !.at = "loop"] = NextJob(paste[p], out)
  BY <1>1, JobFacts
<1>4. /\ there' \in [Paths -> {Nothing, 0} \cup Pastes] /\ o.out \in Outs
      /\ \A x \in Paths : there'[x] \in {there[x], Nothing} \/ (x = Job(p).dst /\ there'[x] = p)
      /\ owed' \subseteq owed /\ (o.out.removed => Job(p).src \notin owed')
  BY <1>2, <1>3, CarryFacts DEF IInv
<1>5. op[p].at = "none"
  BY DEF IInv, PasteOK, OpOK
<1>6. OnlyOthersReplaced'
  BY <1>1, <1>2, <1>5, RecordFacts
<1>7. CutKept'
  BY <1>1, <1>4 DEF IInv, CutKept
<1>8. paste' = [paste EXCEPT ![p] = [NextJob(paste[p], o.out) EXCEPT !.at = "loop"]]
  BY <1>2, <1>3, <1>4
<1>9. /\ op' \in [Pastes -> Ops] /\ op'[p].at = "none" /\ \A r \in Pastes \ {p} : op'[r] = op[r]
      /\ clipboard' \in Clipboards /\ overruled' \subseteq Paths
      /\ busy' \in Seq(Pastes \cup {0}) /\ daemon' \in {"down", "ready", "stopping", "dead"}
  BY <1>1, <1>5 DEF IInv, DataOK
<1> DEFINE out == o.out
<1>10. /\ out \in Outs /\ paste[p].at \notin {"none", "over"}
       /\ paste' = [paste EXCEPT ![p] = [NextJob(paste[p], out) EXCEPT !.at = "loop"]]
       /\ out.removed /\ p \notin since => paste[p].todo[1].src \notin owed'
       /\ \A x \in Paths : there'[x] \in {there[x], Nothing} \/ (x = paste[p].todo[1].dst /\ there'[x] = p)
       /\ strays' \subseteq strays \cup {[job |-> paste[p].todo[1], by |-> p]}
       /\ overruled' = overruled /\ since' = since /\ owed' \subseteq owed
  BY <1>1, <1>3, <1>4, <1>8
<1> HIDE DEF out
<1>11. QED
  BY <1>1, <1>4, <1>6, <1>7, <1>9, <1>10, MovesOn

LEMMA ReadAnswerStep == \A p \in Pastes : IInv /\ ReadAnswer(p) => IInv'
<1> SUFFICES ASSUME IInv, NEW p \in Pastes, ReadAnswer(p) PROVE IInv'
  OBVIOUS
<1> DEFINE out == op[p].out
<1>1. /\ op[p].at = "answered" /\ paste' = [paste EXCEPT ![p] = NextJob(@, out)] /\ op' = [op EXCEPT ![p] = NoOp]
      /\ busy' = <<p>> /\ UNCHANGED <<there, clipboard, daemon, strays, owed, since, overruled, clobbered>>
  BY DEF ReadAnswer, historyVars
<1>2. op[p] \in Ops /\ paste[p].at = "sent" /\ Plan(paste[p]) /\ OpOK(p)
  BY <1>1 DEF IInv, DataOK, PasteOK, OpOK
<1>3. out \in Outs /\ paste[p].todo # <<>>
  BY <1>1, <1>2 DEF Ops, Plan
<1>4. out.removed /\ p \notin since => paste[p].todo[1].src \notin owed
  BY <1>1, <1>2 DEF OpOK
<1> HIDE DEF out
<1>5. paste' = [paste EXCEPT ![p] = [NextJob(paste[p], out) EXCEPT !.at = "loop"]]
  BY <1>1, <1>3, JobFacts
<1>6. NoOp \in Ops /\ NoOp.at = "none"
  BY DEF NoOp, Ops
<1>7. /\ op' \in [Pastes -> Ops] /\ op'[p].at = "none" /\ \A r \in Pastes \ {p} : op'[r] = op[r]
  BY <1>1, <1>6 DEF IInv, DataOK
<1>8. /\ clipboard' \in Clipboards /\ overruled' \subseteq Paths
      /\ daemon' \in {"down", "ready", "stopping", "dead"} /\ there' \in [Paths -> {Nothing, 0} \cup Pastes]
  BY <1>1 DEF IInv, DataOK
<1>9. busy' \in Seq(Pastes \cup {0})
  <2>1. \A S : \A e \in S : <<e>> \in Seq(S)
    OBVIOUS
  <2>2. QED
    BY <1>1, <2>1
<1>10. CutKept' /\ OnlyOthersReplaced'
  BY <1>1 DEF IInv, CutKept, OnlyOthersReplaced
<1>11. QED
  BY <1>1, <1>2, <1>3, <1>4, <1>5, <1>7, <1>8, <1>9, <1>10, MovesOn

LEMMA FailOpStep == IInv /\ FailOp => IInv'
<1> SUFFICES ASSUME IInv, FailOp PROVE IInv'
  OBVIOUS
<1> DEFINE p == Current
           out == [installed |-> FALSE, removed |-> FALSE]
<1>1. /\ p # 0 /\ paste[p].at = "sent" /\ paste' = [paste EXCEPT ![p] = NextJob(@, out)]
      /\ strays' \in {strays, strays \cup {[job |-> Job(p), by |-> p]}} /\ op' = [op EXCEPT ![p] = NoOp]
      /\ UNCHANGED <<there, clipboard, busy, daemon, owed, since, overruled, clobbered>>
  BY DEF FailOp, historyVars
<1>2. p \in Pastes
  BY <1>1, CurrentFacts DEF FailOp
<1> HIDE DEF p
<1>3. out \in Outs /\ ~out.removed
  BY DEF Outs
<1>4. paste[p].todo # <<>>
  BY <1>1, <1>2 DEF IInv, PasteOK, Plan
<1> HIDE DEF out
<1>5. paste' = [paste EXCEPT ![p] = [NextJob(paste[p], out) EXCEPT !.at = "loop"]] /\ Job(p) = paste[p].todo[1]
  BY <1>1, <1>2, <1>3, <1>4, JobFacts
<1>6. NoOp \in Ops /\ NoOp.at = "none"
  BY DEF NoOp, Ops
<1>7. /\ op' \in [Pastes -> Ops] /\ op'[p].at = "none" /\ \A r \in Pastes \ {p} : op'[r] = op[r]
  BY <1>1, <1>2, <1>6 DEF IInv, DataOK
<1>8. /\ clipboard' \in Clipboards /\ overruled' \subseteq Paths
      /\ daemon' \in {"down", "ready", "stopping", "dead"} /\ there' \in [Paths -> {Nothing, 0} \cup Pastes]
      /\ busy' \in Seq(Pastes \cup {0})
  BY <1>1 DEF IInv, DataOK
<1>9. CutKept' /\ OnlyOthersReplaced'
  BY <1>1 DEF IInv, CutKept, OnlyOthersReplaced
<1>10. strays' \subseteq strays \cup {[job |-> paste[p].todo[1], by |-> p]}
  BY <1>1, <1>5
<1>11. QED
  BY <1>1, <1>2, <1>3, <1>4, <1>5, <1>7, <1>8, <1>9, <1>10, MovesOn

LEMMA CompleteStep == \A p \in Pastes : IInv /\ CompleteIntegratedMove(p) => IInv'
<1> SUFFICES ASSUME IInv, NEW p \in Pastes, CompleteIntegratedMove(p) PROVE IInv'
  OBVIOUS
<1> DEFINE out == [installed |-> TRUE, removed |-> TRUE]
           left == [there EXCEPT ![Job(p).src] = Nothing]
           c == paste[p]
<1>1. /\ c.at = "preview" /\ Carry(Job(p), p, [to |-> left, out |-> out])
      /\ clipboard' = [mode |-> "cut", items |-> LeftToMove(c)]
      /\ overruled' = (IF p \in since THEN owed' ELSE overruled)
      /\ paste' = [paste EXCEPT ![p] = [NextJob(@, out) EXCEPT !.at = "timer"]]
      /\ UNCHANGED <<busy, since, clobbered, op, daemon, strays>>
  BY DEF CompleteIntegratedMove, DaemonUnchanged
<1>2. Plan(c) /\ c \in Contexts /\ HeldOK(p) /\ op[p].at = "none"
  BY <1>1 DEF IInv, DataOK, PasteOK, OpOK
<1>3. c.todo # <<>> /\ c.mode = "cut"
  BY <1>1, <1>2 DEF Plan
<1>4. Job(p) = c.todo[1] /\ Job(p) \in Jobs /\ Job(p).src # Job(p).dst
  BY <1>3, JobFacts
<1>5. c.todo \in Seq(Jobs) /\ c.remaining \subseteq Paths /\ Len(c.todo) \in Nat
  BY <1>2, LenProperties DEF Contexts
<1>6. there' = [left EXCEPT ![Job(p).dst] = p] /\ owed' = {x \in owed : there'[x] # Nothing}
  BY <1>1 DEF Carry
<1>7. there \in [Paths -> {Nothing, 0} \cup Pastes] /\ Job(p).src \in Paths /\ Job(p).dst \in Paths
  BY <1>4 DEF IInv, DataOK, Jobs
<1>8. /\ there' \in [Paths -> {Nothing, 0} \cup Pastes]
      /\ \A x \in Paths : there'[x] = IF x = Job(p).dst THEN p ELSE IF x = Job(p).src THEN Nothing ELSE there[x]
  BY <1>6, <1>7
<1>9. owed' \subseteq owed /\ Job(p).src \notin owed' /\ owed' \subseteq Paths
  BY <1>4, <1>6, <1>7, <1>8 DEF IInv, DataOK
<1>10. out \in Outs
  BY DEF Outs
<1> HIDE DEF out, left, c
<1>11. LeftToMove(c) \subseteq Paths /\ Srcs(c) \subseteq LeftToMove(c) \cup {Job(p).src}
  <2>1. \A i \in 1..Len(c.todo) : (i = 1 \/ i \in 2..Len(c.todo)) /\ c.todo[i].src \in Paths
    BY <1>5, JobTypes
  <2>2. \A i \in 2..Len(c.todo) : i \in 1..Len(c.todo)
    BY <1>5
  <2>3. LeftToMove(c) \subseteq Paths
    BY <1>5, <2>1, <2>2 DEF LeftToMove
  <2>4. Srcs(c) \subseteq LeftToMove(c) \cup {Job(p).src}
    BY <1>4, <2>1 DEF LeftToMove, Srcs
  <2>5. QED
    BY <2>3, <2>4
<1>12. CutKept'
  <2>1. p \notin since => owed \subseteq Srcs(c) \cup overruled
    BY <1>1, <1>2, <1>3 DEF HeldOK, c
  <2>2. clipboard'.mode = "cut" /\ clipboard'.items = LeftToMove(c)
    BY <1>1 DEF c
  <2>3. QED
    BY <1>1, <1>9, <1>11, <2>1, <2>2 DEF CutKept
<1>13. /\ clipboard' \in Clipboards /\ overruled' \subseteq Paths
       /\ overruled' = overruled \/ owed' \subseteq overruled'
  BY <1>1, <1>9, <1>11 DEF IInv, DataOK, c, Clipboards
<1>14. OnlyOthersReplaced'
  BY <1>1 DEF IInv, OnlyOthersReplaced
<1>15. /\ op' \in [Pastes -> Ops] /\ op'[p].at = "none" /\ \A r \in Pastes \ {p} : op'[r] = op[r]
       /\ busy' \in Seq(Pastes \cup {0}) /\ daemon' \in {"down", "ready", "stopping", "dead"}
       /\ since' = since /\ strays' \subseteq strays \cup {[job |-> paste[p].todo[1], by |-> p]}
  BY <1>1, <1>2 DEF IInv, DataOK, c
<1>16. /\ paste[p].todo # <<>> /\ paste[p].at \notin {"none", "over"}
       /\ paste' = [paste EXCEPT ![p] = [NextJob(paste[p], out) EXCEPT !.at = "timer"]]
       /\ out.removed /\ p \notin since => paste[p].todo[1].src \notin owed'
       /\ \A x \in Paths : there'[x] \in {there[x], Nothing} \/ (x = paste[p].todo[1].dst /\ there'[x] = p)
  BY <1>1, <1>3, <1>4, <1>8, <1>9 DEF c
<1>17. QED
  BY <1>8, <1>9, <1>10, <1>12, <1>13, <1>14, <1>15, <1>16, MovesOn

LEMMA AnswerStep == \A p \in Pastes : IInv /\ Answer(p) => IInv'
<1> SUFFICES ASSUME IInv, NEW p \in Pastes, Answer(p) PROVE IInv'
  OBVIOUS
<1> DEFINE job == Job(p)
<1>1. op[p].at = "sent" /\ UNCHANGED <<daemon, strays, clipboard, paste, busy, since, overruled>>
  BY DEF Answer, FrontendUnchanged
<1>2. PICK o \in Outcomes(job, Kind(p)) :
        Carry(job, p, o) /\ Record(job, p, o) /\ op' = [op EXCEPT ![p] = [at |-> "answered", out |-> o.out]]
  BY DEF Answer
<1>3. paste[p].at = "sent" /\ Plan(paste[p]) /\ FreeOK(p) /\ HeldOK(p) /\ paste[p].todo # <<>>
  BY <1>1 DEF IInv, PasteOK, OpOK, Plan
<1>4. /\ job = paste[p].todo[1] /\ job \in Jobs /\ job.src # job.dst /\ 1 \in 1..Len(paste[p].todo)
      /\ paste[p].todo \in Seq(Jobs)
  BY <1>3, JobFacts DEF Contexts
<1> HIDE DEF job
<1>5. /\ there' \in [Paths -> {Nothing, 0} \cup Pastes] /\ o.out \in Outs
      /\ \A x \in Paths : there'[x] \in {there[x], Nothing} \/ (x = job.dst /\ there'[x] = p)
      /\ owed' \subseteq owed /\ (o.out.removed => job.src \notin owed')
  BY <1>2, <1>4, CarryFacts DEF IInv
<1>6. op' \in [Pastes -> Ops] /\ op'[p] = [at |-> "answered", out |-> o.out] /\ \A r \in Pastes \ {p} : op'[r] = op[r]
  <2>1. [at |-> "answered", out |-> o.out] \in Ops
    BY <1>5 DEF Ops
  <2>2. QED
    BY <1>2, <2>1 DEF IInv, DataOK
<1>7. DataOK'
  BY <1>1, <1>5, <1>6 DEF IInv, DataOK, Started
<1>8. PasteOK(p)'
  <2>1. Plan(paste[p])'
    BY <1>1, <1>3
  <2>2. FreeOK(p)'
    <3> SUFFICES ASSUME NEW i \in 1..Len(paste[p].todo), ~paste[p].todo[i].asked, i # 1
                 PROVE  there'[paste[p].todo[i].dst] \in ({Nothing} \cup Pastes) \ {p}
      BY <1>1, <1>6 DEF FreeOK
    <3>1. 1 < i
      OBVIOUS
    <3>2. paste[p].todo[i].dst \in Paths /\ paste[p].todo[i].dst # job.dst
      BY <1>3, <1>4, <3>1, JobTypes DEF Plan
    <3>3. there[paste[p].todo[i].dst] \in ({Nothing} \cup Pastes) \ {p}
      BY <1>3 DEF FreeOK
    <3>4. QED
      BY <1>5, <3>2, <3>3, NatPastes
  <2>3. OpOK(p)'
    BY <1>1, <1>3, <1>4, <1>5, <1>6 DEF OpOK
  <2>4. HeldOK(p)'
    BY <1>1, <1>3, <1>5 DEF HeldOK
  <2>5. QED
    BY <2>1, <2>2, <2>3, <2>4 DEF PasteOK
<1>9. ASSUME NEW r \in Pastes, r # p PROVE PasteOK(r)'
  BY <1>1, <1>5, <1>6, <1>9, Untouched
<1>10. StraysOK'
  BY <1>1 DEF IInv, StraysOK
<1>11. CutKept'
  BY <1>1, <1>5 DEF IInv, CutKept
<1>12. OnlyOthersReplaced'
  BY <1>1, <1>2, <1>3, RecordFacts DEF job
<1>13. QED
  BY <1>7, <1>8, <1>9, <1>10, <1>11, <1>12 DEF IInv

LEMMA StrayStep == IInv /\ Stray => IInv'
<1> SUFFICES ASSUME IInv, Stray PROVE IInv'
  OBVIOUS
<1>1. UNCHANGED <<clobbered, op, daemon, clipboard, paste, busy, since, overruled>>
  BY DEF Stray, FrontendUnchanged
<1>2. PICK s \in strays : /\ strays' = strays \ {s}
                          /\ \E o \in Outcomes(s.job, Kind(s.by)) : Carry(s.job, s.by, o)
  BY DEF Stray
<1>3. PICK o \in Outcomes(s.job, Kind(s.by)) : Carry(s.job, s.by, o)
  BY <1>2
<1>4. s.job \in Jobs /\ s.by \in Pastes
  BY DEF IInv, DataOK
<1>5. /\ there' \in [Paths -> {Nothing, 0} \cup Pastes]
      /\ \A x \in Paths : there'[x] \in {there[x], Nothing} \/ (x = s.job.dst /\ there'[x] = s.by)
      /\ owed' \subseteq owed
  BY <1>3, <1>4, CarryFacts DEF IInv
<1>6. DataOK'
  BY <1>1, <1>2, <1>5 DEF IInv, DataOK, Started
<1>7. ASSUME NEW r \in Pastes PROVE PasteOK(r)'
  <2>1. r = s.by => \A i \in 1..Len(paste[r].todo) : paste[r].todo[i].dst = s.job.dst => paste[r].todo[i].asked
    BY DEF IInv, StraysOK
  <2>2. QED
    BY <1>1, <1>4, <1>5, <2>1, Untouched
<1>8. StraysOK'
  BY <1>1, <1>2 DEF IInv, StraysOK
<1>9. CutKept' /\ OnlyOthersReplaced'
  BY <1>1, <1>5 DEF IInv, CutKept, OnlyOthersReplaced
<1>10. QED
  BY <1>6, <1>7, <1>8, <1>9 DEF IInv

\* What is planned: a target that is not taken holds nothing, and is no other job's.
LEMMA OnPasteStep == IInv /\ OnPaste => IInv'
<1> SUFFICES ASSUME IInv, OnPaste PROVE IInv'
  OBVIOUS
<1>1. UNCHANGED <<there, clipboard, op, daemon, strays, owed, since, overruled, clobbered>>
  BY DEF OnPaste, DaemonUnchanged, historyVars
<1>2. PICK p \in Pastes, dest \in Dirs, picked \in SUBSET clipboard.items :
       /\ \A q \in Pastes : q < p <=> q \in Started
       /\ \E srcs \in SetToSeqs(picked), name \in [picked -> Names] :
            LET dst == [i \in DOMAIN srcs |-> <<dest, name[srcs[i]]>>]
                reserved == [i \in DOMAIN srcs |-> {dst[k] : k \in 1..(i - 1)}]
                jobs == [i \in DOMAIN srcs |-> PlanPasteJob(srcs[i], dst[i], reserved[i])] IN
            /\ \A i \in DOMAIN srcs : MayPlan(jobs[i], reserved[i])
            /\ paste' = [paste EXCEPT ![p] =
                 [at |-> "loop", mode |-> clipboard.mode, todo |-> jobs,
                  remaining |-> IF clipboard.mode = "cut" THEN clipboard.items \ picked ELSE {}]]
       /\ busy' = <<p>>
  BY DEF OnPaste
<1>3. PICK srcs \in SetToSeqs(picked), name \in [picked -> Names] :
            LET dst == [i \in DOMAIN srcs |-> <<dest, name[srcs[i]]>>]
                reserved == [i \in DOMAIN srcs |-> {dst[k] : k \in 1..(i - 1)}]
                jobs == [i \in DOMAIN srcs |-> PlanPasteJob(srcs[i], dst[i], reserved[i])] IN
            /\ \A i \in DOMAIN srcs : MayPlan(jobs[i], reserved[i])
            /\ paste' = [paste EXCEPT ![p] =
                 [at |-> "loop", mode |-> clipboard.mode, todo |-> jobs,
                  remaining |-> IF clipboard.mode = "cut" THEN clipboard.items \ picked ELSE {}]]
  BY <1>2
<1> DEFINE dst == [i \in DOMAIN srcs |-> <<dest, name[srcs[i]]>>]
           reserved == [i \in DOMAIN srcs |-> {dst[k] : k \in 1..(i - 1)}]
           jobs == [i \in DOMAIN srcs |-> PlanPasteJob(srcs[i], dst[i], reserved[i])]
           left == IF clipboard.mode = "cut" THEN clipboard.items \ picked ELSE {}
           c == [at |-> "loop", mode |-> clipboard.mode, todo |-> jobs, remaining |-> left]
<1>4. (\A i \in DOMAIN srcs : MayPlan(jobs[i], reserved[i])) /\ paste' = [paste EXCEPT ![p] = c]
  BY <1>3
<1>5. clipboard.items \subseteq Paths /\ clipboard.mode \in {"copy", "cut"} /\ picked \subseteq Paths
  BY DEF OnPaste, IInv, DataOK, Clipboards
<1>6. /\ srcs \in Seq(picked) /\ DOMAIN srcs = 1..Len(srcs) /\ Len(srcs) \in Nat
      /\ \A i, j \in 1..Len(srcs) : i # j => srcs[i] # srcs[j]
  <2>1. IsFiniteSet(picked)
    BY <1>5, PathsFinite, FS_Subset
  <2>2. QED
    BY <2>1, InSomeOrder, LenProperties
<1>7. ASSUME NEW i \in 1..Len(srcs)
      PROVE  /\ srcs[i] \in picked /\ srcs[i] \in Paths /\ dst[i] \in Paths /\ dst[i] = <<dest, name[srcs[i]]>>
             /\ reserved[i] = {dst[k] : k \in 1..(i - 1)}
             /\ jobs[i] = [src |-> srcs[i], dst |-> dst[i], asked |-> Taken(dst[i], reserved[i])]
  <2>1. srcs[i] \in picked
    BY <1>6, ElementOfSeq
  <2>2. dst[i] = <<dest, name[srcs[i]]>>
    BY <1>6
  <2>3. dst[i] \in Paths
    BY <2>1, <2>2 DEF Paths
  <2>4. reserved[i] = {dst[k] : k \in 1..(i - 1)}
    BY <1>6
  <2>5. jobs[i] = [src |-> srcs[i], dst |-> dst[i], asked |-> Taken(dst[i], reserved[i])]
    BY <1>6 DEF PlanPasteJob
  <2>6. QED
    BY <1>5, <2>1, <2>2, <2>3, <2>4, <2>5
<1>8. DOMAIN jobs = 1..Len(srcs)
  BY <1>6
<1> HIDE DEF jobs, reserved, dst
<1>9. ASSUME NEW i \in 1..Len(srcs)
      PROVE  /\ jobs[i] \in Jobs /\ jobs[i].src = srcs[i] /\ jobs[i].dst = dst[i]
             /\ ~jobs[i].asked => ~Exists(dst[i]) /\ \A k \in 1..Len(srcs) : k < i => dst[k] # dst[i]
             /\ jobs[i].src # jobs[i].dst /\ Exists(jobs[i].src)
  <2>1. jobs[i] = [src |-> srcs[i], dst |-> dst[i], asked |-> Taken(dst[i], reserved[i])]
    BY <1>7
  <2>2. Taken(dst[i], reserved[i]) \in BOOLEAN
    BY DEF Taken, Exists
  <2>3. jobs[i] \in Jobs
    BY <1>7, <2>1, <2>2 DEF Jobs
  <2>4. jobs[i].src = srcs[i] /\ jobs[i].dst = dst[i] /\ (jobs[i].asked <=> Taken(dst[i], reserved[i]))
    BY <2>1
  <2>5. ASSUME ~jobs[i].asked PROVE ~Exists(dst[i]) /\ \A k \in 1..Len(srcs) : k < i => dst[k] # dst[i]
    <3>1. ~Exists(dst[i]) /\ dst[i] \notin reserved[i]
      BY <2>4, <2>5 DEF Taken
    <3>2. \A k \in 1..Len(srcs) : k < i => k \in 1..(i - 1)
      BY <1>6
    <3>3. QED
      BY <1>7, <3>1, <3>2
  <2>6. Exists(jobs[i].src)
    BY <1>4, <1>6 DEF MayPlan
  <2>7. jobs[i].src # jobs[i].dst
    <3> SUFFICES ASSUME srcs[i] = dst[i] PROVE FALSE
      BY <2>4
    <3>1. jobs[i].asked
      BY <2>4, <2>6, <2>5
    <3>2. srcs[i] = <<jobs[i].dst[1], jobs[i].src[2]>>
      <4>1. \A d, a, b : d = <<a, b>> => d[1] = a /\ d[2] = b
        OBVIOUS
      <4>2. dst[i] = <<dest, name[srcs[i]]>>
        BY <1>7
      <4>3. dst[i][1] = dest /\ dst[i][2] = name[srcs[i]]
        BY ONLY <4>1, <4>2
      <4>4. jobs[i].dst[1] = dest /\ jobs[i].src[2] = name[srcs[i]]
        BY <2>4, <4>3
      <4>5. QED
        BY <4>2, <4>4
    <3>3. QED
      BY <1>4, <1>6, <2>4, <3>1, <3>2 DEF MayPlan
  <2>8. QED
    BY <2>3, <2>4, <2>5, <2>6, <2>7
<1>10. jobs \in Seq(Jobs) /\ Len(jobs) = Len(srcs)
  <2>1. jobs = [i \in 1..Len(srcs) |-> jobs[i]]
    BY <1>6 DEF jobs
  <2>2. jobs \in [1..Len(srcs) -> Jobs]
    BY <1>9, <2>1
  <2>3. QED
    BY <1>6, <2>2
<1> HIDE DEF left
<1>11. c \in Contexts /\ c.at = "loop" /\ c.todo = jobs /\ c.remaining = left /\ c.mode = clipboard.mode
  BY <1>5, <1>10 DEF Contexts, left
<1> HIDE DEF c
<1>12. p \notin Started /\ paste[p].at = "none"
  <2>1. ~(p < p)
    BY NatPastes
  <2>2. QED
    BY <1>2, <2>1 DEF Started
<1>13. p \notin since /\ op[p].at = "none" /\ \A s \in strays : s.by # p
  BY <1>12 DEF IInv, DataOK, PasteOK, OpOK, StraysOK
<1>14. paste' \in [Pastes -> Contexts] /\ paste'[p] = c /\ \A r \in Pastes \ {p} : paste'[r] = paste[r]
  BY <1>4, <1>11 DEF IInv, DataOK
<1>15. DataOK'
  <2>1. since' \subseteq Started'
    BY <1>1, <1>11, <1>14 DEF IInv, DataOK, Started
  <2>2. busy' \in Seq(Pastes \cup {0})
    <3>1. \A S : \A e \in S : <<e>> \in Seq(S)
      OBVIOUS
    <3>2. QED
      BY <1>2, <3>1
  <2>3. QED
    BY <1>1, <1>14, <2>1, <2>2 DEF IInv, DataOK
<1>16. PasteOK(p)'
  <2>1. Plan(c)
    <3>1. ASSUME NEW i \in 1..Len(jobs) PROVE jobs[i].src # jobs[i].dst /\ jobs[i].src \notin left
      BY <1>7, <1>9, <1>10 DEF left
    <3>2. ASSUME NEW i \in 1..Len(jobs), NEW k \in 1..Len(jobs), i < k
          PROVE  jobs[i].src # jobs[k].src /\ (jobs[i].dst = jobs[k].dst => jobs[k].asked)
      BY <1>6, <1>9, <1>10, <3>2
    <3>3. QED
      BY <1>11, <3>1, <3>2 DEF Plan
  <2>2. FreeOK(p)'
    <3>1. \A i \in 1..Len(jobs) : ~jobs[i].asked => there[jobs[i].dst] = Nothing
      BY <1>9, <1>10 DEF Exists
    <3>2. QED
      BY <1>1, <1>11, <1>14, <3>1, NatPastes DEF FreeOK
  <2>3. OpOK(p)'
    BY <1>1, <1>13 DEF OpOK
  <2>4. HeldOK(p)'
    <3> SUFFICES ASSUME clipboard.mode = "cut" PROVE clipboard.items \subseteq Srcs(c)
      BY <1>1, <1>11, <1>14 DEF HeldOK, IInv, CutKept
    <3>1. picked \subseteq {srcs[i] : i \in 1..Len(srcs)}
      <4>1. IsFiniteSet(picked)
        BY <1>5, PathsFinite, FS_Subset
      <4>2. QED
        BY <4>1, InSomeOrder
    <3>2. \A i \in 1..Len(srcs) : srcs[i] \in Srcs(c)
      BY <1>9, <1>10, <1>11 DEF Srcs
    <3>3. left \subseteq Srcs(c) /\ clipboard.items = picked \cup left
      BY <1>11 DEF Srcs, left
    <3>4. QED
      BY <3>1, <3>2, <3>3
  <2>5. QED
    BY <1>14, <2>1, <2>2, <2>3, <2>4 DEF PasteOK
<1>17. ASSUME NEW r \in Pastes, r # p PROVE PasteOK(r)'
  BY <1>1, <1>14, <1>17, Untouched
<1>18. StraysOK'
  <2>1. \A s \in strays : s.by \in Pastes
    BY DEF IInv, DataOK
  <2>2. QED
    BY <1>1, <1>13, <1>14, <2>1 DEF IInv, StraysOK
<1>19. CutKept' /\ OnlyOthersReplaced'
  BY <1>1 DEF IInv, CutKept, OnlyOthersReplaced
<1>20. QED
  BY <1>15, <1>16, <1>17, <1>18, <1>19 DEF IInv

\* The pastes that wait, in some order.
LEMMA SentInOrder == \A f \in SetToSeqs(Sent) : f \in Seq(Pastes)
<1> TAKE f \in SetToSeqs(Sent)
<1>1. IsFiniteSet(Pastes)
  BY FS_Interval, PasteAssumption DEF Pastes
<1>2. IsFiniteSet(Sent) /\ Sent \subseteq Pastes
  BY <1>1, FS_Subset DEF Sent
<1>3. f \in Seq(Sent)
  BY <1>2, InSomeOrder
<1>4. QED
  BY <1>2, <1>3

LEMMA DaemonStep == IInv /\ (Dies \/ Exit \/ BStop \/ Stop \/ Pong) => IInv'
<1> SUFFICES ASSUME IInv, Dies \/ Exit \/ BStop \/ Stop \/ Pong PROVE IInv'
  OBVIOUS
<1>1. CASE Dies
  <2>1. strays' \subseteq strays /\ daemon' = "dead" /\ busy' \in Seq(Pastes \cup {0})
    BY <1>1 DEF Dies, FrontendUnchanged, IInv, DataOK
  <2>2. UNCHANGED <<there, clipboard, paste, op, historyVars>>
    BY <1>1 DEF Dies, FrontendUnchanged, historyVars
  <2>3. QED
    BY <2>1, <2>2, SamePastes
<1>2. CASE Exit
  <2>1. busy' \in Seq(Pastes \cup {0})
    <3>1. busy' \in Seq(Pastes)
      BY <1>2, SentInOrder DEF Exit
    <3>2. QED
      BY <3>1
  <2>2. QED
    BY <1>2, <2>1, SamePastes DEF Exit
<1>3. CASE BStop
  <2>1. PICK failing \in SetToSeqs(Sent) : busy' = Append(failing, 0)
    BY <1>3 DEF BStop
  <2>2. failing \in Seq(Pastes \cup {0})
    <3>1. failing \in Seq(Pastes)
      BY SentInOrder
    <3>2. QED
      BY <3>1
  <2>3. busy' \in Seq(Pastes \cup {0})
    BY <2>1, <2>2, AppendProperties
  <2>4. daemon' \in {"down", "ready", "stopping", "dead"} /\ strays' \subseteq strays
    BY <1>3 DEF BStop
  <2>5. QED
    BY <1>3, <2>3, <2>4, SamePastes DEF BStop
<1>4. CASE Stop
  <2>1. busy' \in Seq(Pastes \cup {0})
    <3>1. \A S : <<>> \in Seq(S)
      OBVIOUS
    <3>2. QED
      BY <1>4, <3>1 DEF Stop
  <2>2. daemon' \in {"down", "ready", "stopping", "dead"}
    BY <1>4 DEF Stop, IInv, DataOK
  <2>3. QED
    BY <1>4, <2>1, <2>2, SamePastes DEF Stop
<1>5. CASE Pong
  <2>1. busy' \in Seq(Pastes \cup {0})
    BY <1>5 DEF Pong, IInv, DataOK
  <2>2. QED
    BY <1>5, <2>1, SamePastes DEF Pong
<1>6. QED
  BY <1>1, <1>2, <1>3, <1>4, <1>5

LEMMA NextStep == IInv /\ [Next]_vars => IInv'
<1> SUFFICES ASSUME IInv, [Next]_vars PROVE IInv'
  OBVIOUS
<1>1. ASSUME NEW mode \in {"copy", "cut"}, OnCopyOrCut(mode) PROVE IInv'
  BY <1>1, CopyOrCutStep
<1>2. CASE OnPaste
  BY <1>2, OnPasteStep
<1>3. CASE PasteStep
  <2>1. Current \in Pastes /\ busy # <<>> /\ paste[Current].at = "loop"
    BY <1>3, CurrentFacts DEF PasteStep
  <2>2. PasteFinish(Current) \/ Preview(Current) \/ Send(Current) \/ Sync(Current)
    BY <1>3 DEF PasteStep
  <2>3. QED
    BY <2>1, <2>2, FinishStep, PreviewStep, SendStep, SyncStep
<1>4. CASE FailOp
  BY <1>4, FailOpStep
<1>5. ASSUME NEW p \in Pastes, ReadAnswer(p) \/ PasteTimer(p) PROVE IInv'
  BY <1>5, ReadAnswerStep, TimerStep
<1>6. ASSUME NEW p \in Pastes, Answer(p) \/ CompleteIntegratedMove(p) PROVE IInv'
  BY <1>6, AnswerStep, CompleteStep
<1>7. CASE Stray
  BY <1>7, StrayStep
<1>8. CASE Dies \/ Exit \/ BStop \/ Stop \/ Pong
  BY <1>8, DaemonStep
<1>9. CASE UNCHANGED vars
  <2>1. UNCHANGED <<there, clipboard, paste, op, historyVars, busy, daemon, strays>>
    BY <1>9 DEF vars
  <2>2. busy' \in Seq(Pastes \cup {0}) /\ daemon' \in {"down", "ready", "stopping", "dead"} /\ strays' \subseteq strays
    BY <2>1 DEF IInv, DataOK
  <2>3. QED
    BY <2>1, <2>2, SamePastes
<1>10. QED
  BY <1>1, <1>2, <1>3, <1>4, <1>5, <1>6, <1>7, <1>8, <1>9 DEF Next, User, Vim, Daemon

----------------------------------------------------------------------------
(* The theorems.                                                           *)

\* The plans of the pastes stay good, whatever the other pastes, the user and the
\* daemon do meanwhile (OnPaste(), PasteStep(), PasteStepDone()).
THEOREM Invariant == Spec => []IInv
<1>1. Init => IInv
  BY InitStep
<1>2. IInv /\ [Next]_vars => IInv'
  BY NextStep
<1>3. QED
  BY <1>1, <1>2, PTL DEF Spec

\* Every variable keeps its type, and an item left behind is not still to be done.
THEOREM TypeCorrect == Spec => []TypeOK
<1>1. IInv => TypeOK
  <2> SUFFICES ASSUME IInv PROVE TypeOK
    OBVIOUS
  <2>1. there \in [Paths -> {Nothing, 0} \cup Pastes] /\ daemon \in {"down", "ready", "stopping", "dead"}
    BY DEF IInv, DataOK
  <2>2. clipboard.mode \in {"", "copy", "cut"} /\ clipboard.items \subseteq Paths
    BY DEF IInv, DataOK, Clipboards
  <2>3. owed \cup overruled \subseteq Paths
    BY DEF IInv, DataOK
  <2>4. ASSUME NEW p \in Pastes
        PROVE  /\ paste[p].at \in {"none", "loop", "sent", "preview", "timer", "over"}
               /\ paste[p].remaining \subseteq Paths
               /\ \A i \in DOMAIN paste[p].todo : paste[p].todo[i].src \notin paste[p].remaining
               /\ (op[p].at # "none") => paste[p].at = "sent"
    <3>1. paste[p] \in Contexts /\ Plan(paste[p]) /\ OpOK(p)
      BY DEF IInv, DataOK, PasteOK
    <3>2. DOMAIN paste[p].todo = 1..Len(paste[p].todo)
      BY <3>1, LenProperties DEF Contexts
    <3>3. QED
      BY <3>1, <3>2 DEF Contexts, Plan, OpOK
  <2>5. QED
    BY <2>1, <2>2, <2>3, <2>4 DEF TypeOK
<1>2. QED
  BY <1>1, Invariant, PTL

\* simpletree.vim:4853: what was cut and not moved is still in the clipboard, or
\* a paste older than the cut has overwritten it.
THEOREM CutKeptHolds == Spec => []CutKept
<1>1. IInv => CutKept
  BY DEF IInv
<1>2. QED
  BY <1>1, Invariant, PTL

\* simpletree.vim:1024: a paste replaces, without asking, only what another paste
\* has put on its target since it was planned.
THEOREM OnlyOthersReplacedHolds == Spec => []OnlyOthersReplaced
<1>1. IInv => OnlyOthersReplaced
  BY DEF IInv
<1>2. QED
  BY <1>1, Invariant, PTL

----------------------------------------------------------------------------
(* Nobody waits for nothing.                                               *)

IsBusy(p) == \E i \in 1..Len(busy) : busy[i] = p

\* Vim is in the middle of the loop of one paste, with the failures of others behind
\* it, each once, and the end of BStop() last.
BusyOK ==
  /\ \A i, k \in 1..Len(busy) : i # k => busy[i] # busy[k]
  /\ \A i \in 1..Len(busy) :
       \/ busy[i] = 0 /\ i = Len(busy)
       \/ busy[i] # 0 /\ (paste[busy[i]].at = "sent" \/ (i = 1 /\ paste[busy[i]].at = "loop"))
  /\ \A p \in Pastes : paste[p].at = "loop" => busy # <<>> /\ busy[1] = p

\* A paste that waits for the daemon has an operation there, at work or answered, and the
\* daemon has not gone unnoticed; or Vim is about to tell it that there is no answer.
AnswerComing ==
  \A p \in Pastes : paste[p].at = "sent" =>
    (op[p].at # "none" /\ daemon # "down") \/ IsBusy(p)

\* PastesEnd, without the time it takes: a paste that is in its loop is the one that Vim
\* runs, what Vim runs can always go on, and who waits for an answer has one coming.
NobodyStuck ==
  /\ \A p \in Pastes : paste[p].at = "loop" => busy # <<>> /\ Current = p
  /\ busy # <<>> => busy = <<0>> \/ (Current \in Pastes /\ paste[Current].at \in {"loop", "sent"})
  /\ AnswerComing

Going == BusyOK /\ AnswerComing

LEMMA BusyFacts ==
  ASSUME IInv
  PROVE  /\ busy \in Seq(Pastes \cup {0}) /\ Len(busy) \in Nat /\ (busy = <<>> <=> Len(busy) = 0)
         /\ \A i \in 1..Len(busy) : busy[i] \in Pastes \cup {0}
         /\ busy # <<>> => /\ Current = busy[1] /\ 1 \in 1..Len(busy) /\ Len(Tail(busy)) = Len(busy) - 1
                           /\ \A i \in 1..Len(Tail(busy)) : i + 1 \in 1..Len(busy) /\ Tail(busy)[i] = busy[i + 1]
         /\ paste \in [Pastes -> Contexts] /\ op \in [Pastes -> Ops]
<1>1. busy \in Seq(Pastes \cup {0}) /\ paste \in [Pastes -> Contexts] /\ op \in [Pastes -> Ops]
  BY DEF IInv, DataOK
<1>2. Len(busy) \in Nat /\ (busy = <<>> <=> Len(busy) = 0) /\ \A i \in 1..Len(busy) : busy[i] \in Pastes \cup {0}
  BY <1>1
<1>3. ASSUME busy # <<>>
      PROVE  /\ Current = busy[1] /\ 1 \in 1..Len(busy) /\ Len(Tail(busy)) = Len(busy) - 1
             /\ \A i \in 1..Len(Tail(busy)) : i + 1 \in 1..Len(busy) /\ Tail(busy)[i] = busy[i + 1]
  BY <1>1, <1>2, <1>3, HeadTailProperties DEF Current
<1>4. QED
  BY <1>1, <1>2, <1>3

\* A step of others: no paste comes to its loop or leaves it, or begins to wait, and no
\* daemon goes.
LEMMA GoingStays ==
  ASSUME Going, busy' = busy,
         \A p \in Pastes : /\ paste'[p].at = "loop" <=> paste[p].at = "loop"
                           /\ paste'[p].at = "sent" <=> paste[p].at = "sent"
                           /\ op[p].at # "none" => op'[p].at # "none",
         busy \in Seq(Pastes \cup {0}), daemon # "down" => daemon' # "down"
  PROVE  Going'
<1>1. \A i \in 1..Len(busy) : busy[i] \in Pastes \cup {0}
  OBVIOUS
<1>2. BusyOK'
  BY <1>1 DEF Going, BusyOK
<1>3. AnswerComing'
  BY DEF Going, AnswerComing, IsBusy
<1>4. QED
  BY <1>2, <1>3 DEF Going

\* Paste p, which Vim runs, comes to an end or has to wait.
LEMMA GoesOn ==
  ASSUME IInv, Going, NEW p \in Pastes, busy # <<>>, Current = p, busy' = Tail(busy),
         paste'[p].at # "loop", paste'[p].at = "sent" => op'[p].at # "none" /\ daemon # "down",
         \A q \in Pastes \ {p} : paste'[q] = paste[q] /\ op'[q] = op[q], daemon' = daemon
  PROVE  Going'
<1>1. /\ \A i \in 1..Len(busy) : busy[i] \in Pastes \cup {0}
      /\ busy[1] = p /\ 1 \in 1..Len(busy) /\ Len(busy) \in Nat /\ Len(busy') = Len(busy) - 1
      /\ \A i \in 1..Len(busy') : i + 1 \in 1..Len(busy) /\ busy'[i] = busy[i + 1]
  BY BusyFacts
<1>0. \A i, k \in 1..Len(busy) : i # k => busy[i] # busy[k]
  BY DEF Going, BusyOK
<1>2. ASSUME NEW i \in 1..Len(busy') PROVE busy'[i] # p
  <2>1. i + 1 \in 1..Len(busy) /\ i + 1 # 1 /\ busy'[i] = busy[i + 1]
    BY ONLY <1>1, i \in 1..Len(busy')
  <2>2. QED
    BY ONLY <1>0, <1>1, <2>1
<1>3. ASSUME NEW i \in 1..Len(busy'), NEW k \in 1..Len(busy'), i # k PROVE busy'[i] # busy'[k]
  <2>1. /\ i + 1 \in 1..Len(busy) /\ k + 1 \in 1..Len(busy) /\ i + 1 # k + 1
        /\ busy'[i] = busy[i + 1] /\ busy'[k] = busy[k + 1]
    BY ONLY <1>1, <1>3, i \in 1..Len(busy'), k \in 1..Len(busy')
  <2>2. QED
    BY ONLY <1>0, <2>1
<1>4. ASSUME NEW i \in 1..Len(busy')
      PROVE  \/ busy'[i] = 0 /\ i = Len(busy')
             \/ busy'[i] # 0 /\ paste'[busy'[i]].at = "sent"
  <2>1. i + 1 \in 1..Len(busy) /\ busy'[i] = busy[i + 1] /\ i + 1 # 1 /\ busy'[i] \in Pastes \cup {0}
    BY <1>1
  <2>2. \/ busy[i + 1] = 0 /\ i + 1 = Len(busy)
        \/ busy[i + 1] # 0 /\ paste[busy[i + 1]].at = "sent"
    BY <2>1 DEF Going, BusyOK
  <2>3. i + 1 = Len(busy) => i = Len(busy')
    BY ONLY <1>1, i \in 1..Len(busy')
  <2>4. busy'[i] \in Pastes \ {p} \/ busy'[i] = 0
    BY <1>2, <2>1
  <2>5. QED
    BY <2>1, <2>2, <2>3, <2>4
<1>5. ASSUME NEW q \in Pastes PROVE paste'[q].at # "loop"
  <2>1. paste[q].at = "loop" => q = p
    BY <1>1 DEF Going, BusyOK
  <2>2. QED
    BY <2>1
<1>6. BusyOK'
  BY <1>3, <1>4, <1>5 DEF BusyOK
<1>7. ASSUME NEW q \in Pastes, paste'[q].at = "sent"
      PROVE  (op'[q].at # "none" /\ daemon' # "down") \/ IsBusy(q)'
  <2>1. CASE q = p
    BY <1>7, <2>1
  <2>2. CASE q # p
    <3>1. (op[q].at # "none" /\ daemon # "down") \/ IsBusy(q)
      BY <1>7, <2>2 DEF Going, AnswerComing
    <3>2. ASSUME NEW i \in 1..Len(busy), busy[i] = q PROVE IsBusy(q)'
      <4>1. i # 1 /\ i - 1 \in 1..Len(busy') /\ (i - 1) + 1 = i
        BY <1>1, <2>2, <3>2
      <4>2. busy'[i - 1] = q
        BY <1>1, <3>2, <4>1
      <4>3. QED
        BY <4>1, <4>2 DEF IsBusy
    <3>3. QED
      BY <2>2, <3>1, <3>2 DEF IsBusy
  <2>3. QED
    BY <2>1, <2>2
<1>8. AnswerComing'
  BY <1>7 DEF AnswerComing
<1>9. QED
  BY <1>6, <1>8 DEF Going

\* Paste p goes on with its next job: Vim runs it already, or begins to.
LEMMA GoesToLoop ==
  ASSUME IInv, Going, NEW p \in Pastes,
         (busy # <<>> /\ Current = p /\ busy' = busy) \/ (busy = <<>> /\ busy' = <<p>>),
         paste'[p].at = "loop",
         \A q \in Pastes \ {p} : paste'[q] = paste[q] /\ op'[q] = op[q], daemon' = daemon
  PROVE  Going'
<1>1. p # 0
  BY NatPastes
<1>2. CASE busy # <<>> /\ Current = p /\ busy' = busy
  <2>1. busy[1] = p /\ 1 \in 1..Len(busy) /\ \A i \in 1..Len(busy) : busy[i] \in Pastes \cup {0}
    BY <1>2, BusyFacts
  <2>2. BusyOK'
    <3>1. \A i \in 1..Len(busy) : busy[i] = p <=> i = 1
      BY <2>1 DEF Going, BusyOK
    <3>2. \A q \in Pastes : paste'[q].at = "loop" => q = p
      BY <2>1 DEF Going, BusyOK
    <3>3. QED
      BY <1>1, <1>2, <2>1, <3>1, <3>2 DEF Going, BusyOK
  <2>3. AnswerComing'
    BY <1>2 DEF Going, AnswerComing, IsBusy
  <2>4. QED
    BY <2>2, <2>3 DEF Going
<1>3. CASE busy = <<>> /\ busy' = <<p>>
  <2>1. Len(busy') = 1 /\ busy'[1] = p /\ busy' # <<>> /\ 1..1 = {1}
    BY <1>3
  <2>2. \A q \in Pastes : paste'[q].at = "loop" => q = p
    BY <1>3 DEF Going, BusyOK
  <2>3. BusyOK'
    BY <1>1, <2>1, <2>2 DEF BusyOK
  <2>4. \A q \in Pastes : ~IsBusy(q)
    BY <1>3 DEF IsBusy
  <2>5. AnswerComing'
    BY <2>4 DEF Going, AnswerComing
  <2>6. QED
    BY <2>3, <2>5 DEF Going
<1>4. QED
  BY <1>2, <1>3

\* FailPendingFsOps(): Vim is about to tell everybody who waits.
LEMMA FailsAll ==
  ASSUME IInv, Going, busy = <<>>, NEW f \in SetToSeqs(Sent), busy' = f \/ busy' = Append(f, 0),
         paste' = paste
  PROVE  Going'
<1>1. IsFiniteSet(Pastes)
  BY FS_Interval, PasteAssumption DEF Pastes
<1>2. IsFiniteSet(Sent) /\ \A p \in Sent : p \in Pastes /\ p # 0 /\ paste[p].at = "sent"
  BY <1>1, FS_Subset, NatPastes DEF Sent
<1>a. IsFiniteSet(Sent)
  BY <1>2
<1>3. /\ f \in Seq(Sent) /\ \A i, k \in 1..Len(f) : i # k => f[i] # f[k]
      /\ \A p \in Sent : \E i \in 1..Len(f) : f[i] = p
  BY ONLY <1>a, f \in SetToSeqs(Sent), InSomeOrder
<1>4. /\ Len(f) \in Nat /\ \A i \in 1..Len(f) : f[i] \in Sent
      /\ Len(Append(f, 0)) = Len(f) + 1 /\ Append(f, 0)[Len(f) + 1] = 0
      /\ \A i \in 1..Len(f) : Append(f, 0)[i] = f[i]
  <2>1. f \in Seq(Sent \cup {0})
    BY <1>3
  <2>2. QED
    BY <1>3, <2>1, AppendProperties
<1>5. \A p \in Pastes : paste[p].at # "loop"
  BY DEF Going, BusyOK
<1>6. BusyOK' /\ \A p \in Sent : IsBusy(p)'
  <2>1. CASE busy' = f
    BY <1>2, <1>3, <1>4, <1>5, <2>1 DEF BusyOK, IsBusy
  <2>2. CASE busy' = Append(f, 0)
    <3>1. \A i \in 1..Len(busy') : i \in 1..Len(f) \/ i = Len(f) + 1
      BY <1>4, <2>2
    <3>2. ASSUME NEW i \in 1..Len(busy'), NEW k \in 1..Len(busy'), i # k PROVE busy'[i] # busy'[k]
      <4>1. \A j \in 1..Len(f) : busy'[j] = f[j] /\ f[j] # 0
        BY <1>2, <1>4, <2>2
      <4>2. busy'[Len(f) + 1] = 0
        BY <1>4, <2>2
      <4>3. QED
        BY ONLY <1>3, <3>1, <3>2, <4>1, <4>2, i \in 1..Len(busy'), k \in 1..Len(busy')
    <3>3. \A i \in 1..Len(busy') : \/ busy'[i] = 0 /\ i = Len(busy')
                                   \/ busy'[i] # 0 /\ paste'[busy'[i]].at = "sent"
      BY <1>2, <1>4, <2>2, <3>1
    <3>4. BusyOK'
      BY <1>5, <3>2, <3>3 DEF BusyOK
    <3>5. ASSUME NEW p \in Sent PROVE IsBusy(p)'
      <4>1. PICK i \in 1..Len(f) : f[i] = p
        BY <1>3
      <4>2. i \in 1..Len(busy') /\ busy'[i] = p
        BY <1>4, <2>2, <4>1
      <4>3. QED
        BY <4>2 DEF IsBusy
    <3>6. QED
      BY <3>4, <3>5
  <2>3. QED
    BY <2>1, <2>2
<1>7. AnswerComing'
  BY <1>6 DEF AnswerComing, Sent
<1>8. QED
  BY <1>6, <1>7 DEF Going

LEMMA LoopAt == \A c \in Contexts : \A out : NextJob(c, out).at = "loop"
<1> SUFFICES ASSUME NEW c \in Contexts, NEW out PROVE NextJob(c, out).at = "loop"
  OBVIOUS
<1>1. DOMAIN c = {"at", "mode", "todo", "remaining"}
  BY DEF Contexts
<1>2. DOMAIN PasteApply(c, out) = DOMAIN c
  BY DEF PasteApply
<1>3. QED
  BY <1>1, <1>2 DEF NextJob

LEMMA PasteGoing == IInv /\ Going /\ PasteStep => Going'
<1> SUFFICES ASSUME IInv, Going, PasteStep PROVE Going'
  OBVIOUS
<1> DEFINE p == Current
<1>1. busy # <<>> /\ p \in Pastes /\ p # 0 /\ paste \in [Pastes -> Contexts] /\ paste[p] \in Contexts /\ op \in [Pastes -> Ops]
  BY CurrentFacts, BusyFacts DEF PasteStep
<1>2. p = Current
  OBVIOUS
<1> HIDE DEF p
<1>3. CASE PasteFinish(p)
  <2>1. /\ busy' = Tail(busy) /\ paste' = [paste EXCEPT ![p] = [NoPaste EXCEPT !.at = "over"]]
        /\ op' = op /\ daemon' = daemon
    BY <1>3 DEF PasteFinish, DaemonUnchanged
  <2>2. paste'[p].at = "over" /\ \A q \in Pastes \ {p} : paste'[q] = paste[q] /\ op'[q] = op[q]
    BY <1>1, <2>1 DEF NoPaste
  <2>3. QED
    BY <1>1, <1>2, <2>1, <2>2, GoesOn
<1>4. CASE Preview(p)
  <2>1. busy' = Tail(busy) /\ paste' = [paste EXCEPT ![p].at = "preview"] /\ op' = op /\ daemon' = daemon
    BY <1>4 DEF Preview, DaemonUnchanged
  <2>2. paste'[p].at = "preview" /\ \A q \in Pastes \ {p} : paste'[q] = paste[q] /\ op'[q] = op[q]
    BY <1>1, <2>1 DEF Contexts
  <2>3. QED
    BY <1>1, <1>2, <2>1, <2>2, GoesOn
<1>5. CASE Send(p)
  <2>1. /\ busy' = Tail(busy) /\ paste' = [paste EXCEPT ![p].at = "sent"]
        /\ op' = [op EXCEPT ![p] = [at |-> "sent"]] /\ daemon = "ready" /\ daemon' = daemon
    BY <1>5 DEF Send
  <2>2. /\ paste'[p].at = "sent" /\ op'[p].at = "sent"
        /\ \A q \in Pastes \ {p} : paste'[q] = paste[q] /\ op'[q] = op[q]
    BY <1>1, <2>1 DEF Contexts
  <2>3. QED
    BY <1>1, <1>2, <2>1, <2>2, GoesOn
<1>6. CASE Sync(p)
  <2>1. PICK o : paste' = [paste EXCEPT ![p] = NextJob(paste[p], o.out)]
    BY <1>6 DEF Sync
  <2>2. busy' = busy /\ op' = op /\ daemon' = daemon
    BY <1>6 DEF Sync, DaemonUnchanged
  <2>3. paste'[p].at = "loop" /\ \A q \in Pastes \ {p} : paste'[q] = paste[q] /\ op'[q] = op[q]
    BY <1>1, <2>1, <2>2, LoopAt
  <2>4. QED
    BY <1>1, <1>2, <2>2, <2>3, GoesToLoop
<1>7. QED
  BY <1>2, <1>3, <1>4, <1>5, <1>6 DEF PasteStep

\* The answers, and the failures.
LEMMA AnswersGoing == IInv /\ Going /\ (FailOp \/ \E p \in Pastes : ReadAnswer(p) \/ PasteTimer(p)) => Going'
<1> SUFFICES ASSUME IInv, Going PROVE (FailOp \/ \E p \in Pastes : ReadAnswer(p) \/ PasteTimer(p)) => Going'
  OBVIOUS
<1>1. paste \in [Pastes -> Contexts] /\ op \in [Pastes -> Ops]
  BY BusyFacts
<1>2. ASSUME FailOp PROVE Going'
  <2> DEFINE p == Current
  <2>1. busy # <<>> /\ p \in Pastes /\ p = Current
    BY <1>2, CurrentFacts DEF FailOp
  <2>2. /\ paste' = [paste EXCEPT ![p] = NextJob(paste[p], [installed |-> FALSE, removed |-> FALSE])]
        /\ op' = [op EXCEPT ![p] = NoOp] /\ busy' = busy /\ daemon' = daemon
    BY <1>2 DEF FailOp
  <2> HIDE DEF p
  <2>3. paste'[p].at = "loop" /\ \A q \in Pastes \ {p} : paste'[q] = paste[q] /\ op'[q] = op[q]
    BY <1>1, <2>1, <2>2, LoopAt
  <2>4. QED
    BY <2>1, <2>2, <2>3, GoesToLoop
<1>3. ASSUME NEW p \in Pastes, ReadAnswer(p) PROVE Going'
  <2>1. /\ paste' = [paste EXCEPT ![p] = NextJob(paste[p], op[p].out)] /\ op' = [op EXCEPT ![p] = NoOp]
        /\ busy = <<>> /\ busy' = <<p>> /\ daemon' = daemon
    BY <1>3 DEF ReadAnswer, Idle
  <2>2. paste'[p].at = "loop" /\ \A q \in Pastes \ {p} : paste'[q] = paste[q] /\ op'[q] = op[q]
    BY <1>1, <2>1, LoopAt
  <2>3. QED
    BY <2>1, <2>2, GoesToLoop
<1>4. ASSUME NEW p \in Pastes, PasteTimer(p) PROVE Going'
  <2>1. /\ paste' = [paste EXCEPT ![p].at = "loop"] /\ op' = op
        /\ busy = <<>> /\ busy' = <<p>> /\ daemon' = daemon
    BY <1>4 DEF PasteTimer, Idle, DaemonUnchanged
  <2>2. paste'[p].at = "loop" /\ \A q \in Pastes \ {p} : paste'[q] = paste[q] /\ op'[q] = op[q]
    BY <1>1, <2>1 DEF Contexts
  <2>3. QED
    BY <2>1, <2>2, GoesToLoop
<1>5. QED
  BY <1>2, <1>3, <1>4

\* The user, who starts a paste or looks at a preview.
LEMMA UserGoing == IInv /\ Going /\ (OnPaste \/ (\E mode \in {"copy", "cut"} : OnCopyOrCut(mode))
                                     \/ \E p \in Pastes : CompleteIntegratedMove(p)) => Going'
<1> SUFFICES ASSUME IInv, Going
             PROVE  OnPaste \/ (\E mode \in {"copy", "cut"} : OnCopyOrCut(mode))
                    \/ (\E p \in Pastes : CompleteIntegratedMove(p)) => Going'
  OBVIOUS
<1>1. paste \in [Pastes -> Contexts] /\ op \in [Pastes -> Ops] /\ busy \in Seq(Pastes \cup {0})
  BY BusyFacts
<1>2. ASSUME OnPaste PROVE Going'
  <2>0. PICK p \in Pastes, dest \in Dirs, picked \in SUBSET clipboard.items :
       /\ \A q \in Pastes : q < p <=> q \in Started
       /\ \E srcs \in SetToSeqs(picked), name \in [picked -> Names] :
            LET dst == [i \in DOMAIN srcs |-> <<dest, name[srcs[i]]>>]
                reserved == [i \in DOMAIN srcs |-> {dst[k] : k \in 1..(i - 1)}]
                jobs == [i \in DOMAIN srcs |-> PlanPasteJob(srcs[i], dst[i], reserved[i])] IN
            /\ \A i \in DOMAIN srcs : MayPlan(jobs[i], reserved[i])
            /\ paste' = [paste EXCEPT ![p] =
                 [at |-> "loop", mode |-> clipboard.mode, todo |-> jobs,
                  remaining |-> IF clipboard.mode = "cut" THEN clipboard.items \ picked ELSE {}]]
       /\ busy' = <<p>>
    BY <1>2 DEF OnPaste
  <2>1. \E todo, remaining : paste' = [paste EXCEPT ![p] = [at |-> "loop", mode |-> clipboard.mode, todo |-> todo, remaining |-> remaining]]
    BY <2>0, Zenon
  <2>2. busy = <<>> /\ op' = op /\ daemon' = daemon
    BY <1>2 DEF OnPaste, Idle, DaemonUnchanged
  <2>3. paste'[p].at = "loop" /\ \A q \in Pastes \ {p} : paste'[q] = paste[q] /\ op'[q] = op[q]
    BY <1>1, <2>1, <2>2
  <2>4. QED
    BY <2>0, <2>2, <2>3, GoesToLoop
<1>3. ASSUME NEW mode \in {"copy", "cut"}, OnCopyOrCut(mode) PROVE Going'
  BY <1>1, <1>3, GoingStays DEF OnCopyOrCut, DaemonUnchanged
<1>4. ASSUME NEW p \in Pastes, CompleteIntegratedMove(p) PROVE Going'
  <2>1. /\ paste[p].at = "preview" /\ op' = op /\ busy' = busy /\ daemon' = daemon
        /\ paste' = [paste EXCEPT ![p] = [NextJob(paste[p], [installed |-> TRUE, removed |-> TRUE]) EXCEPT !.at = "timer"]]
    BY <1>4 DEF CompleteIntegratedMove, DaemonUnchanged
  <2>2. paste'[p].at = "timer"
    <3>1. DOMAIN paste[p] = {"at", "mode", "todo", "remaining"}
      BY <1>1 DEF Contexts
    <3>2. DOMAIN NextJob(paste[p], [installed |-> TRUE, removed |-> TRUE]) = DOMAIN paste[p]
      BY DEF NextJob, PasteApply
    <3>3. QED
      BY <1>1, <2>1, <3>1, <3>2
  <2>3. \A q \in Pastes \ {p} : paste'[q] = paste[q]
    BY <1>1, <2>1
  <2>4. \A q \in Pastes : /\ paste'[q].at = "loop" <=> paste[q].at = "loop"
                          /\ paste'[q].at = "sent" <=> paste[q].at = "sent"
                          /\ op[q].at # "none" => op'[q].at # "none"
    BY <2>1, <2>2, <2>3
  <2>5. QED
    BY <1>1, <2>1, <2>4, GoingStays
<1>5. QED
  BY <1>2, <1>3, <1>4

LEMMA DaemonGoing == IInv /\ Going /\ (Daemon \/ Dies \/ Pong \/ Exit \/ BStop \/ Stop) => Going'
<1> SUFFICES ASSUME IInv, Going PROVE Daemon \/ Dies \/ Pong \/ Exit \/ BStop \/ Stop => Going'
  OBVIOUS
<1>1. paste \in [Pastes -> Contexts] /\ op \in [Pastes -> Ops] /\ busy \in Seq(Pastes \cup {0})
  BY BusyFacts
<1>2. ASSUME NEW p \in Pastes, Answer(p) PROVE Going'
  <2>1. PICK o : op' = [op EXCEPT ![p] = [at |-> "answered", out |-> o.out]]
    BY <1>2 DEF Answer
  <2>2. paste' = paste /\ busy' = busy /\ daemon' = daemon
    BY <1>2 DEF Answer, FrontendUnchanged
  <2>3. \A q \in Pastes : op[q].at # "none" => op'[q].at # "none"
    BY <1>1, <2>1
  <2>4. QED
    BY <1>1, <2>2, <2>3, GoingStays
<1>3. ASSUME Stray \/ Dies PROVE Going'
  BY <1>1, <1>3, GoingStays DEF Stray, Dies, FrontendUnchanged
<1>4. ASSUME Pong PROVE Going'
  BY <1>1, <1>4, GoingStays DEF Pong
<1>5. ASSUME Exit PROVE Going'
  BY <1>5, FailsAll DEF Exit, Idle
<1>6. ASSUME BStop PROVE Going'
  BY <1>6, FailsAll DEF BStop, Idle
<1>7. ASSUME Stop PROVE Going'
  <2>1. busy = <<0>> /\ busy' = <<>> /\ paste' = paste /\ op' = op /\ (daemon # "down" => daemon' # "down")
    BY <1>7 DEF Stop
  <2>2. Len(busy) = 1 /\ busy[1] = 0 /\ Len(busy') = 0 /\ 1..1 = {1} /\ 1..0 = {}
    BY <2>1
  <2>3. \A q \in Pastes : ~IsBusy(q) /\ paste[q].at # "loop"
    BY <2>2, NatPastes DEF IsBusy, Going, BusyOK
  <2>4. BusyOK'
    BY <2>1, <2>2, <2>3 DEF BusyOK
  <2>5. AnswerComing'
    BY <2>1, <2>3 DEF Going, AnswerComing
  <2>6. QED
    BY <2>4, <2>5 DEF Going
<1>8. QED
  BY <1>2, <1>3, <1>4, <1>5, <1>6, <1>7 DEF Daemon

LEMMA NextGoing == IInv /\ Going /\ [Next]_vars => Going'
<1> SUFFICES ASSUME IInv, Going, [Next]_vars PROVE Going'
  OBVIOUS
<1>1. CASE PasteStep
  BY <1>1, PasteGoing
<1>2. CASE FailOp \/ \E p \in Pastes : ReadAnswer(p) \/ PasteTimer(p)
  BY <1>2, AnswersGoing
<1>3. CASE OnPaste \/ (\E mode \in {"copy", "cut"} : OnCopyOrCut(mode)) \/ \E p \in Pastes : CompleteIntegratedMove(p)
  BY <1>3, UserGoing
<1>4. CASE Daemon \/ Dies \/ Pong \/ Exit \/ BStop \/ Stop
  BY <1>4, DaemonGoing
<1>5. CASE UNCHANGED vars
  BY <1>5, BusyFacts, GoingStays DEF vars
<1>6. QED
  BY <1>1, <1>2, <1>3, <1>4, <1>5 DEF Next, User, Vim

\* vim_fsop_failures.vim:16, FailPendingFsOps(): a stop or a death of the daemon, in the
\* middle of any number of pastes, leaves none of them waiting for an answer that
\* nobody will give.
THEOREM NobodyStuckHolds == Spec => []NobodyStuck
<1>1. Init => Going
  <2> SUFFICES ASSUME Init PROVE Going
    OBVIOUS
  <2>0. Len(<<>>) = 0 /\ 1..0 = {}
    OBVIOUS
  <2>1. Len(busy) = 0 /\ 1..0 = {} /\ \A p \in Pastes : paste[p].at = "none"
    BY <2>0 DEF Init, NoPaste
  <2>2. QED
    BY <2>1 DEF Going, BusyOK, AnswerComing
<1>2. Init => IInv
  BY InitStep
<1>3. IInv /\ Going /\ [Next]_vars => (IInv /\ Going)'
  BY NextStep, NextGoing
<1>4. IInv /\ Going => NobodyStuck
  <2> SUFFICES ASSUME IInv, Going PROVE NobodyStuck
    OBVIOUS
  <2>1. \A p \in Pastes : paste[p].at = "loop" => busy # <<>> /\ Current = p
    BY BusyFacts DEF Going, BusyOK
  <2>2. ASSUME busy # <<>> PROVE busy = <<0>> \/ (Current \in Pastes /\ paste[Current].at \in {"loop", "sent"})
    <3>1. Current = busy[1] /\ 1 \in 1..Len(busy) /\ busy \in Seq(Pastes \cup {0})
      BY <2>2, BusyFacts
    <3>2. busy[1] = 0 => Len(busy) = 1
      BY <3>1 DEF Going, BusyOK
    <3>3. busy[1] = 0 => busy = <<0>>
      BY <3>1, <3>2
    <3>4. busy[1] # 0 => busy[1] \in Pastes /\ paste[busy[1]].at \in {"loop", "sent"}
      BY <3>1 DEF Going, BusyOK
    <3>5. QED
      BY <3>1, <3>3, <3>4
  <2>3. QED
    BY <2>1, <2>2 DEF NobodyStuck, Going
<1>5. QED
  BY <1>1, <1>2, <1>3, <1>4, PTL DEF Spec
=============================================================================
