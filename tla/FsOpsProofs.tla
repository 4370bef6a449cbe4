---------------------------- MODULE FsOpsProofs ----------------------------
(***************************************************************************)
(* What one operation on files leaves on disk, for every set of parts and  *)
(* every number of edits: the destination is never truncated, a move never *)
(* loses its source, and the reply tells the truth.                        *)
(***************************************************************************)
EXTENDS FsOps, TLAPS

\* The target is where it was; or it is aside, whole, and its place is free or
\* has been taken by others; or the source is in its place.
Clean == ~Exists("backup") /\ at["dst"] = old
Aside ==
  \/ Clean
  \/ Exists("backup") /\ at["backup"] = old /\ at["dst"] \in {Absent, Other}
Installed == at["dst"].of = "source" /\ Whole(at["dst"])

\* What each phase knows of the target.
Target ==
  /\ pc \in {"start", "copy", "displace", "remove"} => Clean
  /\ pc \in {"commit", "restore"} => Aside
  /\ pc = "discard" => after \in {"done", "restore"} /\ Aside /\ (after = "done" => Clean)
  /\ pc = "restore" => after \in {"done", "copy"}
  /\ pc = "retire" => Installed
  /\ Installed \/ Aside

\* Nothing is installed but a whole copy.
Staged ==
  /\ pc = "start" => at["staged"] = Absent
  /\ pc \in {"displace", "commit"} /\ (kind = "copy" \/ Exists("staged")) =>
       at["staged"].of = "source" /\ Whole(at["staged"])

\* Where the source's newest version is.
Source ==
  /\ kind = "remove" => pc \in {"start", "remove", "done", "killed"}
  /\ pc = "remove" => kind = "remove"
  /\ pc = "start" => Exists("src")
  /\ kind # "remove" =>
       \/ at["src"].of = "source" /\ at["src"].files = cur
       \/ /\ ~Exists("src") /\ Installed /\ at["dst"].files = cur
          /\ pc \in {"retire", "done", "killed"}
  /\ pc \notin {"retire", "done", "killed"} => after # "moved"
  /\ pc = "retire" => (after = "moved" <=> ~Exists("src"))

Replied ==
  /\ pc # "done" => reply = Failed
  /\ pc = "done" /\ kind # "remove" =>
       /\ reply.installed => Installed
       /\ ~reply.installed => Aside
       /\ reply.backup <=> Exists("backup")
       /\ reply.sourceRemoved <=> ~Exists("src")
  /\ pc = "done" /\ kind = "remove" =>
       /\ ~reply.backup /\ ~Exists("backup")
       /\ reply.installed <=> ~Exists("src")
       /\ reply.sourceRemoved <=> ~Exists("src")

IInv == TypeOK /\ Target /\ Staged /\ Source /\ Replied

----------------------------------------------------------------------------
(* Trees.                                                                  *)

\* Absent is no tree; what others create is one.
LEMMA TreeFacts ==
  /\ Absent.of = "nothing" /\ Absent \notin Trees
  /\ Other \in Trees /\ Other.of = "other" /\ Other # Absent
  /\ Fresh("target") \in Trees /\ Fresh("target").of = "target" /\ Fresh("target") # Absent
  /\ \A t \in Trees : t.of \in {"source", "target", "other"} /\ t.files \in Files
  BY DEF Absent, Trees, Other, Fresh, Files, Missing

\* A tree with another part, or another origin, is a tree.
LEMMA TreeUpdate ==
  ASSUME NEW t \in Trees \cup {Absent}, NEW p \in Parts, NEW v \in Nat \cup {Missing}
  PROVE  /\ [of |-> "source", files |-> [t.files EXCEPT ![p] = v]] \in Trees
         /\ [t EXCEPT !.of = "source"] \in Trees
         /\ [t EXCEPT !.of = "source"].of = "source"
         /\ [t EXCEPT !.of = "source"].files = t.files
         /\ t # Absent => /\ [t EXCEPT !.files[p] = v] \in Trees
                          /\ [t EXCEPT !.files[p] = v].of = t.of
                          /\ [t EXCEPT !.files[p] = v].files = [t.files EXCEPT ![p] = v]
<1>1. t.files \in Files
  BY DEF Trees, Absent, Files
<1>2. [t.files EXCEPT ![p] = v] \in Files
  BY <1>1 DEF Files
<1>3. t = [of |-> t.of, files |-> t.files]
  BY DEF Trees, Absent
<1>4. [t EXCEPT !.of = "source"] = [of |-> "source", files |-> t.files]
  BY <1>3
<1>5. [t EXCEPT !.files[p] = v] = [of |-> t.of, files |-> [t.files EXCEPT ![p] = v]]
  BY <1>3
<1>6. t # Absent => t.of \in {"source", "target", "other"}
  BY DEF Trees
<1> QED
  BY <1>1, <1>2, <1>4, <1>5, <1>6 DEF Trees

AtType == at \in [Places -> Trees \cup {Absent}]

LEMMA RenameFacts ==
  ASSUME AtType, NEW x \in Places, NEW y \in Places, x # y, Rename(x, y)
  PROVE  /\ AtType'
         /\ at'[x] = Absent /\ at'[y] = at[x]
         /\ \A z \in Places \ {x, y} : at'[z] = at[z]
  BY DEF AtType, Rename

LEMMA RemovePartFacts ==
  ASSUME AtType, NEW x \in Places, Exists(x), RemovePart(x)
  PROVE  /\ AtType'
         /\ at'[x] = Absent \/ at'[x].of = at[x].of
         /\ \A z \in Places \ {x} : at'[z] = at[z]
<1>1. CASE at' = [at EXCEPT ![x] = Absent]
  BY <1>1 DEF AtType
<1>2. ASSUME NEW p \in Parts, at' = [at EXCEPT ![x].files[p] = Missing]
      PROVE  /\ AtType' /\ at'[x].of = at[x].of
             /\ \A z \in Places \ {x} : at'[z] = at[z]
  <2> DEFINE t == [at[x] EXCEPT !.files[p] = Missing]
  <2>1. at' = [at EXCEPT ![x] = t]
    BY <1>2
  <2>2. t \in Trees /\ t.of = at[x].of
    <3>1. at[x] \in Trees \cup {Absent} /\ at[x] # Absent /\ Missing \in Nat \cup {Missing}
      BY DEF AtType, Exists
    <3> QED
      BY <3>1, TreeUpdate, Zenon
  <2> HIDE DEF t
  <2> QED
    BY <2>1, <2>2 DEF AtType
<1> QED
  BY <1>1, <1>2 DEF RemovePart

----------------------------------------------------------------------------
(* Every step keeps the invariant.                                         *)

LEMMA InitInv == Init => IInv
<1> SUFFICES ASSUME Init PROVE IInv
  OBVIOUS
<1>1. Fresh("source") \in Trees /\ Fresh("source").of = "source"
      /\ Fresh("source").files = [p \in Parts |-> 0]
  BY DEF Fresh, Trees, Files
<1>2. /\ at \in [Places -> Trees \cup {Absent}]
      /\ at["src"] = Fresh("source") /\ at["dst"] = old
      /\ at["staged"] = Absent /\ at["backup"] = Absent
  BY <1>1, TreeFacts DEF Init, Places
<1>3. TypeOK
  BY <1>1, <1>2, TreeFacts DEF TypeOK, Init, Pcs, Failed
<1>4. Target /\ Staged /\ Source /\ Replied
  BY <1>1, <1>2, TreeFacts
  DEF Init, Target, Clean, Aside, Exists, Staged, Source, Replied, Failed
<1> QED
  BY <1>3, <1>4 DEF IInv

LEMMA CancelInv == IInv /\ Cancel => IInv'
<1> SUFFICES ASSUME IInv, Cancel PROVE IInv'
  OBVIOUS
<1>1. at' = at /\ at \in [Places -> Trees \cup {Absent}]
  BY DEF IInv, TypeOK, Cancel
<1>2. TypeOK'
  BY <1>1, TreeFacts
  DEF IInv, TypeOK, Pcs, history, Target, Clean, Exists, Source, Staged, Replied,
      Cancel
<1>3. Target'
  BY <1>1, TreeFacts
  DEF IInv, TypeOK, Target, Clean, Aside, Installed, Whole, Exists, Staged, Source,
      history, Cancel
<1>4. Staged'
  BY <1>1, TreeFacts DEF IInv, TypeOK, Staged, Source, Whole, Exists, history, Cancel
<1>5. Source'
  BY <1>1, TreeFacts
  DEF IInv, TypeOK, Source, Target, Installed, Whole, Exists, history, Cancel
<1>6. Replied'
  BY <1>1, TreeFacts
  DEF IInv, TypeOK, Replied, Target, Clean, Aside, Installed, Whole, Exists, Source,
      history, Cancel
<1> QED
  BY <1>2, <1>3, <1>4, <1>5, <1>6 DEF IInv

LEMMA KilledInv == IInv /\ Killed => IInv'
<1> SUFFICES ASSUME IInv, Killed PROVE IInv'
  OBVIOUS
<1>1. at' = at /\ at \in [Places -> Trees \cup {Absent}]
  BY DEF IInv, TypeOK, Killed
<1>2. TypeOK'
  BY <1>1, TreeFacts
  DEF IInv, TypeOK, Pcs, history, Target, Clean, Exists, Source, Staged, Replied,
      Killed
<1>3. Target'
  BY <1>1, TreeFacts
  DEF IInv, TypeOK, Target, Clean, Aside, Installed, Whole, Exists, Staged, Source,
      history, Killed
<1>4. Staged'
  BY <1>1, TreeFacts DEF IInv, TypeOK, Staged, Source, Whole, Exists, history, Killed
<1>5. Source'
  BY <1>1, TreeFacts
  DEF IInv, TypeOK, Source, Target, Installed, Whole, Exists, history, Killed
<1>6. Replied'
  BY <1>1, TreeFacts
  DEF IInv, TypeOK, Replied, Target, Clean, Aside, Installed, Whole, Exists, Source,
      history, Killed
<1> QED
  BY <1>2, <1>3, <1>4, <1>5, <1>6 DEF IInv

LEMMA StartInv == IInv /\ Start => IInv'
<1> SUFFICES ASSUME IInv, Start PROVE IInv'
  OBVIOUS
<1>1. at' = at /\ at \in [Places -> Trees \cup {Absent}]
  BY DEF IInv, TypeOK, Start
<1>2. TypeOK'
  BY <1>1, TreeFacts
  DEF IInv, TypeOK, Pcs, history, Target, Clean, Exists, Source, Staged, Replied,
      Start, GoTo, Fail, Failed
<1>3. Target'
  BY <1>1, TreeFacts
  DEF IInv, TypeOK, Target, Clean, Aside, Installed, Whole, Exists, Staged, Source,
      history, Start, GoTo, Fail, Failed
<1>4. Staged'
  BY <1>1, TreeFacts
  DEF IInv, TypeOK, Staged, Source, Whole, Exists, history, Start, GoTo, Fail,
      Failed
<1>5. Source'
  BY <1>1, TreeFacts
  DEF IInv, TypeOK, Source, Target, Installed, Whole, Exists, history, Start, GoTo,
      Fail, Failed
<1>6. Replied'
  BY <1>1, TreeFacts
  DEF IInv, TypeOK, Replied, Target, Clean, Aside, Installed, Whole, Exists, Source,
      history, Start, GoTo, Fail, Failed
<1> QED
  BY <1>2, <1>3, <1>4, <1>5, <1>6 DEF IInv

LEMMA CopyFailsInv == IInv /\ CopyFails => IInv'
<1> SUFFICES ASSUME IInv, CopyFails PROVE IInv'
  OBVIOUS
<1>1. at' = at /\ at \in [Places -> Trees \cup {Absent}]
  BY DEF IInv, TypeOK, CopyFails
<1>2. TypeOK'
  BY <1>1, TreeFacts
  DEF IInv, TypeOK, Pcs, history, Target, Clean, Exists, Source, Staged, Replied,
      CopyFails, Discard
<1>3. Target'
  BY <1>1, TreeFacts
  DEF IInv, TypeOK, Target, Clean, Aside, Installed, Whole, Exists, Staged, Source,
      history, CopyFails, Discard
<1>4. Staged'
  BY <1>1, TreeFacts
  DEF IInv, TypeOK, Staged, Source, Whole, Exists, history, CopyFails, Discard
<1>5. Source'
  BY <1>1, TreeFacts
  DEF IInv, TypeOK, Source, Target, Installed, Whole, Exists, history, CopyFails,
      Discard
<1>6. Replied'
  BY <1>1, TreeFacts
  DEF IInv, TypeOK, Replied, Target, Clean, Aside, Installed, Whole, Exists, Source,
      history, CopyFails, Discard
<1> QED
  BY <1>2, <1>3, <1>4, <1>5, <1>6 DEF IInv

LEMMA EditSourceInv == ASSUME NEW p \in Parts PROVE IInv /\ EditSource(p) => IInv'
<1> SUFFICES ASSUME IInv, EditSource(p) PROVE IInv'
  OBVIOUS
<1>1. /\ at' \in [Places -> Trees \cup {Absent}]
      /\ at'["src"].of = at["src"].of /\ Exists("src") /\ Exists("src")'
      /\ at'["src"].files = [at["src"].files EXCEPT ![p] = cur[p] + 1]
      /\ at'["dst"] = at["dst"] /\ at'["backup"] = at["backup"] /\ at'["staged"] = at["staged"]
  <2> DEFINE t == [at["src"] EXCEPT !.files[p] = cur[p] + 1]
  <2>1. at["src"] \in Trees \cup {Absent} /\ at["src"] # Absent /\ cur[p] + 1 \in Nat \cup {Missing}
    BY DEF IInv, TypeOK, EditSource, Exists, Places
  <2>2. t \in Trees /\ t.of = at["src"].of /\ t.files = [at["src"].files EXCEPT ![p] = cur[p] + 1]
    BY <2>1, TreeUpdate, ZenonT(30)
  <2>3. at' = [at EXCEPT !["src"] = t]
    BY DEF EditSource
  <2> HIDE DEF t
  <2> QED
    BY <2>1, <2>2, <2>3, TreeFacts DEF IInv, TypeOK, EditSource, Exists, Places
<1>2. TypeOK'
  BY <1>1, TreeFacts
  DEF IInv, TypeOK, Pcs, history, Target, Clean, Exists, Source, Staged, Replied,
      EditSource
<1>3. Target'
  BY <1>1, TreeFacts
  DEF IInv, TypeOK, Target, Clean, Aside, Installed, Whole, Exists, Staged, Source,
      history, EditSource
<1>4. Staged'
  BY <1>1, TreeFacts
  DEF IInv, TypeOK, Staged, Source, Whole, Exists, history, EditSource
<1>5. Source'
  BY <1>1, TreeFacts
  DEF IInv, TypeOK, Source, Target, Installed, Whole, Exists, history, EditSource
<1>6. Replied'
  BY <1>1, TreeFacts
  DEF IInv, TypeOK, Replied, Target, Clean, Aside, Installed, Whole, Exists, Source,
      history, EditSource
<1> QED
  BY <1>2, <1>3, <1>4, <1>5, <1>6 DEF IInv

LEMMA IntrudeInv == IInv /\ Intrude => IInv'
<1> SUFFICES ASSUME IInv, Intrude PROVE IInv'
  OBVIOUS
<1>1. /\ at' \in [Places -> Trees \cup {Absent}]
      /\ at'["src"] = at["src"] /\ at'["staged"] = at["staged"] /\ at'["backup"] = at["backup"]
      /\ at["dst"] = Absent /\ at'["dst"] = Other
  BY TreeFacts DEF IInv, TypeOK, Intrude, Exists, Places
<1>2. TypeOK'
  BY <1>1, TreeFacts
  DEF IInv, TypeOK, Pcs, history, Target, Clean, Exists, Source, Staged, Replied,
      Intrude
<1>3. Target'
  BY <1>1, TreeFacts
  DEF IInv, TypeOK, Target, Clean, Aside, Installed, Whole, Exists, Staged, Source,
      history, Intrude
<1>4. Staged'
  BY <1>1, TreeFacts DEF IInv, TypeOK, Staged, Source, Whole, Exists, history, Intrude
<1>5. Source'
  BY <1>1, TreeFacts
  DEF IInv, TypeOK, Source, Target, Installed, Whole, Exists, history, Intrude
<1>6. Replied'
  BY <1>1, TreeFacts
  DEF IInv, TypeOK, Replied, Target, Clean, Aside, Installed, Whole, Exists, Source,
      history, Intrude
<1> QED
  BY <1>2, <1>3, <1>4, <1>5, <1>6 DEF IInv

LEMMA CopyPartInv == IInv /\ CopyPart => IInv'
<1> SUFFICES ASSUME IInv, CopyPart PROVE IInv'
  OBVIOUS
<1>1. /\ at' \in [Places -> Trees \cup {Absent}]
      /\ at'["src"] = at["src"] /\ at'["dst"] = at["dst"] /\ at'["backup"] = at["backup"]
      /\ at'["staged"].of = "source"
  <2>1. PICK p \in Parts : at' = [at EXCEPT !["staged"] =
            [of |-> "source", files |-> [@.files EXCEPT ![p] = at["src"].files[p]]]]
    BY DEF CopyPart
  <2> DEFINE v == at["src"].files[p]
             t == [of |-> "source", files |-> [at["staged"].files EXCEPT ![p] = v]]
  <2>2. at["staged"] \in Trees \cup {Absent} /\ v \in Nat \cup {Missing}
    BY TreeFacts DEF IInv, TypeOK, Places, Files, Absent
  <2>3. t \in Trees /\ t.of = "source"
    BY <2>2, TreeUpdate, Zenon
  <2>4. at' = [at EXCEPT !["staged"] = t]
    BY <2>1
  <2> HIDE DEF t
  <2> QED
    BY <2>3, <2>4 DEF IInv, TypeOK, Places
<1>2. TypeOK'
  BY <1>1, TreeFacts
  DEF IInv, TypeOK, Pcs, history, Target, Clean, Exists, Source, Staged, Replied,
      CopyPart
<1>3. Target'
  BY <1>1, TreeFacts
  DEF IInv, TypeOK, Target, Clean, Aside, Installed, Whole, Exists, Staged, Source,
      history, CopyPart
<1>4. Staged'
  BY <1>1, TreeFacts DEF IInv, TypeOK, Staged, Source, Whole, Exists, history, CopyPart
<1>5. Source'
  BY <1>1, TreeFacts
  DEF IInv, TypeOK, Source, Target, Installed, Whole, Exists, history, CopyPart
<1>6. Replied'
  BY <1>1, TreeFacts
  DEF IInv, TypeOK, Replied, Target, Clean, Aside, Installed, Whole, Exists, Source,
      history, CopyPart
<1> QED
  BY <1>2, <1>3, <1>4, <1>5, <1>6 DEF IInv

LEMMA CopyDoneInv == IInv /\ CopyDone => IInv'
<1> SUFFICES ASSUME IInv, CopyDone PROVE IInv'
  OBVIOUS
<1>1. /\ at' \in [Places -> Trees \cup {Absent}]
      /\ at'["src"] = at["src"] /\ at'["dst"] = at["dst"] /\ at'["backup"] = at["backup"]
      /\ at'["staged"].of = "source" /\ at'["staged"].files = at["staged"].files
      /\ \A p \in Parts : at["staged"].files[p] # Missing
  <2> DEFINE t == [at["staged"] EXCEPT !.of = "source"]
  <2>1. at["staged"] \in Trees \cup {Absent}
    BY DEF IInv, TypeOK, Places
  <2>2. t \in Trees /\ t.of = "source" /\ t.files = at["staged"].files
    BY <2>1 DEF Trees, Absent, Files
  <2>3. at' = [at EXCEPT !["staged"] = t]
    BY DEF CopyDone
  <2> HIDE DEF t
  <2> QED
    BY <2>1, <2>2, <2>3 DEF IInv, TypeOK, Places, CopyDone
<1>2. TypeOK'
  BY <1>1, TreeFacts
  DEF IInv, TypeOK, Pcs, history, Target, Clean, Exists, Source, Staged, Replied,
      CopyDone, GoTo
<1>3. Target'
  BY <1>1, TreeFacts
  DEF IInv, TypeOK, Target, Clean, Aside, Installed, Whole, Exists, Staged, Source,
      history, CopyDone, GoTo
<1>4. Staged'
  BY <1>1, TreeFacts
  DEF IInv, TypeOK, Staged, Source, Whole, Exists, history, CopyDone, GoTo
<1>5. Source'
  BY <1>1, TreeFacts
  DEF IInv, TypeOK, Source, Target, Installed, Whole, Exists, history, CopyDone,
      GoTo
<1>6. Replied'
  BY <1>1, TreeFacts
  DEF IInv, TypeOK, Replied, Target, Clean, Aside, Installed, Whole, Exists, Source,
      history, CopyDone, GoTo
<1> QED
  BY <1>2, <1>3, <1>4, <1>5, <1>6 DEF IInv

LEMMA DisplaceInv == IInv /\ Displace => IInv'
<1> SUFFICES ASSUME IInv, Displace PROVE IInv'
  OBVIOUS
<1>1. CASE UNCHANGED at
  <2>1. at' = at /\ at \in [Places -> Trees \cup {Absent}]
    BY <1>1 DEF IInv, TypeOK, AtType, Exists, Places, Displace
  <2>2. TypeOK'
    BY <1>1, <2>1, TreeFacts
    DEF IInv, TypeOK, Pcs, history, Target, Clean, Exists, Source, Staged,
        Replied, Displace, Abandon, Moving, Discard, Fail, Failed, GoTo
  <2>3. Target'
    BY <1>1, <2>1, TreeFacts
    DEF IInv, TypeOK, Target, Clean, Aside, Installed, Whole, Exists, Staged,
        Source, history, Displace, Abandon, Moving, Discard, Fail, Failed, GoTo
  <2>4. Staged'
    BY <1>1, <2>1, TreeFacts
    DEF IInv, TypeOK, Staged, Source, Whole, Exists, history, Displace, Abandon,
        Moving, Discard, Fail, Failed, GoTo
  <2>5. Source'
    BY <1>1, <2>1, TreeFacts
    DEF IInv, TypeOK, Source, Target, Installed, Whole, Exists, history, Displace,
        Abandon, Moving, Discard, Fail, Failed, GoTo
  <2>6. Replied'
    BY <1>1, <2>1, TreeFacts
    DEF IInv, TypeOK, Replied, Target, Clean, Aside, Installed, Whole, Exists,
        Source, history, Displace, Abandon, Moving, Discard, Fail, Failed, GoTo
  <2> QED
    BY <2>2, <2>3, <2>4, <2>5, <2>6 DEF IInv
<1>2. CASE ~cancelled /\ Exists("dst") /\ Rename("dst", "backup") /\ GoTo("commit")
  <2>1. /\ at' \in [Places -> Trees \cup {Absent}]
        /\ at'["src"] = at["src"]
        /\ at'["dst"] = Absent
        /\ at'["staged"] = at["staged"]
        /\ at'["backup"] = at["dst"]
    BY <1>2, RenameFacts DEF IInv, TypeOK, AtType, Exists, Places, Displace
  <2>2. TypeOK'
    BY <1>2, <2>1, TreeFacts
    DEF IInv, TypeOK, Pcs, history, Target, Clean, Exists, Source, Staged,
        Replied, Displace, Abandon, Moving, Discard, Fail, Failed, GoTo
  <2>3. Target'
    BY <1>2, <2>1, TreeFacts
    DEF IInv, TypeOK, Target, Clean, Aside, Installed, Whole, Exists, Staged,
        Source, history, Displace, Abandon, Moving, Discard, Fail, Failed, GoTo
  <2>4. Staged'
    BY <1>2, <2>1, TreeFacts
    DEF IInv, TypeOK, Staged, Source, Whole, Exists, history, Displace, Abandon,
        Moving, Discard, Fail, Failed, GoTo
  <2>5. Source'
    BY <1>2, <2>1, TreeFacts
    DEF IInv, TypeOK, Source, Target, Installed, Whole, Exists, history, Displace,
        Abandon, Moving, Discard, Fail, Failed, GoTo
  <2>6. Replied'
    BY <1>2, <2>1, TreeFacts
    DEF IInv, TypeOK, Replied, Target, Clean, Aside, Installed, Whole, Exists,
        Source, history, Displace, Abandon, Moving, Discard, Fail, Failed, GoTo
  <2> QED
    BY <2>2, <2>3, <2>4, <2>5, <2>6 DEF IInv
<1> QED
  BY <1>1, <1>2 DEF Displace

LEMMA CommitInv == IInv /\ Commit => IInv'
<1> SUFFICES ASSUME IInv, Commit PROVE IInv'
  OBVIOUS
<1>1. CASE (IF Moving THEN Restore("done") ELSE Discard("restore")) /\ UNCHANGED at
  <2>1. at' = at /\ at \in [Places -> Trees \cup {Absent}]
    BY <1>1 DEF IInv, TypeOK, AtType, Exists, Places, Commit
  <2>2. TypeOK'
    BY <1>1, <2>1, TreeFacts
    DEF IInv, TypeOK, Pcs, history, Target, Clean, Exists, Source, Staged,
        Replied, Commit, Moving, Restore, Discard, GoTo
  <2>3. Target'
    BY <1>1, <2>1, TreeFacts
    DEF IInv, TypeOK, Target, Clean, Aside, Installed, Whole, Exists, Staged,
        Source, history, Commit, Moving, Restore, Discard, GoTo
  <2>4. Staged'
    BY <1>1, <2>1, TreeFacts
    DEF IInv, TypeOK, Staged, Source, Whole, Exists, history, Commit, Moving,
        Restore, Discard, GoTo
  <2>5. Source'
    BY <1>1, <2>1, TreeFacts
    DEF IInv, TypeOK, Source, Target, Installed, Whole, Exists, history, Commit,
        Moving, Restore, Discard, GoTo
  <2>6. Replied'
    BY <1>1, <2>1, TreeFacts
    DEF IInv, TypeOK, Replied, Target, Clean, Aside, Installed, Whole, Exists,
        Source, history, Commit, Moving, Restore, Discard, GoTo
  <2> QED
    BY <2>2, <2>3, <2>4, <2>5, <2>6 DEF IInv
<1>2. CASE (IF Moving THEN Restore("copy") ELSE Discard("restore")) /\ UNCHANGED at
  <2>1. at' = at /\ at \in [Places -> Trees \cup {Absent}]
    BY <1>2 DEF IInv, TypeOK, AtType, Exists, Places, Commit
  <2>2. TypeOK'
    BY <1>2, <2>1, TreeFacts
    DEF IInv, TypeOK, Pcs, history, Target, Clean, Exists, Source, Staged,
        Replied, Commit, Moving, Restore, Discard, GoTo
  <2>3. Target'
    BY <1>2, <2>1, TreeFacts
    DEF IInv, TypeOK, Target, Clean, Aside, Installed, Whole, Exists, Staged,
        Source, history, Commit, Moving, Restore, Discard, GoTo
  <2>4. Staged'
    BY <1>2, <2>1, TreeFacts
    DEF IInv, TypeOK, Staged, Source, Whole, Exists, history, Commit, Moving,
        Restore, Discard, GoTo
  <2>5. Source'
    BY <1>2, <2>1, TreeFacts
    DEF IInv, TypeOK, Source, Target, Installed, Whole, Exists, history, Commit,
        Moving, Restore, Discard, GoTo
  <2>6. Replied'
    BY <1>2, <2>1, TreeFacts
    DEF IInv, TypeOK, Replied, Target, Clean, Aside, Installed, Whole, Exists,
        Source, history, Commit, Moving, Restore, Discard, GoTo
  <2> QED
    BY <2>2, <2>3, <2>4, <2>5, <2>6 DEF IInv
<1>3. CASE ~cancelled /\ Moving /\ Rename("src", "dst") /\ pc' = "retire" /\ after' = "moved"
          /\ UNCHANGED reply
  <2>1. /\ at' \in [Places -> Trees \cup {Absent}]
        /\ at'["src"] = Absent
        /\ at'["dst"] = at["src"]
        /\ at'["staged"] = at["staged"]
        /\ at'["backup"] = at["backup"]
        /\ kind # "remove" /\ at["src"].of = "source" /\ at["src"].files = cur
        /\ \A p \in Parts : cur[p] # Missing
    BY <1>3, TreeFacts, RenameFacts
    DEF IInv, TypeOK, AtType, Exists, Places, Commit, Moving, Source, Missing
  <2>2. TypeOK'
    BY <1>3, <2>1, TreeFacts
    DEF IInv, TypeOK, Pcs, history, Target, Clean, Exists, Source, Staged,
        Replied, Commit, Moving, Restore, Discard, GoTo
  <2>3. Target'
    BY <1>3, <2>1, TreeFacts
    DEF IInv, TypeOK, Target, Clean, Aside, Installed, Whole, Exists, Staged,
        Source, history, Commit, Moving, Restore, Discard, GoTo
  <2>4. Staged'
    BY <1>3, <2>1, TreeFacts
    DEF IInv, TypeOK, Staged, Source, Whole, Exists, history, Commit, Moving,
        Restore, Discard, GoTo
  <2>5. Source'
    BY <1>3, <2>1, TreeFacts
    DEF IInv, TypeOK, Source, Target, Installed, Whole, Exists, history, Commit,
        Moving, Restore, Discard, GoTo
  <2>6. Replied'
    BY <1>3, <2>1, TreeFacts
    DEF IInv, TypeOK, Replied, Target, Clean, Aside, Installed, Whole, Exists,
        Source, history, Commit, Moving, Restore, Discard, GoTo
  <2> QED
    BY <2>2, <2>3, <2>4, <2>5, <2>6 DEF IInv
<1>4. CASE ~cancelled /\ ~Moving /\ Rename("staged", "dst") /\ pc' = "retire" /\ UNCHANGED <<after, reply>>
  <2>1. /\ at' \in [Places -> Trees \cup {Absent}]
        /\ at'["src"] = at["src"]
        /\ at'["dst"] = at["staged"]
        /\ at'["staged"] = Absent
        /\ at'["backup"] = at["backup"]
    BY <1>4, RenameFacts DEF IInv, TypeOK, AtType, Exists, Places, Commit
  <2>2. TypeOK'
    BY <1>4, <2>1, TreeFacts
    DEF IInv, TypeOK, Pcs, history, Target, Clean, Exists, Source, Staged,
        Replied, Commit, Moving, Restore, Discard, GoTo
  <2>3. Target'
    BY <1>4, <2>1, TreeFacts
    DEF IInv, TypeOK, Target, Clean, Aside, Installed, Whole, Exists, Staged,
        Source, history, Commit, Moving, Restore, Discard, GoTo
  <2>4. Staged'
    BY <1>4, <2>1, TreeFacts
    DEF IInv, TypeOK, Staged, Source, Whole, Exists, history, Commit, Moving,
        Restore, Discard, GoTo
  <2>5. Source'
    BY <1>4, <2>1, TreeFacts
    DEF IInv, TypeOK, Source, Target, Installed, Whole, Exists, history, Commit,
        Moving, Restore, Discard, GoTo
  <2>6. Replied'
    BY <1>4, <2>1, TreeFacts
    DEF IInv, TypeOK, Replied, Target, Clean, Aside, Installed, Whole, Exists,
        Source, history, Commit, Moving, Restore, Discard, GoTo
  <2> QED
    BY <2>2, <2>3, <2>4, <2>5, <2>6 DEF IInv
<1> QED
  BY <1>1, <1>2, <1>3, <1>4 DEF Commit

LEMMA DiscardStepInv == IInv /\ DiscardStep => IInv'
<1> SUFFICES ASSUME IInv, DiscardStep PROVE IInv'
  OBVIOUS
<1>1. CASE UNCHANGED <<at, reply>> /\ pc' = after /\ after' = "done"
  <2>1. at' = at /\ at \in [Places -> Trees \cup {Absent}]
    BY <1>1 DEF IInv, TypeOK, AtType, Exists, Places, DiscardStep
  <2>2. TypeOK'
    BY <1>1, <2>1, TreeFacts
    DEF IInv, TypeOK, Pcs, history, Target, Clean, Exists, Source, Staged,
        Replied, DiscardStep, Failed
  <2>3. Target'
    BY <1>1, <2>1, TreeFacts
    DEF IInv, TypeOK, Target, Clean, Aside, Installed, Whole, Exists, Staged,
        Source, history, DiscardStep, Failed
  <2>4. Staged'
    BY <1>1, <2>1, TreeFacts
    DEF IInv, TypeOK, Staged, Source, Whole, Exists, history, DiscardStep, Failed
  <2>5. Source'
    BY <1>1, <2>1, TreeFacts
    DEF IInv, TypeOK, Source, Target, Installed, Whole, Exists, history,
        DiscardStep, Failed
  <2>6. Replied'
    BY <1>1, <2>1, TreeFacts
    DEF IInv, TypeOK, Replied, Target, Clean, Aside, Installed, Whole, Exists,
        Source, history, DiscardStep, Failed
  <2> QED
    BY <2>2, <2>3, <2>4, <2>5, <2>6 DEF IInv
<1>2. CASE Exists("staged") /\ RemovePart("staged") /\ UNCHANGED <<pc, after, reply>>
  <2>1. /\ at' \in [Places -> Trees \cup {Absent}]
        /\ at'["src"] = at["src"]
        /\ at'["dst"] = at["dst"]
        /\ at'["staged"] = Absent \/ at'["staged"].of = at["staged"].of
        /\ at'["backup"] = at["backup"]
    BY <1>2, RemovePartFacts DEF IInv, TypeOK, AtType, Exists, Places, DiscardStep
  <2>2. TypeOK'
    BY <1>2, <2>1, TreeFacts
    DEF IInv, TypeOK, Pcs, history, Target, Clean, Exists, Source, Staged,
        Replied, DiscardStep, Failed
  <2>3. Target'
    BY <1>2, <2>1, TreeFacts
    DEF IInv, TypeOK, Target, Clean, Aside, Installed, Whole, Exists, Staged,
        Source, history, DiscardStep, Failed
  <2>4. Staged'
    BY <1>2, <2>1, TreeFacts
    DEF IInv, TypeOK, Staged, Source, Whole, Exists, history, DiscardStep, Failed
  <2>5. Source'
    BY <1>2, <2>1, TreeFacts
    DEF IInv, TypeOK, Source, Target, Installed, Whole, Exists, history,
        DiscardStep, Failed
  <2>6. Replied'
    BY <1>2, <2>1, TreeFacts
    DEF IInv, TypeOK, Replied, Target, Clean, Aside, Installed, Whole, Exists,
        Source, history, DiscardStep, Failed
  <2> QED
    BY <2>2, <2>3, <2>4, <2>5, <2>6 DEF IInv
<1> QED
  BY <1>1, <1>2 DEF DiscardStep

LEMMA RestoreStepInv == IInv /\ RestoreStep => IInv'
<1> SUFFICES ASSUME IInv, RestoreStep PROVE IInv'
  OBVIOUS
<1>1. CASE ~Exists("backup") /\ pc' = after /\ UNCHANGED <<at, after, reply>>
  <2>1. at' = at /\ at \in [Places -> Trees \cup {Absent}]
    BY <1>1 DEF IInv, TypeOK, AtType, Exists, Places, RestoreStep
  <2>2. TypeOK'
    BY <1>1, <2>1, TreeFacts
    DEF IInv, TypeOK, Pcs, history, Target, Clean, Exists, Source, Staged,
        Replied, RestoreStep, Failed
  <2>3. Target'
    BY <1>1, <2>1, TreeFacts
    DEF IInv, TypeOK, Target, Clean, Aside, Installed, Whole, Exists, Staged,
        Source, history, RestoreStep, Failed
  <2>4. Staged'
    BY <1>1, <2>1, TreeFacts
    DEF IInv, TypeOK, Staged, Source, Whole, Exists, history, RestoreStep, Failed
  <2>5. Source'
    BY <1>1, <2>1, TreeFacts
    DEF IInv, TypeOK, Source, Target, Installed, Whole, Exists, history,
        RestoreStep, Failed
  <2>6. Replied'
    BY <1>1, <2>1, TreeFacts
    DEF IInv, TypeOK, Replied, Target, Clean, Aside, Installed, Whole, Exists,
        Source, history, RestoreStep, Failed
  <2> QED
    BY <2>2, <2>3, <2>4, <2>5, <2>6 DEF IInv
<1>2. CASE /\ Exists("backup") /\ pc' = "done" /\ reply' = [Failed EXCEPT !.backup = TRUE]
             /\ UNCHANGED <<at, after>>
  <2>1. /\ reply' = [installed |-> FALSE, sourceRemoved |-> FALSE, backup |-> TRUE]
        /\ ~reply'.installed /\ reply'.backup /\ ~reply'.sourceRemoved
        /\ reply' \in [installed : BOOLEAN, sourceRemoved : BOOLEAN, backup : BOOLEAN]
        /\ at' = at /\ at \in [Places -> Trees \cup {Absent}]
    BY <1>2 DEF IInv, TypeOK, AtType, Exists, Places, RestoreStep, Failed
  <2>2. TypeOK'
    BY <1>2, <2>1, TreeFacts
    DEF IInv, TypeOK, Pcs, history, Target, Clean, Exists, Source, Staged,
        Replied, RestoreStep, Failed
  <2>3. Target'
    BY <1>2, <2>1, TreeFacts
    DEF IInv, TypeOK, Target, Clean, Aside, Installed, Whole, Exists, Staged,
        Source, history, RestoreStep, Failed
  <2>4. Staged'
    BY <1>2, <2>1, TreeFacts
    DEF IInv, TypeOK, Staged, Source, Whole, Exists, history, RestoreStep, Failed
  <2>5. Source'
    BY <1>2, <2>1, TreeFacts
    DEF IInv, TypeOK, Source, Target, Installed, Whole, Exists, history,
        RestoreStep, Failed
  <2>6. Replied'
    BY <1>2, <2>1, TreeFacts
    DEF IInv, TypeOK, Replied, Target, Clean, Aside, Installed, Whole, Exists,
        Source, history, RestoreStep, Failed
  <2> QED
    BY <2>2, <2>3, <2>4, <2>5, <2>6 DEF IInv
<1>3. CASE Exists("backup") /\ Rename("backup", "dst") /\ pc' = after /\ UNCHANGED <<after, reply>>
  <2>1. /\ at' \in [Places -> Trees \cup {Absent}]
        /\ at'["src"] = at["src"]
        /\ at'["dst"] = at["backup"]
        /\ at'["staged"] = at["staged"]
        /\ at'["backup"] = Absent
    BY <1>3, RenameFacts DEF IInv, TypeOK, AtType, Exists, Places, RestoreStep
  <2>2. TypeOK'
    BY <1>3, <2>1, TreeFacts
    DEF IInv, TypeOK, Pcs, history, Target, Clean, Exists, Source, Staged,
        Replied, RestoreStep, Failed
  <2>3. Target'
    BY <1>3, <2>1, TreeFacts
    DEF IInv, TypeOK, Target, Clean, Aside, Installed, Whole, Exists, Staged,
        Source, history, RestoreStep, Failed
  <2>4. Staged'
    BY <1>3, <2>1, TreeFacts
    DEF IInv, TypeOK, Staged, Source, Whole, Exists, history, RestoreStep, Failed
  <2>5. Source'
    BY <1>3, <2>1, TreeFacts
    DEF IInv, TypeOK, Source, Target, Installed, Whole, Exists, history,
        RestoreStep, Failed
  <2>6. Replied'
    BY <1>3, <2>1, TreeFacts
    DEF IInv, TypeOK, Replied, Target, Clean, Aside, Installed, Whole, Exists,
        Source, history, RestoreStep, Failed
  <2> QED
    BY <2>2, <2>3, <2>4, <2>5, <2>6 DEF IInv
<1> QED
  BY <1>1, <1>2, <1>3 DEF RestoreStep

LEMMA RetireInv == IInv /\ Retire => IInv'
<1> SUFFICES ASSUME IInv, Retire PROVE IInv'
  OBVIOUS
<1>1. CASE /\ pc' = "done" /\ UNCHANGED at
             /\ reply' = [installed |-> TRUE, sourceRemoved |-> after = "moved", backup |-> Exists("backup")]
  <2>1. /\ reply'.installed /\ (reply'.sourceRemoved <=> after = "moved")
        /\ (reply'.backup <=> at["backup"] # Absent)
        /\ reply' \in [installed : BOOLEAN, sourceRemoved : BOOLEAN, backup : BOOLEAN]
        /\ at' = at /\ at \in [Places -> Trees \cup {Absent}]
    BY <1>1 DEF IInv, TypeOK, AtType, Exists, Places, Retire
  <2>2. TypeOK'
    BY <1>1, <2>1, TreeFacts
    DEF IInv, TypeOK, Pcs, history, Target, Clean, Exists, Source, Staged,
        Replied, Retire
  <2>3. Target'
    BY <1>1, <2>1, TreeFacts
    DEF IInv, TypeOK, Target, Clean, Aside, Installed, Whole, Exists, Staged,
        Source, history, Retire
  <2>4. Staged'
    BY <1>1, <2>1, TreeFacts
    DEF IInv, TypeOK, Staged, Source, Whole, Exists, history, Retire
  <2>5. Source'
    BY <1>1, <2>1, TreeFacts
    DEF IInv, TypeOK, Source, Target, Installed, Whole, Exists, history, Retire
  <2>6. Replied'
    BY <1>1, <2>1, TreeFacts
    DEF IInv, TypeOK, Replied, Target, Clean, Aside, Installed, Whole, Exists,
        Source, history, Retire
  <2> QED
    BY <2>2, <2>3, <2>4, <2>5, <2>6 DEF IInv
<1>2. CASE Exists("backup") /\ RemovePart("backup") /\ UNCHANGED <<pc, reply>>
  <2>1. /\ at' \in [Places -> Trees \cup {Absent}]
        /\ at'["src"] = at["src"]
        /\ at'["dst"] = at["dst"]
        /\ at'["staged"] = at["staged"]
        /\ at'["backup"] = Absent \/ at'["backup"].of = at["backup"].of
    BY <1>2, RemovePartFacts DEF IInv, TypeOK, AtType, Exists, Places, Retire
  <2>2. TypeOK'
    BY <1>2, <2>1, TreeFacts
    DEF IInv, TypeOK, Pcs, history, Target, Clean, Exists, Source, Staged,
        Replied, Retire
  <2>3. Target'
    BY <1>2, <2>1, TreeFacts
    DEF IInv, TypeOK, Target, Clean, Aside, Installed, Whole, Exists, Staged,
        Source, history, Retire
  <2>4. Staged'
    BY <1>2, <2>1, TreeFacts
    DEF IInv, TypeOK, Staged, Source, Whole, Exists, history, Retire
  <2>5. Source'
    BY <1>2, <2>1, TreeFacts
    DEF IInv, TypeOK, Source, Target, Installed, Whole, Exists, history, Retire
  <2>6. Replied'
    BY <1>2, <2>1, TreeFacts
    DEF IInv, TypeOK, Replied, Target, Clean, Aside, Installed, Whole, Exists,
        Source, history, Retire
  <2> QED
    BY <2>2, <2>3, <2>4, <2>5, <2>6 DEF IInv
<1> QED
  BY <1>1, <1>2 DEF Retire

LEMMA RemoveInv == IInv /\ Remove => IInv'
<1> SUFFICES ASSUME IInv, Remove PROVE IInv'
  OBVIOUS
<1>1. CASE Fail /\ UNCHANGED at
  <2>1. at' = at /\ at \in [Places -> Trees \cup {Absent}]
    BY <1>1 DEF IInv, TypeOK, AtType, Exists, Places, Remove
  <2>2. TypeOK'
    BY <1>1, <2>1, TreeFacts
    DEF IInv, TypeOK, Pcs, history, Target, Clean, Exists, Source, Staged,
        Replied, Remove, Fail, Failed
  <2>3. Target'
    BY <1>1, <2>1, TreeFacts
    DEF IInv, TypeOK, Target, Clean, Aside, Installed, Whole, Exists, Staged,
        Source, history, Remove, Fail, Failed
  <2>4. Staged'
    BY <1>1, <2>1, TreeFacts
    DEF IInv, TypeOK, Staged, Source, Whole, Exists, history, Remove, Fail, Failed
  <2>5. Source'
    BY <1>1, <2>1, TreeFacts
    DEF IInv, TypeOK, Source, Target, Installed, Whole, Exists, history, Remove,
        Fail, Failed
  <2>6. Replied'
    BY <1>1, <2>1, TreeFacts
    DEF IInv, TypeOK, Replied, Target, Clean, Aside, Installed, Whole, Exists,
        Source, history, Remove, Fail, Failed
  <2> QED
    BY <2>2, <2>3, <2>4, <2>5, <2>6 DEF IInv
<1>2. CASE /\ pc' = "done" /\ UNCHANGED <<at, after>>
             /\ reply' = [installed |-> TRUE, sourceRemoved |-> TRUE, backup |-> FALSE]
  <2>1. /\ reply' \in [installed : BOOLEAN, sourceRemoved : BOOLEAN, backup : BOOLEAN]
        /\ at' = at /\ at \in [Places -> Trees \cup {Absent}]
    BY <1>2 DEF IInv, TypeOK, AtType, Exists, Places, Remove
  <2>2. TypeOK'
    BY <1>2, <2>1, TreeFacts
    DEF IInv, TypeOK, Pcs, history, Target, Clean, Exists, Source, Staged,
        Replied, Remove, Fail, Failed
  <2>3. Target'
    BY <1>2, <2>1, TreeFacts
    DEF IInv, TypeOK, Target, Clean, Aside, Installed, Whole, Exists, Staged,
        Source, history, Remove, Fail, Failed
  <2>4. Staged'
    BY <1>2, <2>1, TreeFacts
    DEF IInv, TypeOK, Staged, Source, Whole, Exists, history, Remove, Fail, Failed
  <2>5. Source'
    BY <1>2, <2>1, TreeFacts
    DEF IInv, TypeOK, Source, Target, Installed, Whole, Exists, history, Remove,
        Fail, Failed
  <2>6. Replied'
    BY <1>2, <2>1, TreeFacts
    DEF IInv, TypeOK, Replied, Target, Clean, Aside, Installed, Whole, Exists,
        Source, history, Remove, Fail, Failed
  <2> QED
    BY <2>2, <2>3, <2>4, <2>5, <2>6 DEF IInv
<1>3. CASE Exists("src") /\ RemovePart("src") /\ UNCHANGED <<pc, after, reply>>
  <2>1. /\ at' \in [Places -> Trees \cup {Absent}]
        /\ at'["src"] = Absent \/ at'["src"].of = at["src"].of
        /\ at'["dst"] = at["dst"]
        /\ at'["staged"] = at["staged"]
        /\ at'["backup"] = at["backup"]
    BY <1>3, RemovePartFacts DEF IInv, TypeOK, AtType, Exists, Places, Remove
  <2>2. TypeOK'
    BY <1>3, <2>1, TreeFacts
    DEF IInv, TypeOK, Pcs, history, Target, Clean, Exists, Source, Staged,
        Replied, Remove, Fail, Failed
  <2>3. Target'
    BY <1>3, <2>1, TreeFacts
    DEF IInv, TypeOK, Target, Clean, Aside, Installed, Whole, Exists, Staged,
        Source, history, Remove, Fail, Failed
  <2>4. Staged'
    BY <1>3, <2>1, TreeFacts
    DEF IInv, TypeOK, Staged, Source, Whole, Exists, history, Remove, Fail, Failed
  <2>5. Source'
    BY <1>3, <2>1, TreeFacts
    DEF IInv, TypeOK, Source, Target, Installed, Whole, Exists, history, Remove,
        Fail, Failed
  <2>6. Replied'
    BY <1>3, <2>1, TreeFacts
    DEF IInv, TypeOK, Replied, Target, Clean, Aside, Installed, Whole, Exists,
        Source, history, Remove, Fail, Failed
  <2> QED
    BY <2>2, <2>3, <2>4, <2>5, <2>6 DEF IInv
<1> QED
  BY <1>1, <1>2, <1>3 DEF Remove

----------------------------------------------------------------------------
(* The theorems.                                                           *)

LEMMA StepInv == IInv /\ [Next]_vars => IInv'
<1> SUFFICES ASSUME IInv, [Next]_vars PROVE IInv'
  OBVIOUS
<1>1. CASE UNCHANGED vars
  BY <1>1, TreeFacts
  DEF IInv, vars, TypeOK, Pcs, Target, Clean, Aside, Installed, Whole, Exists,
      Staged, Source, Replied, history
<1>2. CASE Next
  BY <1>2, EditSourceInv, CancelInv, KilledInv, IntrudeInv, StartInv, CopyPartInv, CopyDoneInv,
     CopyFailsInv, DisplaceInv, CommitInv, DiscardStepInv, RestoreStepInv, RetireInv, RemoveInv
  DEF Next
<1> QED
  BY <1>1, <1>2

\* In every reachable state what the phase of the operation knows of the four
\* paths is so (fsops.rs:300-427).
THEOREM InvCorrect == Spec => []IInv
  BY InitInv, StepInv, PTL DEF Spec

\* The types, and which trees may be at which path.
THEOREM TypeCorrect == Spec => []TypeOK
<1>1. IInv => TypeOK
  BY DEF IInv
<1> QED
  BY InvCorrect, <1>1, PTL

\* A crash anywhere leaves the old target, its backup, or all of the source.
THEOREM Untruncated == Spec => []NeverTruncated
<1>1. IInv => NeverTruncated
  BY TreeFacts DEF IInv, Target, Aside, Clean, Installed, NeverTruncated
<1> QED
  BY InvCorrect, <1>1, PTL

\* No copy or move loses the source or an edit of it.
THEOREM SourceSafe == Spec => []SourceKept
<1>1. IInv => SourceKept
  BY DEF IInv, Source, SourceKept
<1> QED
  BY InvCorrect, <1>1, PTL

\* What the reply says is what is on disk.
THEOREM Honest == Spec => []ReplyHonest
<1>1. IInv => ReplyHonest
  BY DEF IInv, Replied, Aside, Clean, Installed, ReplyHonest
<1> QED
  BY InvCorrect, <1>1, PTL
----------------------------------------------------------------------------
(* An operation keeps what FileOp promises.  Each call is one of the steps *)
(* of FileOp, or one that changes none of what it speaks of.               *)

\* The target is never lost, and the reply is what FileOp says it is.
Kept ==
  /\ TargetState = IF Installed THEN "new" ELSE "old"
  /\ pc = "done" => reply = Promise!Outcome

LEMMA Promised == IInv => Kept
<1> SUFFICES ASSUME IInv PROVE Kept
  OBVIOUS
<1>1. Aside => ~Installed
  BY TreeFacts DEF IInv, TypeOK, Aside, Clean, Installed
<1>2. Installed \/ Aside
  BY DEF IInv, Target
<1>3. TargetState = IF Installed THEN "new" ELSE "old"
  BY <1>2 DEF TargetState, Installed, Aside, Clean
<1>4. ASSUME pc = "done" PROVE reply = Promise!Outcome
  <2>1. reply = [installed |-> reply.installed, sourceRemoved |-> reply.sourceRemoved,
                 backup |-> reply.backup]
    BY DEF IInv, TypeOK
  <2>2. reply.installed \in BOOLEAN /\ reply.sourceRemoved \in BOOLEAN /\ reply.backup \in BOOLEAN
    BY DEF IInv, TypeOK
  <2>3. /\ reply.installed <=> IF kind = "remove" THEN ~Exists("src") ELSE Installed
        /\ reply.sourceRemoved <=> ~Exists("src")
        /\ reply.backup <=> Exists("backup")
    BY <1>1, <1>4 DEF IInv, Replied
  <2>4. /\ reply.installed <=> IF kind = "remove"
                               THEN (IF Exists("src") THEN "there" ELSE "gone") = "gone"
                               ELSE TargetState = "new"
        /\ reply.sourceRemoved <=> (IF Exists("src") THEN "there" ELSE "gone") = "gone"
    BY <1>3, <2>3
  <2>5. Promise!Outcome =
          [installed |-> IF kind = "remove"
                         THEN (IF Exists("src") THEN "there" ELSE "gone") = "gone"
                         ELSE TargetState = "new",
           sourceRemoved |-> (IF Exists("src") THEN "there" ELSE "gone") = "gone",
           backup |-> Exists("backup")]
    BY DEF Promise!Outcome
  <2>6. Exists("backup") \in BOOLEAN
    BY DEF Exists
  <2> QED
    BY <2>1, <2>2, <2>3, <2>4, <2>5, <2>6
<1> QED
  BY <1>3, <1>4 DEF Kept

LEMMA PromisedNext == IInv' => Kept'
  BY Promised, PTL

\* What of the four paths FileOp speaks of; a step of the operation leaves it
\* alone or is one of FileOp's.
Stays ==
  /\ Installed' <=> Installed
  /\ Exists("backup")' <=> Exists("backup")
  /\ Exists("src")' <=> Exists("src")

SetsAside ==
  /\ kind # "remove" /\ ~Installed /\ ~Installed' /\ ~Exists("backup") /\ Exists("backup")'
  /\ Exists("src")' <=> Exists("src")

PutsBack ==
  /\ ~Installed /\ ~Installed' /\ Exists("backup") /\ ~Exists("backup")'
  /\ Exists("src")' <=> Exists("src")

Installs ==
  /\ kind # "remove" /\ ~Installed /\ Installed'
  /\ Exists("backup")' <=> Exists("backup")
  /\ (Exists("src")' <=> Exists("src")) \/ (kind = "move" /\ ~Exists("src")')

Retires ==
  /\ Installed /\ Installed' /\ Exists("backup") /\ ~Exists("backup")'
  /\ Exists("src")' <=> Exists("src")

Removes ==
  /\ kind = "remove" /\ Exists("src") /\ ~Exists("src")'
  /\ Installed' <=> Installed
  /\ Exists("backup")' <=> Exists("backup")

\* Until it has answered such a step is one of FileOp's.
LEMMA Simulates ==
  ASSUME IInv, IInv', UNCHANGED kind, pc # "done",
         Stays \/ SetsAside \/ PutsBack \/ Installs \/ Retires \/ Removes
  PROVE  Promise!Next
<1> DEFINE t == TargetState
           s == IF Exists("src") THEN "there" ELSE "gone"
           a == IF pc = "done" THEN {reply} ELSE {}
<1>1. t = IF Installed THEN "new" ELSE "old"
  BY Promised DEF Kept
<1>2. /\ t' = IF Installed' THEN "new" ELSE "old"
      /\ pc' = "done" => reply' = (Promise!Outcome)'
  BY PromisedNext DEF Kept
<1>3. a = {} /\ a' \in {{}, {(Promise!Outcome)'}}
  BY <1>2
<1>4. s' = IF Exists("src")' THEN "there" ELSE "gone"
  OBVIOUS
<1>5. Exists("backup") \in BOOLEAN /\ Exists("backup")' \in BOOLEAN
  BY DEF Exists
<1> HIDE DEF a
<1>6. \/ kind # "remove" /\ t = "old" /\ ~Exists("backup") /\ Exists("backup")' = TRUE
         /\ t' = t /\ s' = s
      \/ t = "old" /\ Exists("backup") /\ Exists("backup")' = FALSE /\ t' = t /\ s' = s
      \/ kind # "remove" /\ t = "old" /\ t' = "new" /\ Exists("backup")' = Exists("backup")
         /\ (s' = s \/ (kind = "move" /\ s' = "gone"))
      \/ t = "new" /\ Exists("backup") /\ Exists("backup")' = FALSE /\ t' = t /\ s' = s
      \/ kind = "remove" /\ s = "there" /\ s' = "gone" /\ t' = t
         /\ Exists("backup")' = Exists("backup")
      \/ t' = t /\ Exists("backup")' = Exists("backup") /\ s' = s
  <2> HIDE DEF t
  <2>1. CASE Stays
    BY <2>1, <1>1, <1>2, <1>4, <1>5 DEF Stays
  <2>2. CASE SetsAside
    BY <2>2, <1>1, <1>2, <1>4, <1>5 DEF SetsAside
  <2>3. CASE PutsBack
    BY <2>3, <1>1, <1>2, <1>4, <1>5 DEF PutsBack
  <2>4. CASE Installs
    BY <2>4, <1>1, <1>2, <1>4, <1>5 DEF Installs
  <2>5. CASE Retires
    BY <2>5, <1>1, <1>2, <1>4, <1>5 DEF Retires
  <2>6. CASE Removes
    BY <2>6, <1>1, <1>2, <1>4, <1>5 DEF Removes
  <2> QED
    BY <2>1, <2>2, <2>3, <2>4, <2>5, <2>6
<1> QED
  BY <1>3, <1>6
  DEF Promise!Next, Promise!SetAside, Promise!PutBack, Promise!Install, Promise!Retire,
      Promise!Remove, a

\* Calls that touch none of it: the token, the staged copy, an edit of the
\* source, a target that others create.
LEMMA QuietSteps ==
  ASSUME IInv, \/ Cancel \/ Killed \/ Intrude \/ (\E p \in Parts : EditSource(p))
               \/ Start \/ CopyPart \/ CopyDone \/ CopyFails \/ DiscardStep
  PROVE  Stays
<1>1. ASSUME at'["src"] = at["src"], at'["dst"] = at["dst"], at'["backup"] = at["backup"]
      PROVE  Stays
  BY <1>1 DEF Stays, Installed, Whole, Exists
<1>2. at \in [Places -> Trees \cup {Absent}]
  BY DEF IInv, TypeOK
<1>3. CASE Cancel \/ Killed \/ Start \/ CopyFails
  BY <1>1, <1>3 DEF Cancel, Killed, Start, CopyFails
<1>4. CASE Intrude
  <2>1. /\ at'["src"] = at["src"] /\ at'["backup"] = at["backup"]
        /\ at["dst"] = Absent /\ at'["dst"] = Other
    BY <1>2, <1>4 DEF Intrude, Exists, Places
  <2> QED
    BY <2>1, TreeFacts DEF Stays, Installed, Exists
<1>5. ASSUME NEW p \in Parts, EditSource(p) PROVE Stays
  <2> DEFINE u == [at["src"] EXCEPT !.files[p] = cur[p] + 1]
  <2>1. at["src"] \in Trees \cup {Absent} /\ at["src"] # Absent /\ cur[p] + 1 \in Nat \cup {Missing}
    BY <1>5 DEF IInv, TypeOK, EditSource, Exists, Places
  <2>2. u \in Trees
    BY <2>1, TreeUpdate, ZenonT(30)
  <2>3. at' = [at EXCEPT !["src"] = u]
    BY <1>5 DEF EditSource
  <2> HIDE DEF u
  <2>4. /\ at'["src"] # Absent /\ at["src"] # Absent
        /\ at'["dst"] = at["dst"] /\ at'["backup"] = at["backup"]
    BY <1>2, <2>1, <2>2, <2>3, TreeFacts DEF Places
  <2> QED
    BY <2>4 DEF Stays, Installed, Whole, Exists
<1>6. CASE CopyPart \/ CopyDone
  BY <1>1, <1>2, <1>6 DEF CopyPart, CopyDone, Places
<1>7. CASE DiscardStep
  BY <1>1, <1>2, <1>7, RemovePartFacts DEF DiscardStep, AtType, Places
<1> QED
  BY <1>3, <1>4, <1>5, <1>6, <1>7

LEMMA DisplaceSteps ==
  ASSUME IInv, Displace
  PROVE  Stays \/ SetsAside
<1>1. CASE UNCHANGED at
  BY <1>1 DEF Stays, Installed, Whole, Exists
<1>2. CASE Exists("dst") /\ Rename("dst", "backup")
  <2>1. at'["src"] = at["src"] /\ at'["dst"] = Absent /\ at'["backup"] = at["dst"]
    BY <1>2, RenameFacts DEF IInv, TypeOK, AtType, Places
  <2>2. kind # "remove" /\ ~Exists("backup") /\ at["dst"] = old /\ ~Installed
    BY TreeFacts DEF IInv, TypeOK, Displace, Target, Clean, Source, Installed
  <2>3. ~Installed'
    BY <2>1, TreeFacts DEF Installed
  <2> QED
    BY <1>2, <2>1, <2>2, <2>3 DEF SetsAside, Exists
<1> QED
  BY <1>1, <1>2 DEF Displace

LEMMA CommitSteps ==
  ASSUME IInv, IInv', Commit
  PROVE  Stays \/ Installs
<1>1. CASE UNCHANGED at
  BY <1>1 DEF Stays, Installed, Whole, Exists
<1>2. ASSUME Rename("staged", "dst") \/ (Moving /\ Rename("src", "dst")), pc' = "retire"
      PROVE  Installs
  <2>1. /\ at'["backup"] = at["backup"]
        /\ at'["src"] = at["src"] \/ (kind = "move" /\ at'["src"] = Absent)
    BY <1>2, RenameFacts DEF IInv, TypeOK, AtType, Places, Moving
  <2>2. kind # "remove" /\ ~Installed
    BY TreeFacts DEF IInv, TypeOK, Commit, Target, Aside, Clean, Source, Installed
  <2>3. Installed'
    BY <1>2 DEF IInv, Target
  <2> QED
    BY <2>1, <2>2, <2>3 DEF Installs, Exists
<1> QED
  BY <1>1, <1>2 DEF Commit

LEMMA RestoreSteps ==
  ASSUME IInv, RestoreStep
  PROVE  Stays \/ PutsBack
<1>1. CASE UNCHANGED at
  BY <1>1 DEF Stays, Installed, Whole, Exists
<1>2. CASE Exists("backup") /\ Rename("backup", "dst")
  <2>1. at'["src"] = at["src"] /\ at'["dst"] = at["backup"] /\ at'["backup"] = Absent
    BY <1>2, RenameFacts DEF IInv, TypeOK, AtType, Places
  <2>2. Aside
    BY DEF IInv, Target, RestoreStep
  <2>3. ~Installed /\ ~Installed'
    BY <2>1, <2>2, TreeFacts DEF IInv, TypeOK, Aside, Clean, Installed
  <2> QED
    BY <1>2, <2>1, <2>3 DEF PutsBack, Exists
<1> QED
  BY <1>1, <1>2 DEF RestoreStep

LEMMA RetireSteps ==
  ASSUME IInv, Retire
  PROVE  Stays \/ Retires
<1>1. CASE UNCHANGED at
  BY <1>1 DEF Stays, Installed, Whole, Exists
<1>2. CASE Exists("backup") /\ RemovePart("backup")
  <2>1. at'["src"] = at["src"] /\ at'["dst"] = at["dst"]
    BY <1>2, RemovePartFacts DEF IInv, TypeOK, AtType, Places
  <2>2. Installed
    BY DEF IInv, Target, Retire
  <2> QED
    BY <1>2, <2>1, <2>2 DEF Retires, Stays, Installed, Whole, Exists
<1> QED
  BY <1>1, <1>2 DEF Retire

LEMMA RemoveSteps ==
  ASSUME IInv, Remove
  PROVE  Stays \/ Removes
<1>1. CASE UNCHANGED at
  BY <1>1 DEF Stays, Installed, Whole, Exists
<1>2. CASE Exists("src") /\ RemovePart("src")
  <2>1. at'["dst"] = at["dst"] /\ at'["backup"] = at["backup"]
    BY <1>2, RemovePartFacts DEF IInv, TypeOK, AtType, Places
  <2>2. kind = "remove"
    BY DEF IInv, Source, Remove
  <2> QED
    BY <1>2, <2>1, <2>2 DEF Removes, Stays, Installed, Whole, Exists
<1> QED
  BY <1>1, <1>2 DEF Remove

LEMMA InitPromise == Init => Promise!Init
<1> SUFFICES ASSUME Init PROVE Promise!Init
  OBVIOUS
<1>1. /\ at["src"] = Fresh("source") /\ at["dst"] = old /\ at["backup"] = Absent
      /\ Fresh("source").of = "source"
  BY DEF Init, Places, Fresh
<1>2. Exists("src") /\ ~Exists("backup") /\ old.of # "source"
  BY <1>1, TreeFacts DEF Init, Exists
<1>3. TargetState = "old" /\ Exists("backup") = FALSE
  BY <1>1, <1>2 DEF TargetState, Exists
<1> QED
  BY <1>2, <1>3 DEF Init, Promise!Init

LEMMA StepPromise == IInv /\ IInv' /\ [Next]_vars => [Promise!Next]_(Promise!vars)
<1> SUFFICES ASSUME IInv, IInv', [Next]_vars
             PROVE  Promise!Next \/ UNCHANGED Promise!vars
  OBVIOUS
<1>1. CASE UNCHANGED vars
  BY <1>1 DEF vars, history, Promise!vars, TargetState, Whole, Exists
<1>2. CASE Next /\ pc # "done"
  <2>1. UNCHANGED kind
    BY <1>2
    DEF Next, Cancel, Killed, Intrude, EditSource, Start, CopyPart, CopyDone, CopyFails,
        Displace, Commit, DiscardStep, RestoreStep, Retire, Remove
  <2>2. Stays \/ SetsAside \/ PutsBack \/ Installs \/ Retires \/ Removes
    BY <1>2, QuietSteps, DisplaceSteps, CommitSteps, RestoreSteps, RetireSteps, RemoveSteps
    DEF Next
  <2> QED
    BY <1>2, <2>1, <2>2, Simulates
<1>3. CASE Next /\ pc = "done"
  <2>1. Intrude \/ \E p \in Parts : EditSource(p)
    BY <1>3
    DEF Next, Cancel, Killed, Start, CopyPart, CopyDone, CopyFails, Displace, Commit,
        DiscardStep, RestoreStep, Retire, Remove
  <2>2. Stays /\ UNCHANGED <<kind, pc, reply>>
    BY <2>1, QuietSteps DEF Intrude, EditSource
  <2>3. /\ Exists("backup")' = Exists("backup")
        /\ (IF Exists("src") THEN "there" ELSE "gone")' = IF Exists("src") THEN "there" ELSE "gone"
    BY <2>2 DEF Stays, Exists
  <2>4. TargetState' = TargetState
    BY <2>2, Promised, PromisedNext DEF Stays, Kept
  <2> QED
    BY <2>2, <2>3, <2>4 DEF Promise!vars
<1> QED
  BY <1>1, <1>2, <1>3

\* Whatever fails, is cancelled or is killed, and whatever others do meanwhile: an
\* operation is one replacement of the target, or none, and its answer says
\* which (fsops.rs:25-26, 60-78, 271-273, 300-435).
THEOREM Implements == Spec => FileOpSpec
<1>1. Spec => Promise!Init /\ [][Promise!Next]_(Promise!vars)
  BY InvCorrect, InitPromise, StepPromise, PTL DEF Spec
<1> QED
  BY <1>1 DEF FileOpSpec, Promise!Spec
=============================================================================
