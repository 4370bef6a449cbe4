------------------------------- MODULE FsOps -------------------------------
(***************************************************************************)
(* One copy, move or remove of the daemon (fsops.rs), one file system call *)
(* at a time: any call may fail, the cancel token may be set between any   *)
(* two of them, others may edit the source or create the target meanwhile, *)
(* and the daemon may be killed anywhere.                                  *)
(*                                                                         *)
(* A file or a directory tree is the parts it is copied and removed in,    *)
(* each with the version it has; a tree some part of which is missing is   *)
(* what a half-finished copy or removal leaves.                            *)
(***************************************************************************)
EXTENDS Integers

CONSTANTS
  Parts,     \* the parts of a tree
  MaxEdits   \* bound: edits of one part of the source

ASSUME FsOpsAssumption == MaxEdits \in Nat

\* The four paths of an operation; staged and backup are unique_sibling names.
Places == {"src", "dst", "staged", "backup"}

Missing == -1
Files == [Parts -> Nat \cup {Missing}]
Trees == [of : {"source", "target", "other"}, files : Files]
Absent == [of |-> "nothing", files |-> [p \in Parts |-> Missing]]

Fresh(x) == [of |-> x, files |-> [p \in Parts |-> 0]]

\* What somebody else puts at the target.
Other == Fresh("other")

VARIABLES
  at,        \* at[x]: what is at path x
  kind,      \* FsOpKind
  pc,        \* the next file system call
  after,     \* where a removal or a restore goes on
  reply,     \* FsOpOutcome
  cancelled, \* the token
  cur,       \* history: the newest version of the source's parts
  old        \* history: the target this operation is to replace

vars == <<at, kind, pc, after, reply, cancelled, cur, old>>

Pcs == {"start", "copy", "displace", "commit", "restore", "discard", "retire",
        "remove", "done", "killed"}

\* FsOpOutcome; the message is left out.
Failed == [installed |-> FALSE, sourceRemoved |-> FALSE, backup |-> FALSE]

Init ==
  /\ old \in {Absent, Fresh("target")}
  /\ at = [x \in Places |-> IF x = "src" THEN Fresh("source")
                            ELSE IF x = "dst" THEN old ELSE Absent]
  /\ kind \in {"copy", "move", "remove"}
  /\ pc = "start" /\ after = "done"
  /\ reply = Failed /\ cancelled = FALSE
  /\ cur = [p \in Parts |-> 0]

history == <<cur, old>>

----------------------------------------------------------------------------
(* File system calls, and what others do meanwhile.                        *)

Exists(x) == at[x] # Absent

\* fs::rename.  A file at y goes; a tree at y makes the rename fail.
Rename(x, y) == at' = [at EXCEPT ![y] = at[x], ![x] = Absent]

\* remove_dir_all: one part less of the tree at x; with the last one the tree is gone.
RemovePart(x) ==
  \/ \E p \in Parts : at' = [at EXCEPT ![x].files[p] = Missing]
  \/ at' = [at EXCEPT ![x] = Absent]

GoTo(next) == pc' = next /\ UNCHANGED <<after, reply>>

\* The operation ends without having installed anything: one of the checks of
\* validate() refuses it, or a call fails.
Fail == pc' = "done" /\ reply' = Failed /\ UNCHANGED after

Cancel ==
  /\ pc \notin {"done", "killed"} /\ ~cancelled
  /\ cancelled' = TRUE
  /\ UNCHANGED <<at, kind, pc, after, reply, history>>

EditSource(p) ==
  /\ Exists("src") /\ at["src"].files[p] # Missing /\ cur[p] < MaxEdits
  /\ at' = [at EXCEPT !["src"].files[p] = cur[p] + 1]
  /\ cur' = [cur EXCEPT ![p] = @ + 1]
  /\ UNCHANGED <<kind, pc, after, reply, cancelled, old>>

\* Somebody creates the target while it is free: it is the target to replace,
\* unless this operation has already set one aside.
Intrude ==
  /\ ~Exists("dst")
  /\ at' = [at EXCEPT !["dst"] = Other]
  /\ old' = IF Exists("backup") THEN old ELSE Other
  /\ UNCHANGED <<kind, pc, after, reply, cancelled, cur>>

Killed ==
  /\ pc # "done" /\ pc' = "killed"
  /\ UNCHANGED <<at, kind, after, reply, cancelled, history>>

----------------------------------------------------------------------------
(* The operation.                                                          *)

\* run: a copy is staged first, a move displaces the target at once.  validate
\* and unique_sibling may refuse; a remove never looks at the token.
Start ==
  /\ pc = "start"
  /\ \/ Fail
     \/ kind = "copy" /\ GoTo("copy")
     \/ kind = "move" /\ IF cancelled THEN Fail ELSE GoTo("displace")
     \/ kind = "remove" /\ GoTo("remove")
  /\ UNCHANGED <<at, kind, cancelled, history>>

\* Remove what is staged, then go on at next; the outcome is a failed one.
Discard(next) == pc' = "discard" /\ after' = next /\ UNCHANGED reply

\* copy_tree creates the staged tree and copies part by part.
CopyPart ==
  /\ pc = "copy" /\ ~cancelled
  /\ \E p \in Parts :
       /\ at["staged"].files[p] = Missing
       /\ at' = [at EXCEPT !["staged"] =
            [of |-> "source", files |-> [@.files EXCEPT ![p] = at["src"].files[p]]]]
  /\ UNCHANGED <<kind, pc, after, reply, cancelled, history>>

\* Mutant: a part that cannot be copied is passed over.
CopyShort ==
  /\ pc = "copy" /\ ~cancelled
  /\ at' = [at EXCEPT !["staged"].of = "source"]
  /\ GoTo("displace")
  /\ UNCHANGED <<kind, cancelled, history>>

CopyDone ==
  /\ pc = "copy" /\ ~cancelled
  /\ \A p \in Parts : at["staged"].files[p] # Missing
  /\ at' = [at EXCEPT !["staged"].of = "source"]
  /\ GoTo("displace")
  /\ UNCHANGED <<kind, cancelled, history>>

\* A part cannot be copied, or the token is seen.
CopyFails ==
  /\ pc = "copy" /\ Discard("done")
  /\ UNCHANGED <<at, kind, cancelled, history>>

\* A move that has not fallen back to a copy has nothing staged.
Moving == kind = "move" /\ ~Exists("staged")

Abandon == IF Moving THEN Fail ELSE Discard("done")

\* Mutant: the old target is set aside under the staged copy's name.
DisplaceToStaged ==
  /\ pc = "displace" /\ ~cancelled
  /\ \/ ~Exists("dst") /\ GoTo("commit") /\ UNCHANGED at
     \/ Exists("dst") /\ Rename("dst", "staged") /\ GoTo("commit")
  /\ UNCHANGED <<kind, cancelled, history>>

\* The old target is renamed aside; with none there is nothing to do.  The token
\* is read before.
Displace ==
  /\ pc = "displace"
  /\ \/ cancelled /\ Abandon /\ UNCHANGED at
     \/ ~cancelled /\ ~Exists("dst") /\ GoTo("commit") /\ UNCHANGED at
     \/ ~cancelled /\ Exists("dst") /\ Rename("dst", "backup") /\ GoTo("commit")
     \/ ~cancelled /\ Exists("dst") /\ Abandon /\ UNCHANGED at
  /\ UNCHANGED <<kind, cancelled, history>>

\* Put the old target back, then go on at next.
Restore(next) == pc' = "restore" /\ after' = next /\ UNCHANGED reply

\* The new content is renamed into place: the last look at the token.  A move
\* that cannot rename falls back to a copy.
Commit ==
  /\ pc = "commit"
  /\ \/ /\ ~cancelled /\ pc' = "retire" /\ UNCHANGED reply
        /\ IF Moving THEN Rename("src", "dst") /\ after' = "moved"
           ELSE Rename("staged", "dst") /\ UNCHANGED after
     \/ cancelled /\ (IF Moving THEN Restore("done") ELSE Discard("restore")) /\ UNCHANGED at
     \/ ~cancelled /\ (IF Moving THEN Restore("copy") ELSE Discard("restore")) /\ UNCHANGED at
  /\ UNCHANGED <<kind, cancelled, history>>

\* best_effort_remove(staged), which may give up.
DiscardStep ==
  /\ pc = "discard"
  /\ \/ Exists("staged") /\ RemovePart("staged") /\ UNCHANGED <<pc, after, reply>>
     \/ /\ UNCHANGED <<at, reply>>
        /\ pc' = after /\ after' = "done"
  /\ UNCHANGED <<kind, cancelled, history>>

\* Mutant: a backup that cannot be restored is not reported.
RestoreSilently ==
  /\ pc = "restore"
  /\ \/ Exists("backup") /\ Rename("backup", "dst") /\ pc' = after /\ UNCHANGED <<after, reply>>
     \/ pc' = after /\ UNCHANGED <<at, after, reply>>
  /\ UNCHANGED <<kind, cancelled, history>>

\* A restore that fails leaves the backup, and says so.
RestoreStep ==
  /\ pc = "restore"
  /\ \/ Exists("backup") /\ Rename("backup", "dst") /\ pc' = after /\ UNCHANGED <<after, reply>>
     \/ ~Exists("backup") /\ pc' = after /\ UNCHANGED <<at, after, reply>>
     \/ /\ Exists("backup") /\ pc' = "done" /\ reply' = [Failed EXCEPT !.backup = TRUE]
        /\ UNCHANGED <<at, after>>
  /\ UNCHANGED <<kind, cancelled, history>>

\* Mutant: a move that fell back to a copy deletes its source in the end.
RetireSource ==
  /\ pc = "retire"
  /\ pc' = "done" /\ at' = IF kind = "move" THEN [at EXCEPT !["src"] = Absent] ELSE at
  /\ reply' = [installed |-> TRUE, sourceRemoved |-> kind = "move", backup |-> Exists("backup")]
  /\ UNCHANGED <<kind, after, cancelled, history>>

\* finish: the displaced target is deleted; one that cannot be is reported.
Retire ==
  /\ pc = "retire"
  /\ \/ Exists("backup") /\ RemovePart("backup") /\ UNCHANGED <<pc, reply>>
     \/ /\ pc' = "done"
        /\ reply' = [installed |-> TRUE, sourceRemoved |-> after = "moved",
                     backup |-> Exists("backup")]
        /\ UNCHANGED at
  /\ UNCHANGED <<kind, after, cancelled, history>>

\* remove_tree(src); one that fails leaves the rest.
Remove ==
  /\ pc = "remove"
  /\ \/ Exists("src") /\ RemovePart("src") /\ UNCHANGED <<pc, after, reply>>
     \/ Exists("src") /\ Fail /\ UNCHANGED at
     \/ /\ ~Exists("src") /\ pc' = "done" /\ UNCHANGED <<at, after>>
        /\ reply' = [installed |-> TRUE, sourceRemoved |-> TRUE, backup |-> FALSE]
  /\ UNCHANGED <<kind, cancelled, history>>

Next ==
  \/ Cancel \/ Killed \/ Intrude \/ (\E p \in Parts : EditSource(p))
  \/ Start \/ CopyPart \/ CopyDone \/ CopyFails \/ Displace \/ Commit
  \/ DiscardStep \/ RestoreStep \/ Retire \/ Remove

Spec == Init /\ [][Next]_vars

----------------------------------------------------------------------------
(* Properties.                                                             *)

TypeOK ==
  /\ at \in [Places -> Trees \cup {Absent}]
  /\ at["src"].of # "target" /\ at["staged"].of # "target" /\ at["backup"].of # "source"
  /\ kind \in {"copy", "move", "remove"} /\ pc \in Pcs
  /\ after \in {"done", "restore", "copy", "moved"}
  /\ reply \in [installed : BOOLEAN, sourceRemoved : BOOLEAN, backup : BOOLEAN]
  /\ cancelled \in BOOLEAN
  /\ cur \in [Parts -> Nat] /\ old \in {Absent, Fresh("target"), Other}

Whole(t) == t.of # "nothing" /\ \A p \in Parts : t.files[p] # Missing

\* fsops.rs:25-26, "A crash at any point leaves either the old target or the
\* backup, never a truncated file": whatever fails and wherever the daemon is
\* killed, the destination holds the old target, all of the source, or nothing
\* (or what others put there), and as long as it is not the source the old
\* target is whole at one of its two places.
NeverTruncated ==
  /\ at["dst"] \in {old, Absent, Other} \/ (at["dst"].of = "source" /\ Whole(at["dst"]))
  /\ at["dst"].of = "source" \/ at["dst"] = old \/ at["backup"] = old

\* fsops.rs:372-375: no copy or move loses the source, not even an edit made
\* while it runs; its newest version is at one of its two places.
SourceKept ==
  kind # "remove" => cur \in {at["src"].files, at["dst"].files}

\* fsops.rs:60-78, 271-273, 433-435: the reply tells what is on disk.  Installed
\* means all of the source is there; otherwise the target is what it was, or is
\* whole in the backup the reply names; and no backup is left behind unnamed.
ReplyHonest ==
  pc = "done" /\ kind # "remove" =>
    /\ reply.installed => at["dst"].of = "source" /\ Whole(at["dst"])
    /\ ~reply.installed /\ ~reply.backup => at["dst"] = old
    /\ ~reply.installed /\ reply.backup => at["backup"] = old
    /\ Exists("backup") => reply.backup
    /\ reply.sourceRemoved <=> ~Exists("src")

\* What the target is: all of the source; what it was, in its place or whole in
\* the backup; or neither, which it must never be.
TargetState ==
  IF at["dst"].of = "source" /\ Whole(at["dst"]) THEN "new"
  ELSE IF (IF Exists("backup") THEN at["backup"] = old /\ at["dst"] \in {Absent, Other}
                               ELSE at["dst"] = old)
  THEN "old" ELSE "lost"

Promise == INSTANCE FileOp WITH
  target <- TargetState,
  backup <- Exists("backup"),
  source <- IF Exists("src") THEN "there" ELSE "gone",
  answers <- IF pc = "done" THEN {reply} ELSE {}

\* Call by call, with everything that may go wrong in between, an operation is
\* what the comments on install_staged, move_safely and FsOpOutcome promise.
FileOpSpec == Promise!Spec
=============================================================================
