-------------------------------- MODULE Paste --------------------------------
(***************************************************************************)
(* Cut, copy and paste (autoload/simpletree.vim): the clipboard, and the   *)
(* chain of jobs a paste is, over operations that keep the promise of      *)
(* FileOp and a daemon that may be stopped or die.                         *)
(*                                                                         *)
(* Vim does one thing at a time: busy is what it is in the middle of, and  *)
(* only the daemon acts meanwhile.  A paste that waits for the daemon lets *)
(* Vim go on, and the user may cut, copy and paste.  Of a file only its    *)
(* path counts, and which paste has put it there.  Marks, buffers, links   *)
(* and the tree are left out; what they refuse is a choice.                *)
(***************************************************************************)
EXTENDS Integers, Sequences, FiniteSets, SequencesExt

CONSTANTS
  Dirs, Names, \* the directories, and the names in them
  Full, Base,  \* the directories that hold a file at first, and its name
  MaxPastes,   \* bound: pastes
  MaxItems,    \* bound: items cut or copied at a time
  MaxCalls     \* bound: cuts, copies, stops and deaths of the daemon

ASSUME PasteAssumption ==
  /\ IsFiniteSet(Dirs) /\ IsFiniteSet(Names)
  /\ Full \subseteq Dirs /\ Base \in Names
  /\ MaxPastes \in Nat /\ MaxItems \in Nat /\ MaxCalls \in Nat

Paths == Dirs \X Names
Pastes == 1..MaxPastes

Nothing == -1

VARIABLES
  there,     \* there[x]: Nothing, 0 for a file that was there, or the paste that put it there
  clipboard, \* s_clipboard
  paste,     \* the contexts of the pastes, and where their chains are
  op,        \* op[p]: the fs_op of paste p, with its outcome if the daemon has written it
  busy,      \* what Vim is to run before anything else: chains of pastes, 0 for the end of BStop()
  daemon,    \* "ready": FsOpsEnabled() holds
  strays,    \* operations that the daemon still has to do and nobody waits for
  owed,      \* history: what was cut last and is still there
  since,     \* history: pastes started before the last cut or copy
  overruled, \* history: cuts that an earlier paste has overwritten in the clipboard
  clobbered, \* history: [by, of], by replaced, without asking, a file that of had put there
  calls

historyVars == <<owed, since, overruled, clobbered>>
vars == <<there, clipboard, paste, op, busy, daemon, strays, historyVars, calls>>

NoPaste == [at |-> "none", mode |-> "copy", todo |-> <<>>, remaining |-> {}]
NoOp == [at |-> "none"]

Exists(x) == there[x] # Nothing

Init ==
  /\ there = [x \in Paths |-> IF x[1] \in Full /\ x[2] = Base THEN 0 ELSE Nothing]
  /\ clipboard = [mode |-> "", items |-> {}]
  /\ paste = [p \in Pastes |-> NoPaste] /\ op = [p \in Pastes |-> NoOp]
  /\ busy = <<>> /\ daemon \in {"down", "ready"} /\ strays = {}
  /\ owed = {} /\ since = {} /\ overruled = {} /\ clobbered = {}
  /\ calls = 0

Idle == busy = <<>>
Started == {p \in Pastes : paste[p].at # "none"}

----------------------------------------------------------------------------
(* The user.                                                               *)

DaemonUnchanged == UNCHANGED <<op, daemon, strays>>

\* OnCopy() and OnCut() of the marked items.
OnCopyOrCut(mode) ==
  /\ Idle /\ calls < MaxCalls /\ calls' = calls + 1
  /\ \E items \in SUBSET {x \in Paths : Exists(x)} :
       /\ Cardinality(items) \in 1..MaxItems
       /\ clipboard' = [mode |-> mode, items |-> items]
       /\ owed' = IF mode = "cut" THEN items ELSE {}
  /\ since' = Started /\ overruled' = {}
  /\ UNCHANGED <<there, paste, busy, clobbered>> /\ DaemonUnchanged

\* Mutant: what earlier jobs of the paste will install is not a conflict.
TakenOnDisk(x, reserved) == Exists(x)

\* Whether ResolveConflict() and AskUniqueName() find x there or reserved.
Taken(x, reserved) == Exists(x) \/ x \in reserved

\* PlanPasteJob(): the target has the source's name, or another name if that is
\* taken; a target that is taken needs the user's leave.  A copy to where the
\* source is always gets a name of its own; a cut to there is skipped.
PlanPasteJob(src, dst, reserved) ==
  [src |-> src, dst |-> dst, asked |-> Taken(dst, reserved)]

MayPlan(job, reserved) ==
  LET proposed == <<job.dst[1], job.src[2]>> IN
  /\ Exists(job.src)
  /\ job.dst # proposed => Taken(proposed, reserved)
  /\ job.src = proposed => clipboard.mode = "copy" /\ ~job.asked

\* OnPaste(): all jobs are planned before the first of them is done.  An item
\* without a job was refused or is skipped; if it was cut it stays behind.
OnPaste ==
  /\ Idle /\ clipboard.items # {}
  /\ \E p \in Pastes, dest \in Dirs, picked \in SUBSET clipboard.items :
       /\ \A q \in Pastes : q < p <=> q \in Started
       /\ \E srcs \in SetToSeqs(picked), name \in [picked -> Names] :
            LET dst == [i \in DOMAIN srcs |-> <<dest, name[srcs[i]]>>]
                reserved == [i \in DOMAIN srcs |-> {dst[k] : k \in 1..(i - 1)}]
                jobs == [i \in DOMAIN srcs |-> PlanPasteJob(srcs[i], dst[i], reserved[i])] IN
            /\ \A i \in DOMAIN srcs : MayPlan(jobs[i], reserved[i])
            /\ paste' = [paste EXCEPT ![p] =
                 [at |-> "loop", mode |-> clipboard.mode, todo |-> jobs,
                  remaining |-> IF clipboard.mode = "cut" THEN clipboard.items \ picked ELSE {}]]
       /\ busy' = <<p>>
  /\ UNCHANGED <<there, clipboard, historyVars, calls>> /\ DaemonUnchanged

----------------------------------------------------------------------------
(* An operation, by the daemon or by Vim itself.                           *)

\* What FileOp promises: the target is there as a whole or nothing has changed
\* (a rollback that fails is left out); a move may have to leave its source.
Outcomes(job, mode) ==
  LET failed == [installed |-> FALSE, removed |-> FALSE]
      moved == [there EXCEPT ![job.dst] = there[job.src], ![job.src] = Nothing]
      copied == [there EXCEPT ![job.dst] = there[job.src]] IN
  {[to |-> there, out |-> failed]} \cup
  (IF ~Exists(job.src) THEN {}
   ELSE {[to |-> copied, out |-> [installed |-> TRUE, removed |-> FALSE]]} \cup
        (IF mode = "move" THEN {[to |-> moved, out |-> [installed |-> TRUE, removed |-> TRUE]]} ELSE {}))

Kind(p) == IF paste[p].mode = "cut" THEN "move" ELSE "copy"

\* The operation is carried out for paste p with outcome o.
Carry(job, p, o) ==
  /\ there' = IF o.out.installed THEN [o.to EXCEPT ![job.dst] = p] ELSE o.to
  /\ owed' = {x \in owed : there'[x] # Nothing}

\* What its paste waits for is recorded if it replaces something without leave.
Record(job, p, o) ==
  clobbered' = IF o.out.installed /\ Exists(job.dst) /\ ~job.asked
               THEN clobbered \cup {[by |-> p, of |-> there[job.dst]]} ELSE clobbered

----------------------------------------------------------------------------
(* The chain of jobs.                                                      *)

Current == Head(busy)
Job(p) == Head(paste[p].todo)

\* Mutant: an item that was copied whole is done with, though its source is left.
PasteApplyInstalled(c, out) ==
  [c EXCEPT !.remaining = IF c.mode = "cut" /\ ~out.installed THEN @ \cup {Head(c.todo).src} ELSE @]

\* PasteApply(): a cut item that was not moved stays behind.
PasteApply(c, out) ==
  [c EXCEPT !.remaining = IF c.mode = "cut" /\ ~out.removed THEN @ \cup {Head(c.todo).src} ELSE @]

\* Mutant: the job that has ended stays the current one.
NextJobAgain(c, out) == [PasteApply(c, out) EXCEPT !.at = "loop"]

\* PasteStepDone(): the job is over, and the loop goes on with the next.
NextJob(c, out) == [PasteApply(c, out) EXCEPT !.at = "loop", !.todo = Tail(@)]

\* The clipboard is overwritten, by a paste that may be older than what is in it.
Keep(p, items) ==
  /\ clipboard' = IF items = {} THEN [mode |-> "", items |-> {}] ELSE [mode |-> "cut", items |-> items]
  /\ overruled' = IF p \in since THEN owed ELSE overruled

\* PasteFinish()
PasteFinish(p) ==
  /\ paste[p].todo = <<>> /\ busy' = Tail(busy)
  /\ paste' = [paste EXCEPT ![p] = [NoPaste EXCEPT !.at = "over"]]
  /\ IF paste[p].mode = "cut" THEN Keep(p, paste[p].remaining) ELSE UNCHANGED <<clipboard, overruled>>
  /\ UNCHANGED <<there, owed, since, clobbered>> /\ DaemonUnchanged

\* simplecc is to show a preview of the move first.
Preview(p) ==
  /\ paste[p].todo # <<>> /\ paste[p].mode = "cut" /\ ~Exists(Job(p).dst)
  /\ paste' = [paste EXCEPT ![p].at = "preview"] /\ busy' = Tail(busy)
  /\ UNCHANGED <<there, clipboard, historyVars>> /\ DaemonUnchanged

\* BFsOp()
Send(p) ==
  /\ paste[p].todo # <<>> /\ daemon = "ready"
  /\ paste' = [paste EXCEPT ![p].at = "sent"] /\ busy' = Tail(busy)
  /\ op' = [op EXCEPT ![p] = [at |-> "sent"]]
  /\ UNCHANGED <<there, clipboard, historyVars, daemon, strays>>

\* CopyPathSafely() or MovePathSafely(): Vim does it itself.
Sync(p) ==
  /\ paste[p].todo # <<>> /\ daemon # "ready"
  /\ \E o \in Outcomes(Job(p), Kind(p)) :
       /\ Carry(Job(p), p, o) /\ Record(Job(p), p, o)
       /\ paste' = [paste EXCEPT ![p] = NextJob(@, o.out)]
  /\ UNCHANGED <<clipboard, busy, since, overruled>> /\ DaemonUnchanged

\* PasteStep(), from the top of its loop.
PasteStep ==
  /\ busy # <<>> /\ Current # 0 /\ paste[Current].at = "loop"
  /\ PasteFinish(Current) \/ Preview(Current) \/ Send(Current) \/ Sync(Current)
  /\ UNCHANGED <<calls>>

\* FinishFsOp() for an answer, unless the daemon is being stopped.
ReadAnswer(p) ==
  /\ Idle /\ op[p].at = "answered" /\ daemon # "stopping"
  /\ paste' = [paste EXCEPT ![p] = NextJob(@, op[p].out)]
  /\ op' = [op EXCEPT ![p] = NoOp] /\ busy' = <<p>>
  /\ UNCHANGED <<there, clipboard, daemon, strays, historyVars, calls>>

\* FinishFsOp() for an operation that will not be answered; a daemon that lives
\* does it all the same.
FailOp ==
  /\ busy # <<>> /\ Current # 0 /\ paste[Current].at = "sent"
  /\ paste' = [paste EXCEPT ![Current] = NextJob(@, [installed |-> FALSE, removed |-> FALSE])]
  /\ strays' = IF op[Current].at = "sent" /\ daemon = "ready"
               THEN strays \cup {[job |-> Job(Current), by |-> Current]} ELSE strays
  /\ op' = [op EXCEPT ![Current] = NoOp]
  /\ UNCHANGED <<there, clipboard, busy, daemon, historyVars, calls>>

\* What is left of a paste that has just moved its current job.
LeftToMove(c) == {c.todo[i].src : i \in 2..Len(c.todo)} \cup c.remaining

\* CompleteIntegratedMove(): a plain rename, or a refusal after which the paste
\* waits for ever; a timer of no delay goes on with the chain.
CompleteIntegratedMove(p) ==
  /\ Idle /\ paste[p].at = "preview" /\ Exists(Job(p).src) /\ ~Exists(Job(p).dst)
  /\ Carry(Job(p), p, [to |-> [there EXCEPT ![Job(p).src] = Nothing],
                       out |-> [installed |-> TRUE, removed |-> TRUE]])
  /\ clipboard' = [mode |-> "cut", items |-> LeftToMove(paste[p])]
  /\ overruled' = IF p \in since THEN owed' ELSE overruled
  /\ paste' = [paste EXCEPT ![p] = [NextJob(@, [installed |-> TRUE, removed |-> TRUE]) EXCEPT !.at = "timer"]]
  /\ UNCHANGED <<busy, since, clobbered, calls>> /\ DaemonUnchanged

PasteTimer(p) ==
  /\ Idle /\ paste[p].at = "timer"
  /\ paste' = [paste EXCEPT ![p].at = "loop"] /\ busy' = <<p>>
  /\ UNCHANGED <<there, clipboard, historyVars, calls>> /\ DaemonUnchanged

----------------------------------------------------------------------------
(* The daemon.                                                             *)

FrontendUnchanged == UNCHANGED <<clipboard, paste, busy, since, overruled>>

Answer(p) ==
  /\ daemon \in {"ready", "stopping"} /\ op[p].at = "sent"
  /\ \E o \in Outcomes(Job(p), Kind(p)) :
       /\ Carry(Job(p), p, o) /\ Record(Job(p), p, o)
       /\ op' = [op EXCEPT ![p] = [at |-> "answered", out |-> o.out]]
  /\ UNCHANGED <<daemon, strays, calls>> /\ FrontendUnchanged

Stray ==
  /\ daemon \in {"ready", "stopping"}
  /\ \E s \in strays :
       /\ strays' = strays \ {s}
       /\ \E o \in Outcomes(s.job, Kind(s.by)) : Carry(s.job, s.by, o)
  /\ UNCHANGED <<clobbered, op, daemon, calls>> /\ FrontendUnchanged

Dies ==
  /\ daemon \in {"ready", "stopping"}
  /\ IF daemon = "ready" THEN calls < MaxCalls /\ calls' = calls + 1 ELSE UNCHANGED calls
  /\ daemon' = "dead" /\ strays' = {}
  /\ UNCHANGED <<there, op, owed, clobbered>> /\ FrontendUnchanged

Sent == {p \in Pastes : paste[p].at = "sent"}

\* Mutant: nobody is told.
ExitForgetting ==
  /\ Idle /\ daemon = "dead" /\ daemon' = "down"
  /\ op' = [p \in Pastes |-> NoOp]
  /\ UNCHANGED <<there, clipboard, paste, busy, strays, historyVars, calls>>

\* OnBackendExit(): FailPendingFsOps(), in any order, with no daemon to send to.
Exit ==
  /\ Idle /\ daemon = "dead" /\ daemon' = "down"
  /\ busy' \in SetToSeqs(Sent)
  /\ UNCHANGED <<there, clipboard, paste, op, strays, historyVars, calls>>

\* BStop(): FailPendingFsOps(), while the daemon can still be sent to, then Stop().
BStop ==
  /\ Idle /\ daemon = "ready" /\ calls < MaxCalls /\ calls' = calls + 1
  /\ \E failing \in SetToSeqs(Sent) : busy' = Append(failing, 0)
  /\ UNCHANGED <<there, clipboard, paste, op, daemon, strays, historyVars>>

Stop ==
  /\ busy = <<0>> /\ busy' = <<>>
  /\ daemon' = IF daemon = "ready" THEN "stopping" ELSE daemon
  /\ UNCHANGED <<there, clipboard, paste, op, strays, historyVars, calls>>

\* A daemon is started and its pong read.
Pong ==
  /\ Idle /\ daemon = "down" /\ daemon' = "ready"
  /\ UNCHANGED <<there, clipboard, paste, op, busy, strays, historyVars, calls>>

----------------------------------------------------------------------------
User == (\E mode \in {"copy", "cut"} : OnCopyOrCut(mode)) \/ OnPaste \/ BStop

\* What Vim comes to, and what a daemon that lives or was stopped comes to.
Vim ==
  \/ PasteStep \/ FailOp \/ Stop \/ Exit
  \/ \E p \in Pastes : ReadAnswer(p) \/ PasteTimer(p)

Daemon == (\E p \in Pastes : Answer(p)) \/ Stray \/ (daemon = "stopping" /\ Dies)

Next ==
  \/ User \/ Vim \/ Daemon
  \/ (\E p \in Pastes : CompleteIntegratedMove(p))
  \/ Dies \/ Pong

Spec == Init /\ [][Next]_vars

\* Nothing more than that Vim and the daemon go on while they have something to do;
\* a death, a start and a preview are never owed.
Fairness == WF_vars(Vim) /\ WF_vars(Daemon)

FairSpec == Spec /\ Fairness

----------------------------------------------------------------------------
(* Properties.                                                             *)

\* Types.  What a paste has left behind is not also still to be done.
TypeOK ==
  /\ there \in [Paths -> {Nothing, 0} \cup Pastes]
  /\ clipboard.mode \in {"", "copy", "cut"} /\ clipboard.items \subseteq Paths
  /\ \A p \in Pastes : LET c == paste[p] IN
       /\ c.at \in {"none", "loop", "sent", "preview", "timer", "over"}
       /\ c.remaining \subseteq Paths
       /\ \A i \in DOMAIN c.todo : c.todo[i].src \notin c.remaining
       /\ (op[p].at # "none") => c.at = "sent"
  /\ daemon \in {"down", "ready", "stopping", "dead"}
  /\ owed \cup overruled \subseteq Paths

\* simpletree.vim:4853: what was cut and not moved stays in the clipboard, whatever
\* becomes of the pastes of it; only one that is older than the cut may overwrite it.
CutKept == owed \subseteq (IF clipboard.mode = "cut" THEN clipboard.items ELSE {}) \cup overruled

\* simpletree.vim:1024: a job that replaces a file nobody was asked about has found
\* there what another paste put there meanwhile, never a file that was
\* there when the paste was planned or that an earlier job of it has installed
\* (an operation that goes on after it was given up by a stop is not counted).
OnlyOthersReplaced == \A c \in clobbered : c.of \in Pastes \ {c.by}

\* vim_fsop_failures.vim:16: whatever becomes of the daemon, a paste ends, unless
\* it waits for a preview.
PastesEnd == \A p \in Pastes : paste[p].at = "sent" ~> paste[p].at \in {"over", "preview"}
=============================================================================
