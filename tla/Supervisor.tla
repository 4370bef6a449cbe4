----------------------------- MODULE Supervisor -----------------------------
(***************************************************************************)
(* The supervisor of the daemon (autoload/simpletree/core.vim) as the tree *)
(* uses it (raw codec, no built-in handshake), and the frontend's part of  *)
(* a backend session: the capabilities a pong brings and the callbacks of  *)
(* fs_ops, which have no timeout (autoload/simpletree.vim).                *)
(*                                                                         *)
(* Vim runs one callback, timer or command at a time: each is an action.   *)
(* A process dies when it likes.  Vim's loop runs its exit callback later, *)
(* and reads its lines later; but job_status() runs the exit callback then *)
(* and there when it is the first to see the death, so that OnExit may run *)
(* inside a call of the supervisor, and the plugin's callbacks inside that *)
(* may call the supervisor again.  exits keeps the OnExits that have not   *)
(* returned, each with what goes on once it has.                           *)
(***************************************************************************)
EXTENDS Integers, FiniteSets

CONSTANTS
  Ops,          \* fs_op requests
  MaxRestarts,  \* max_restarts
  MaxStarts,    \* bound: generations
  MaxCalls      \* bound: calls of Ensure, Stop and Restart

ASSUME SupervisorAssumption ==
  MaxRestarts \in Nat /\ MaxStarts \in Nat /\ MaxCalls \in Nat

Starts == 1..MaxStarts

VARIABLES
  proc,             \* proc[g]: the process of generation g
  generation,       \* s_generation
  job,              \* s_job: the generation of its process, 0 for null_job
  stopping,         \* s_stopping
  restartAfterExit, \* s_restart_after_exit_generation
  crashes,          \* len(s_crash_times), those within the window
  tripped,          \* s_tripped
  timers,           \* the restart timers that run, by the generation that armed them
  restartTimer,     \* s_restart_timer: the one of them that Stop can stop
  killTimer,        \* s_kill_timer, by the generation it is to kill
  exits,            \* exits[g]: OnExit of generation g, and the call it runs inside
  caps,             \* s_backend_caps: the generation whose pong set them
  op,               \* s_fsop_cbs
  pongs, answers,   \* pongs[g], answers[o]: the line, if its process has written it
  wanted,           \* history: asked for, and not stopped since (no stop reaches a lost one)
  refused,          \* history: the last attempt to start was refused, with a message
  nested,           \* history: started while an Ensure further out was still to start one
  restarts,         \* history: automatic restarts for the crashes in the window
  calls             \* history: calls made

processVars == <<proc, pongs, answers>>
policyVars == <<crashes, tripped, restarts>>
timerVars == <<timers, restartTimer, killTimer>>
jobVars == <<generation, job, stopping, restartAfterExit>>
sessionVars == <<caps, op>>
askVars == <<wanted, refused>>
exitVars == <<exits, nested>>
vars == <<processVars, policyVars, timerVars, jobVars, sessionVars, askVars, calls, exitVars>>

\* An OnExit: it is to run, is in the plugin's callbacks (with no restart, an
\* automatic or a manual one in view), or has returned.
Callbacks == {"none", "auto", "manual"}
Hows == {"not", "noticed", "done"} \cup Callbacks

\* What goes on then: Vim's loop or a callback, or the caller of the IsRunning that
\* noticed the death.  "start" is job_status() of a process just started.
Callers == {"return", "ensure", "restart", "stop", "start"}

NoExit == [how |-> "not", then |-> "return"]

Init ==
  /\ proc = [g \in Starts |-> "unborn"] 
  /\ pongs = [g \in Starts |-> "none"] /\ answers = [o \in Ops |-> "none"]
  /\ crashes = 0 /\ tripped = FALSE /\ restarts = 0
  /\ timers = {} /\ restartTimer = 0 /\ killTimer = 0
  /\ generation = 0 /\ job = 0 /\ stopping = FALSE /\ restartAfterExit = 0
  /\ caps = 0 /\ op = [o \in Ops |-> [gen |-> 0, st |-> "new"]]
  /\ wanted = FALSE /\ refused = FALSE /\ calls = 0
  /\ exits = [g \in Starts |-> NoExit] /\ nested = {}

Alive(g) == proc[g] \in {"running", "killed"}

\* IsRunning() of a process whose exit has been handled, or that runs.
IsRunning == job # 0 /\ Alive(job)

\* IsRunning() of any other runs OnExit first, and is false.
Unnoticed == job # 0 /\ proc[job] = "dead"

Pending(g) == exits[g].how # "not"

\* The call that runs now: each is about a newer generation than the one it is inside of.
Innermost(g) == Pending(g) /\ \A h \in Starts : Pending(h) => h <= g

\* Vim's loop runs, and nothing else.
Idle == \A g \in Starts : ~Pending(g)

\* So do the plugin's callbacks, which may call the supervisor.
MayCall == \A g \in Starts : Innermost(g) => exits[g].how \in Callbacks

\* job_status() finds g dead: OnExit runs, then the caller goes on.
Noticed(ex, g, then) == exits' = [ex EXCEPT ![g] = [how |-> "noticed", then |-> then]]

\* The call that was inside of g's OnExit has returned.
Returned(g) == [exits EXCEPT ![g] = NoExit]

----------------------------------------------------------------------------
(* The process.                                                            *)

Dies(g) ==
  /\ Alive(g)
  /\ proc' = [proc EXCEPT ![g] = "dead"]
  /\ UNCHANGED <<pongs, answers, policyVars, timerVars, jobVars, sessionVars, askVars, calls, exitVars>>

\* The ping that OnBackendStart sent is answered.
Pong(g) ==
  /\ proc[g] = "running" /\ pongs[g] = "none"
  /\ pongs' = [pongs EXCEPT ![g] = "written"]
  /\ UNCHANGED <<proc, answers, policyVars, timerVars, jobVars, sessionVars, askVars, calls, exitVars>>

Answer(o) ==
  /\ op[o].st = "waiting" /\ proc[op[o].gen] = "running" /\ answers[o] = "none"
  /\ answers' = [answers EXCEPT ![o] = "written"]
  /\ UNCHANGED <<proc, pongs, policyVars, timerVars, jobVars, sessionVars, askVars, calls, exitVars>>

----------------------------------------------------------------------------
(* Ensure, Stop and Restart.                                               *)

Refuse == refused' = TRUE /\ UNCHANGED <<proc, jobVars, caps, nested>>

\* An Ensure further out is still to start a daemon, or to give up the job.
Pressed(ex) == \E g \in Starts : ex[g].how # "not" /\ ex[g].then \in {"ensure", "start"}

\* job_start.  A spawn that fails leaves everything but the generation and the job as
\* it was; so does a process that is dead before job_status() asks, which has its
\* OnExit first.  OnStart resets the session.
JobStart(ex) ==
  /\ generation < MaxStarts
  /\ generation' = generation + 1
  /\ \/ /\ job' = generation + 1 /\ proc' = [proc EXCEPT ![generation + 1] = "running"]
        /\ stopping' = FALSE /\ restartAfterExit' = 0 /\ caps' = 0 /\ refused' = FALSE
        /\ nested' = IF Pressed(ex) THEN nested \cup {generation + 1} ELSE nested
        /\ exits' = ex
     \/ /\ job' = 0 /\ refused' = TRUE /\ exits' = ex
        /\ UNCHANGED <<proc, stopping, restartAfterExit, caps, nested>>
     \/ /\ job' = 0 /\ proc' = [proc EXCEPT ![generation + 1] = "dead"]
        /\ Noticed(ex, generation + 1, "start")
        /\ UNCHANGED <<stopping, restartAfterExit, caps, refused, nested>>

\* The rest of Ensure() once IsRunning() was false; the executable may be missing.
\* Whether the job runs now is not asked again.
EnsureStart(ex, breakerOpen) ==
  \/ Refuse /\ exits' = ex
  \/ ~breakerOpen /\ JobStart(ex)

\* Mutant: while the old process winds down the answer is true and nothing staged.
AnswerUnstaged(ex, breakerOpen) ==
  /\ wanted' = TRUE
  /\ \/ IsRunning /\ refused' = FALSE /\ exits' = ex /\ UNCHANGED <<proc, jobVars, caps, nested>>
     \/ ~IsRunning /\ EnsureStart(ex, breakerOpen)

\* Ensure() once it is known whether the job runs.
EnsureAnswers(ex, breakerOpen) ==
  /\ wanted' = TRUE
  /\ \/ /\ IsRunning /\ ~stopping /\ refused' = FALSE /\ exits' = ex
        /\ UNCHANGED <<proc, jobVars, caps, nested>>
     \/ IsRunning /\ stopping /\ breakerOpen /\ Refuse /\ exits' = ex
     \/ /\ IsRunning /\ stopping /\ ~breakerOpen
        /\ restartAfterExit' = generation /\ refused' = FALSE /\ exits' = ex
        /\ UNCHANGED <<proc, generation, job, stopping, caps, nested>>
     \/ ~IsRunning /\ EnsureStart(ex, breakerOpen)

\* Mutant: the death is known (say, by ch_status) before the exit has been handled.
EnsureByChannel(ex, breakerOpen) == EnsureAnswers(ex, breakerOpen)

\* Ensure(), called where the calls ex have not returned.
Ensure(ex, breakerOpen) ==
  \/ /\ Unnoticed /\ Noticed(ex, job, "ensure")
     /\ UNCHANGED <<proc, jobVars, caps, askVars, nested>>
  \/ ~Unnoticed /\ EnsureAnswers(ex, breakerOpen)

\* Mutant: a stop leaves the restart that is scheduled.
StopKeepsTimer(restart) ==
  /\ restartAfterExit' = IF restart /\ job # 0 THEN generation ELSE 0
  /\ UNCHANGED <<timers, restartTimer>>
  /\ IF job = 0 THEN UNCHANGED <<stopping, killTimer>>
     ELSE stopping' = TRUE /\ killTimer' = generation
  /\ UNCHANGED <<generation, job>>

\* StopInternal(): SIGTERM, which the process may ignore, and the kill timer.
StopInternal(restart) ==
  /\ restartAfterExit' = IF restart /\ job # 0 THEN generation ELSE 0
  /\ timers' = timers \ {restartTimer} /\ restartTimer' = 0
  /\ IF job = 0 THEN UNCHANGED <<stopping, killTimer>>
     ELSE stopping' = TRUE /\ killTimer' = generation
  /\ UNCHANGED <<generation, job>>

Call == MayCall /\ calls < MaxCalls /\ calls' = calls + 1 /\ UNCHANGED <<pongs, answers>>

ResetBackoff == crashes' = 0 /\ tripped' = FALSE /\ restarts' = 0

Waiting == {o \in Ops : op[o].st = "waiting"}

FsOpsEnabled == caps # 0 /\ IsRunning

\* FailPendingFsOps: every waiting operation ends; a paste that waited goes on
\* with its next item, which is sent if it can be.
FailPendingFsOps(next) ==
  /\ next \subseteq {o \in Ops : op[o].st = "new"} /\ Cardinality(next) <= Cardinality(Waiting)
  /\ op' = [o \in Ops |-> IF o \in Waiting THEN [op[o] EXCEPT !.st = "ended"]
                          ELSE IF o \in next THEN [gen |-> job, st |-> "waiting"] ELSE op[o]]

CallEnsure ==
  /\ Call
  /\ Ensure(exits, tripped)
  /\ UNCHANGED <<policyVars, timerVars, op>>

\* The newest process was lost: it runs, or its exit is to come, and the job is gone.
Lost == job = 0 /\ generation # 0 /\ proc[generation] \in {"running", "killed", "dead"}

\* What BStop does last.
Stop == StopInternal(FALSE) /\ caps' = 0 /\ wanted' = Lost

\* BStop.  A callback of a waiting operation may ask whether the next can be sent,
\* which is what notices a death.
CallStop ==
  /\ Call
  /\ \/ /\ \/ FailPendingFsOps({})
           \/ FsOpsEnabled /\ ~stopping /\ \E o \in Ops : FailPendingFsOps({o})
        /\ Stop /\ exits' = exits
     \/ /\ Waiting # {} /\ caps # 0 /\ Unnoticed /\ FailPendingFsOps({})
        /\ Noticed(exits, job, "stop")
        /\ UNCHANGED <<timerVars, jobVars, caps, wanted>>
  /\ UNCHANGED <<proc, policyVars, refused, nested>>

\* simpletree#Restart.
CallRestart ==
  /\ Call
  /\ ResetBackoff
  /\ \/ /\ IsRunning /\ StopInternal(TRUE) /\ wanted' = TRUE /\ refused' = FALSE
        /\ exits' = exits /\ UNCHANGED <<proc, nested>>
     \/ Unnoticed /\ Noticed(exits, job, "restart") /\ UNCHANGED <<proc, jobVars, timerVars, askVars, nested>>
     \/ job = 0 /\ Ensure(exits, FALSE) /\ UNCHANGED timerVars
  /\ caps' = 0 /\ UNCHANGED op

----------------------------------------------------------------------------
(* What Vim runs on its own.                                               *)

\* The timer of ScheduleRestart or of a manual restart.  Its own generation's job has
\* exited, so there is nothing for IsRunning() to notice.
RestartTimer(g) ==
  /\ Idle /\ g \in timers
  /\ timers' = timers \ {g} /\ restartTimer' = 0
  /\ IF g = generation /\ ~stopping /\ ~IsRunning
     THEN EnsureStart(exits, tripped)
     ELSE UNCHANGED <<proc, jobVars, caps, refused, exitVars>>
  /\ UNCHANGED <<pongs, answers, policyVars, killTimer, op, wanted, calls>>

\* job_status() of the process to be killed would notice its death.
KillNotices == killTimer = generation /\ proc[killTimer] = "dead"

\* Mutant: a process that is to be replaced is not killed.
KillUnlessStaged ==
  /\ Idle /\ killTimer # 0 /\ ~KillNotices /\ killTimer' = 0
  /\ proc' = IF killTimer = generation /\ proc[killTimer] = "running" /\ restartAfterExit = 0
             THEN [proc EXCEPT ![killTimer] = "killed"] ELSE proc
  /\ UNCHANGED <<pongs, answers, policyVars, timers, restartTimer, jobVars, sessionVars,
                 askVars, calls, exitVars>>

\* SIGKILL after kill_after_ms.  When the process has died OnExit, which stops the
\* timer, may as well come first.
KillTimer ==
  /\ Idle /\ killTimer # 0 /\ ~KillNotices /\ killTimer' = 0
  /\ proc' = IF killTimer = generation /\ proc[killTimer] = "running"
             THEN [proc EXCEPT ![killTimer] = "killed"] ELSE proc
  /\ UNCHANGED <<pongs, answers, policyVars, timers, restartTimer, jobVars, sessionVars,
                 askVars, calls, exitVars>>

\* Mutant: whoever exits, nothing runs any more.
ClearOnExit(g) ==
  /\ Idle /\ proc[g] = "dead" /\ g # generation
  /\ proc' = [proc EXCEPT ![g] = "reaped"]
  /\ restartAfterExit' = IF restartAfterExit = g THEN 0 ELSE restartAfterExit
  /\ job' = 0 /\ stopping' = FALSE
  /\ UNCHANGED <<pongs, answers, policyVars, timerVars, generation,
                 sessionVars, askVars, calls, exitVars>>

\* OnExit of a generation that has been replaced.
StaleExit(g) ==
  /\ Idle /\ proc[g] = "dead" /\ g # generation
  /\ proc' = [proc EXCEPT ![g] = "reaped"]
  /\ restartAfterExit' = IF restartAfterExit = g THEN 0 ELSE restartAfterExit
  /\ UNCHANGED <<pongs, answers, policyVars, timerVars, generation, job, stopping,
                 sessionVars, askVars, calls, exitVars>>

\* Mutant: one restart more than the limit.
NoteCrashLate(n) == n <= MaxRestarts + 1

\* NoteCrash, with n crashes in the window: may it be restarted?
NoteCrash(n) == n <= MaxRestarts

\* Mutant: the breaker is not opened.
ExpectForever(expected, stable) ==
  LET past == IF stable THEN 0 ELSE crashes
  IN  /\ crashes' = IF expected THEN 0 ELSE past + 1
      /\ tripped' = (~expected /\ ~stable /\ tripped)
      /\ restarts' = IF expected \/ stable THEN 0 ELSE restarts

\* The accounting of an exit.
Account(expected, stable) ==
  LET past == IF stable THEN 0 ELSE crashes
  IN  /\ crashes' = IF expected THEN 0 ELSE past + 1
      /\ tripped' = (~expected /\ (~NoteCrash(past + 1) \/ (~stable /\ tripped)))
      /\ restarts' = IF expected \/ stable THEN 0 ELSE restarts

\* Vim's loop comes to the death of the newest process, or a callback asks IsRunning().
Notice ==
  /\ MayCall /\ generation # 0 /\ proc[generation] = "dead"
  /\ Idle \/ job # 0
  /\ Noticed(exits, generation, "return")
  /\ UNCHANGED <<processVars, policyVars, timerVars, jobVars, sessionVars, askVars, calls, nested>>

\* OnExit up to its callbacks, and what OnBackendExit does: the session is reset
\* and the waiting fs_ops fail; their callbacks may call the supervisor.  A daemon
\* that was up long enough is stable.
ExitBegins ==
  /\ generation # 0 /\ exits[generation].how = "noticed"
  /\ proc' = [proc EXCEPT ![generation] = "reaped"]
  /\ job' = 0 /\ stopping' = FALSE /\ killTimer' = 0
  /\ \E stable \in BOOLEAN :
       LET restarting == ~stopping /\ NoteCrash(IF stable THEN 1 ELSE crashes + 1)
           manual == restartAfterExit = generation
       IN  /\ Account(stopping, stable)
           /\ restartAfterExit' = IF restarting \/ manual THEN generation ELSE 0
           /\ exits' = [exits EXCEPT ![generation].how =
                          IF manual THEN "manual" ELSE IF restarting THEN "auto" ELSE "none"]
  /\ caps' = 0 /\ FailPendingFsOps({})
  /\ UNCHANGED <<pongs, answers, generation, timers, restartTimer, askVars, calls, nested>>

\* The rest of OnExit: the restart is scheduled unless a callback has started a
\* replacement or cancelled it.
ExitEnds(g) ==
  /\ Innermost(g) /\ exits[g].how \in Callbacks
  /\ exits' = [exits EXCEPT ![g].how = "done"]
  /\ IF restartAfterExit = g /\ g = generation
     THEN /\ restartAfterExit' = 0 /\ restartTimer' = g
          /\ timers' = (IF exits[g].how = "auto" THEN timers \ {restartTimer} ELSE timers) \cup {g}
          /\ restarts' = IF exits[g].how = "auto" /\ crashes > 0 THEN restarts + 1 ELSE restarts
     ELSE UNCHANGED <<restartAfterExit, restartTimer, timers, restarts>>
  /\ UNCHANGED <<processVars, crashes, tripped, killTimer, generation, job, stopping,
                 sessionVars, askVars, calls, nested>>

\* OnExit has returned, to whom it was run for.
BackIn(g, then) ==
  /\ Innermost(g) /\ exits[g].how = "done" /\ exits[g].then = then
  /\ UNCHANGED <<pongs, answers, policyVars, op, calls>>

BackToVim(g) ==
  /\ BackIn(g, "return") /\ exits' = Returned(g)
  /\ UNCHANGED <<proc, timerVars, jobVars, caps, askVars, nested>>

\* IsRunning() was false; what a callback has started meanwhile is not looked at.
BackToEnsure(g) ==
  /\ BackIn(g, "ensure") /\ wanted' = TRUE
  /\ EnsureStart(Returned(g), tripped)
  /\ UNCHANGED timerVars

BackToRestart(g) ==
  /\ BackIn(g, "restart")
  /\ Ensure(Returned(g), tripped)
  /\ UNCHANGED timerVars

BackToStop(g) ==
  /\ BackIn(g, "stop") /\ Stop /\ exits' = Returned(g)
  /\ UNCHANGED <<proc, refused, nested>>

\* The start has failed, whatever a callback has started meanwhile.
BackToStart(g) ==
  /\ BackIn(g, "start") /\ job' = 0 /\ refused' = TRUE /\ exits' = Returned(g)
  /\ UNCHANGED <<proc, timerVars, generation, stopping, restartAfterExit, caps, wanted, nested>>

Back(g) == BackToVim(g) \/ BackToEnsure(g) \/ BackToRestart(g) \/ BackToStop(g) \/ BackToStart(g)

\* The oldest crash leaves the window.
CrashAges ==
  /\ Idle /\ crashes > 0 /\ crashes' = crashes - 1
  /\ restarts' = IF restarts > 0 THEN restarts - 1 ELSE 0
  /\ UNCHANGED <<processVars, tripped, timerVars, jobVars, sessionVars, askVars, calls, exitVars>>

\* Mutant: only the stop fence.
UnlessStopping(g) == ~stopping

\* The two fences of out_cb.
Fence(g) == g = generation /\ ~stopping

ReadPong(g) ==
  /\ Idle /\ pongs[g] = "written" /\ pongs' = [pongs EXCEPT ![g] = "read"]
  /\ caps' = IF Fence(g) THEN g ELSE caps
  /\ UNCHANGED <<proc, answers, policyVars, timerVars, jobVars, op, askVars, calls, exitVars>>

\* FinishFsOp.
ReadAnswer(o) ==
  /\ Idle /\ answers[o] = "written" /\ answers' = [answers EXCEPT ![o] = "read"]
  /\ op' = IF Fence(op[o].gen) THEN [op EXCEPT ![o].st = "ended"] ELSE op
  /\ UNCHANGED <<proc, pongs, policyVars, timerVars, jobVars, caps, askVars, calls, exitVars>>

\* BFsOp.
IssueOp(o) ==
  /\ Idle /\ op[o].st = "new" /\ FsOpsEnabled /\ ~stopping
  /\ op' = [op EXCEPT ![o] = [gen |-> job, st |-> "waiting"]]
  /\ UNCHANGED <<processVars, policyVars, timerVars, jobVars, caps, askVars, calls, exitVars>>

Next ==
  \/ CallEnsure \/ CallStop \/ CallRestart
  \/ KillTimer \/ Notice \/ ExitBegins \/ CrashAges
  \/ \E g \in Starts : \/ Dies(g) \/ Pong(g) \/ ReadPong(g) \/ RestartTimer(g) \/ StaleExit(g)
                       \/ ExitEnds(g) \/ Back(g)
  \/ \E o \in Ops : IssueOp(o) \/ Answer(o) \/ ReadAnswer(o)

Spec == Init /\ [][Next]_vars

\* Vim comes to every timer and callback, calls return, and a killed process dies.  A
\* crash, a call and an answer are never owed.
Fairness ==
  /\ WF_vars(KillTimer) /\ WF_vars(Idle /\ Notice) /\ WF_vars(ExitBegins)
  /\ \A g \in Starts : /\ WF_vars(ExitEnds(g)) /\ WF_vars(Back(g))
                       /\ WF_vars(RestartTimer(g)) /\ WF_vars(StaleExit(g))
                       /\ WF_vars(proc[g] = "killed" /\ Dies(g)) /\ WF_vars(ReadPong(g))
  /\ \A o \in Ops : WF_vars(ReadAnswer(o))

FairSpec == Spec /\ Fairness

----------------------------------------------------------------------------
(* Properties.                                                             *)

TypeOK ==
  /\ proc \in [Starts -> {"unborn", "running", "killed", "dead", "reaped"}]
  /\ generation \in 0..MaxStarts /\ job \in {0, generation} /\ stopping \in BOOLEAN
  /\ restartAfterExit \in 0..generation /\ timers \subseteq 1..generation
  /\ restartTimer \in timers \cup {0} /\ killTimer \in 0..generation
  /\ crashes \in 0..(MaxRestarts + 1) /\ tripped \in BOOLEAN /\ restarts \in Nat
  /\ exits \in [Starts -> [how : Hows, then : Callers]] /\ nested \subseteq 1..generation
  /\ caps \in 0..generation /\ op \in [Ops -> [gen : 0..generation, st : {"new", "waiting", "ended"}]]
  /\ pongs \in [Starts -> {"none", "written", "read"}]
  /\ answers \in [Ops -> {"none", "written", "read"}]
  /\ wanted \in BOOLEAN /\ refused \in BOOLEAN /\ calls \in 0..MaxCalls

\* core.vim:18-20: no exit that comes late, and no order of calls, exits and timers, makes
\* the supervisor lose a process that runs; but for one that a callback of OnExit
\* started inside an Ensure that was still to start its own.
OnlyNestedLost == \A g \in Starts : Alive(g) => g = job \/ g \in nested

\* core.vim:18-20 and 691: a replacement that a callback of OnExit has started is the only
\* daemon, and no second one is started beside it.
OneDaemon == \A g, h \in Starts : Alive(g) /\ Alive(h) => g = h

\* core.vim:881-894: what a dead daemon had written never becomes the session of
\* its replacement.
CapsOfCurrent == IsRunning => caps \in {0, job}

\* core.vim:24-26: within one window a daemon is restarted max_restarts times and
\* no more, unless somebody asks for it.
BreakerHolds == restarts <= MaxRestarts

\* core.vim:124-127: after a stop nothing starts until somebody asks again, whatever
\* was staged, scheduled or on its way; but for what comes of a daemon the stop could
\* not reach because it was lost.
OnlyWantedStarts == [][job' # job /\ job' # 0 => wanted']_vars

\* core.vim:830-838: who was told there is or will be a daemon gets one, unless it
\* is stopped, cannot be started (which is said) or crash-loops.
PromiseKept ==
  wanted /\ ~refused ~> \/ IsRunning /\ ~stopping
                        \/ ~wanted \/ refused \/ tripped \/ generation = MaxStarts

\* core.vim:951-952: a daemon that is stopped is gone in the end, even one that ignores
\* SIGTERM, unless it was lost.
StopEnds == \A g \in Starts : stopping /\ job = g ~> ~Alive(g) \/ g \in nested

\* simpletree.vim:1699-1700: a daemon that goes away ends every waiting fs_op.
OpsEnd == \A o \in Ops : op[o].st = "waiting" /\ ~Alive(op[o].gen) ~> op[o].st = "ended"
=============================================================================
