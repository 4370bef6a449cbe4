-------------------------- MODULE SupervisorProofs --------------------------
(***************************************************************************)
(* Proofs about Supervisor, for every restart limit, number of starts and  *)
(* number of operations: no process is lost but one that was started       *)
(* inside another start, the session is the daemon's own, the breaker      *)
(* holds, a start that was promised is coming, and a daemon that is being  *)
(* stopped is going.                                                       *)
(*                                                                         *)
(* The type invariant needs the breaker: crashes are counted up to one     *)
(* past the limit only because nothing runs once it is open.  The breaker  *)
(* needs the exit that is half way through: a restart that it is about to  *)
(* schedule belongs to a crash that is counted and has none yet.  All need *)
(* the calls that have not returned: a death that was noticed is that of   *)
(* the newest process, and nothing is started before its OnExit has run.   *)
(***************************************************************************)
EXTENDS Supervisor, TLAPS

ExitSet == [Starts -> [how : Hows, then : Callers]]
ProcSet == [Starts -> {"unborn", "running", "killed", "dead", "reaped"}]

\* The types of what a daemon is and of what the supervisor keeps about it.
CoreOK ==
  /\ proc \in ProcSet /\ exits \in ExitSet
  /\ generation \in 0..MaxStarts /\ job \in {0, generation}
  /\ caps \in 0..generation /\ restartAfterExit \in 0..generation
  /\ nested \subseteq 1..generation

CountsOK == crashes \in 0..(MaxRestarts + 1) /\ restarts \in Nat

TimersOK ==
  /\ timers \subseteq 1..generation
  /\ restartTimer \in timers \cup {0} /\ killTimer \in 0..generation

OthersOK ==
  /\ op \in [Ops -> [gen : 0..generation, st : {"new", "waiting", "ended"}]]
  /\ pongs \in [Starts -> {"none", "written", "read"}]
  /\ answers \in [Ops -> {"none", "written", "read"}]
  /\ calls \in 0..MaxCalls

FlagsOK ==
  stopping \in BOOLEAN /\ tripped \in BOOLEAN /\ wanted \in BOOLEAN /\ refused \in BOOLEAN

\* Only the process of the job lives, or one that was lost; those to come are not
\* born.  While an Ensure further out is still to start one the job is such a one.
JobRuns ==
  /\ \A g \in Starts : Alive(g) => g = job \/ g \in nested
  /\ \A g \in Starts : g > generation => proc[g] = "unborn"
  /\ job # 0 => proc[job] \in {"running", "killed", "dead"}
  /\ IsRunning /\ Pressed(exits) => job \in nested

\* The OnExits that have not returned: one that is to run is that of the newest process.
Frames ==
  \A g \in Starts :
    /\ Pending(g) => g <= generation
    /\ exits[g].how = "noticed" => g = generation /\ proc[g] = "dead"
    /\ exits[g].how \in Callbacks \cup {"done"} => proc[g] = "reaped"

\* An open breaker: what ran has exited, and the exit has been handled.
Closed ==
  /\ tripped /\ generation # 0 => proc[generation] \in {"unborn", "reaped"}
  /\ crashes = MaxRestarts + 1 => tripped

\* A restart about to be scheduled is for a crash that has none yet.
Owed(g) == g = generation /\ exits[g].how = "auto"

Counted ==
  /\ restarts <= crashes /\ restarts <= MaxRestarts
  /\ \A g \in Starts : Owed(g) => crashes <= MaxRestarts /\ (crashes = 0 \/ restarts < crashes)

Daemon == CoreOK /\ JobRuns /\ Frames /\ CapsOfCurrent /\ Closed

IInv == Daemon /\ CountsOK /\ TimersOK /\ OthersOK /\ FlagsOK /\ Counted

----------------------------------------------------------------------------
LEMMA InitStep == Init => IInv
<1> SUFFICES ASSUME Init PROVE IInv
  OBVIOUS
<1>1. MaxRestarts \in Nat /\ MaxStarts \in Nat /\ MaxCalls \in Nat
  BY SupervisorAssumption
<1>2. /\ exits = [g \in Starts |-> NoExit] /\ proc = [g \in Starts |-> "unborn"]
      /\ generation = 0 /\ job = 0 /\ caps = 0 /\ restartAfterExit = 0 /\ nested = {}
      /\ crashes = 0 /\ restarts = 0 /\ tripped = FALSE
  BY DEF Init
<1>3. CoreOK
  <2>1. exits \in ExitSet
    BY <1>2 DEF ExitSet, NoExit, Hows, Callers
  <2>2. QED
    BY <1>1, <1>2, <2>1 DEF CoreOK, ProcSet
<1>4. TimersOK /\ CountsOK
  BY <1>1, <1>2 DEF Init, TimersOK, CountsOK
<1>5. OthersOK /\ FlagsOK
  <2>1. op \in [Ops -> [gen : 0..generation, st : {"new", "waiting", "ended"}]]
    BY DEF Init
  <2>2. FlagsOK
    BY Zenon DEF Init, FlagsOK
  <2>3. pongs \in [Starts -> {"none", "written", "read"}] /\ answers \in [Ops -> {"none", "written", "read"}]
    BY DEF Init
  <2>4. calls = 0
    BY DEF Init
  <2>5. QED
    BY <1>1, <2>1, <2>2, <2>3, <2>4 DEF OthersOK
<1>6. JobRuns /\ CapsOfCurrent /\ Closed
  BY <1>1, <1>2 DEF JobRuns, CapsOfCurrent, Closed, Alive, IsRunning, Starts
<1>7. \A g \in Starts : exits[g].how = "not"
  BY <1>2 DEF NoExit
<1>8. Frames /\ Counted
  BY <1>1, <1>2, <1>7 DEF Frames, Counted, Owed, Pending, Callbacks
<1>9. QED
  BY <1>3, <1>4, <1>5, <1>6, <1>8 DEF IInv, Daemon

----------------------------------------------------------------------------
(* Calls that have not returned.                                           *)

\* No death is noticed whose OnExit has not run.
Quiet == \A g \in Starts : exits[g].how # "noticed"

LEMMA Facts ==
  ASSUME Daemon
  PROVE  /\ MaxStarts \in Nat /\ MaxRestarts \in Nat /\ generation \in Nat /\ generation <= MaxStarts
         /\ job \in {0, generation} /\ (job # 0 => job \in Starts /\ job = generation)
         /\ (generation # 0 => generation \in Starts)
         /\ proc \in ProcSet /\ exits \in ExitSet
BY SupervisorAssumption DEF Daemon, CoreOK, Starts

LEMMA IsQuiet ==
  ASSUME Daemon, Idle \/ MayCall \/ \E g \in Starts : Innermost(g) /\ exits[g].how # "noticed"
  PROVE  Quiet
<1> SUFFICES ASSUME NEW h \in Starts, exits[h].how = "noticed" PROVE FALSE
  BY DEF Quiet
<1>1. h = generation /\ Pending(h)
  BY DEF Daemon, Frames, Pending
<1>2. Innermost(h)
  BY <1>1 DEF Innermost, Daemon, Frames
<1>3. ~Idle /\ ~MayCall
  BY <1>1, <1>2 DEF Idle, MayCall, Callbacks
<1>4. ASSUME NEW g \in Starts, Innermost(g), exits[g].how # "noticed" PROVE FALSE
  <2>1. g \in Nat /\ h \in Nat
    BY DEF Starts
  <2>2. g <= h /\ h <= g
    BY <1>1, <1>2, <1>4 DEF Innermost
  <2>3. g = h
    BY <2>1, <2>2
  <2>4. QED
    BY <1>4, <2>3
<1>5. QED
  BY <1>3, <1>4

\* The calls ex are some of those that have not returned.
Within(ex) == ex \in ExitSet /\ \A h \in Starts : ex[h] = exits[h] \/ ex[h] = NoExit

LEMMA WithinFacts ==
  ASSUME NEW ex, Within(ex)
  PROVE  /\ Pressed(ex) => Pressed(exits)
         /\ \A h \in Starts : ex[h].how # "not" => ex[h] = exits[h]
BY DEF Within, Pressed, NoExit

LEMMA WithinExits == ASSUME Daemon PROVE Within(exits)
BY DEF Daemon, CoreOK, Within

LEMMA WithinReturned == ASSUME Daemon, NEW g \in Starts PROVE Within(Returned(g))
<1>1. NoExit \in [how : Hows, then : Callers]
  BY DEF NoExit, Hows, Callers
<1>2. exits \in [Starts -> [how : Hows, then : Callers]]
  BY DEF Daemon, CoreOK, ExitSet
<1>3. QED
  BY <1>1, <1>2 DEF Within, Returned, ExitSet

LEMMA NoticedFacts ==
  ASSUME NEW ex \in ExitSet, NEW g \in Starts, NEW then \in Callers, Noticed(ex, g, then)
  PROVE  /\ exits' \in ExitSet
         /\ exits'[g].how = "noticed" /\ exits'[g].then = then
         /\ \A h \in Starts : h # g => exits'[h] = ex[h]
<1>1. [how |-> "noticed", then |-> then] \in [how : Hows, then : Callers]
  BY DEF Hows
<1>2. QED
  BY <1>1 DEF Noticed, ExitSet

----------------------------------------------------------------------------
(* What a call does to processes and jobs.                                 *)

\* Nothing is done to processes and jobs, and calls return at most.
LEMMA StillStep ==
  ASSUME Daemon, UNCHANGED <<proc, generation, job, nested>>, caps' \in {caps, 0},
         restartAfterExit' \in 0..generation, Within(exits'), tripped' => tripped,
         crashes' = MaxRestarts + 1 => tripped'
  PROVE  Daemon'
<1>1. CoreOK'
  BY SupervisorAssumption DEF Daemon, CoreOK, Within
<1>2. Pressed(exits') => Pressed(exits)
  BY WithinFacts
<1>3. (Pressed(exits))' => Pressed(exits)
  BY <1>2 DEF Pressed
<1>4. JobRuns'
  BY <1>3 DEF Daemon, JobRuns, Alive, IsRunning
<1>5. \A h \in Starts : exits'[h].how # "not" => exits'[h] = exits[h]
  BY WithinFacts
<1>6. Frames'
  BY <1>5 DEF Daemon, Frames, Pending, Callbacks
<1>7. CapsOfCurrent' /\ Closed'
  BY DEF Daemon, CapsOfCurrent, IsRunning, Alive, Closed
<1>8. QED
  BY <1>1, <1>4, <1>6, <1>7 DEF Daemon

\* job_status() finds the newest process dead.
LEMMA NoticeStep ==
  ASSUME Daemon, Quiet, generation # 0, proc[generation] = "dead", NEW ex, Within(ex),
         NEW then \in Callers, Noticed(ex, generation, then),
         then \in {"ensure", "start"} => ~IsRunning,
         UNCHANGED <<proc, generation, job, nested>>, caps' \in {caps, 0},
         restartAfterExit' \in 0..generation, tripped' => tripped, crashes' = MaxRestarts + 1 => tripped'
  PROVE  Daemon'
<1>1. generation \in Starts /\ ex \in ExitSet
  BY Facts DEF Within
<1>2. /\ exits' \in ExitSet
      /\ exits'[generation].how = "noticed" /\ exits'[generation].then = then
      /\ \A h \in Starts : h # generation => exits'[h] = ex[h]
  BY <1>1, NoticedFacts
<1>3. /\ Pressed(ex) => Pressed(exits)
      /\ \A h \in Starts : ex[h].how # "not" => ex[h] = exits[h]
  BY WithinFacts
<1>4. CoreOK'
  BY <1>2, SupervisorAssumption DEF Daemon, CoreOK
<1>5. (Pressed(exits))' => Pressed(exits) \/ then \in {"ensure", "start"}
  BY <1>2, <1>3 DEF Pressed
<1>6. IsRunning' = IsRunning
  BY DEF IsRunning, Alive
<1>7. JobRuns'
  BY <1>5, <1>6 DEF Daemon, JobRuns, Alive
<1>8. Frames'
  <2> SUFFICES ASSUME NEW h \in Starts
               PROVE  /\ (exits'[h].how # "not") => h <= generation
                      /\ exits'[h].how = "noticed" => h = generation /\ proc[h] = "dead"
                      /\ exits'[h].how \in Callbacks \cup {"done"} => proc[h] = "reaped"
    BY DEF Frames, Pending
  <2>1. CASE h = generation
    BY <1>2, <2>1, Facts DEF Callbacks
  <2>2. CASE h # generation
    BY <1>2, <1>3, <2>2 DEF Daemon, Frames, Pending, Quiet, Callbacks
  <2>3. QED
    BY <2>1, <2>2
<1>9. CapsOfCurrent' /\ Closed'
  BY DEF Daemon, CapsOfCurrent, IsRunning, Alive, Closed
<1>10. QED
  BY <1>4, <1>7, <1>8, <1>9 DEF Daemon

\* What the attempts to start a daemon leave alone.
Later == generation' \in generation..MaxStarts /\ \A g \in Starts : Owed(g)' => Owed(g)

LEMMA JobStartStep ==
  ASSUME Daemon, Quiet, NEW ex, Within(ex), IsRunning => job \in nested, ~tripped',
         crashes' # MaxRestarts + 1, JobStart(ex)
  PROVE  Daemon' /\ Later
<1> DEFINE n == generation + 1
<1>1. /\ MaxStarts \in Nat /\ generation \in Nat /\ n \in Starts /\ n > generation /\ generation' = n
      /\ proc \in ProcSet /\ proc[n] = "unborn" /\ job \in {0, generation} /\ n \notin nested
      /\ generation # 0 => generation \in Starts
  BY SupervisorAssumption DEF JobStart, Daemon, CoreOK, JobRuns, Starts
<1>2. /\ Pressed(ex) => Pressed(exits)
      /\ \A h \in Starts : ex[h].how # "not" => ex[h] = exits[h]
      /\ ex \in ExitSet
  BY WithinFacts DEF Within
<1>3. \A h \in Starts : ex[h].how # "not" => h <= generation /\ ex[h].how # "noticed"
                          /\ (ex[h].how \in Callbacks \cup {"done"} => proc[h] = "reaped")
  BY <1>2 DEF Daemon, Frames, Pending, Quiet
<1>4. \A h \in Starts : Alive(h) => h \in nested
  BY <1>1 DEF Daemon, JobRuns, IsRunning, Starts
<1>5. 0..generation \subseteq 0..n /\ 1..generation \subseteq 1..n /\ n \in 1..n /\ 0 \in 0..n
  BY <1>1
<1>6. caps \in 0..generation /\ restartAfterExit \in 0..generation /\ nested \subseteq 1..generation
  BY DEF Daemon, CoreOK
<1>7. ex[n].how = "not"
  BY <1>1, <1>3
<1>8. generation' \in generation..MaxStarts /\ n \in 0..MaxStarts
  BY <1>1 DEF Starts
<1> HIDE DEF n
<1>9. Closed'
  BY DEF Closed
<1>10. CASE /\ job' = n /\ proc' = [proc EXCEPT ![n] = "running"]
            /\ restartAfterExit' = 0 /\ caps' = 0
            /\ nested' = (IF Pressed(ex) THEN nested \cup {n} ELSE nested) /\ exits' = ex
  <2>1. proc' \in ProcSet /\ proc'[n] = "running" /\ \A h \in Starts : h # n => proc'[h] = proc[h]
    BY <1>1, <1>10 DEF ProcSet
  <2>2. CoreOK'
    BY <1>1, <1>2, <1>5, <1>6, <1>8, <1>10, <2>1 DEF CoreOK
  <2>3. (Pressed(exits))' => n \in nested'
    BY <1>10 DEF Pressed
  <2>4. \A g \in Starts : Alive(g)' => g = job' \/ g \in nested'
    BY <1>4, <1>10, <2>1 DEF Alive
  <2>5. JobRuns'
    BY <1>1, <1>10, <2>1, <2>3, <2>4 DEF JobRuns, Daemon, Starts
  <2>6. Frames'
    <3> SUFFICES ASSUME NEW h \in Starts
                 PROVE  /\ (ex[h].how # "not") => h <= n
                        /\ ex[h].how # "noticed"
                        /\ ex[h].how \in Callbacks \cup {"done"} => proc'[h] = "reaped"
      BY <1>1, <1>10 DEF Frames, Pending
    <3>1. h <= generation => h <= n
      BY <1>1 DEF Starts
    <3>2. QED
      BY <1>3, <1>7, <2>1, <3>1 DEF Callbacks
  <2>7. CapsOfCurrent'
    BY <1>10 DEF CapsOfCurrent
  <2>8. \A g \in Starts : ~Owed(g)'
    BY <1>1, <1>7, <1>10 DEF Owed
  <2>9. QED
    BY <1>8, <1>9, <2>2, <2>5, <2>6, <2>7, <2>8 DEF Daemon, Later
<1>11. CASE job' = 0 /\ exits' = ex /\ UNCHANGED <<proc, restartAfterExit, caps, nested>>
  <2>1. CoreOK'
    BY <1>1, <1>2, <1>5, <1>6, <1>8, <1>11 DEF CoreOK
  <2>2. JobRuns'
    BY <1>1, <1>4, <1>11 DEF JobRuns, Daemon, Alive, IsRunning, Starts
  <2>3. Frames'
    <3>1. \A h \in Starts : h <= generation => h <= n
      BY <1>1 DEF Starts
    <3>2. SUFFICES ASSUME NEW h \in Starts
                   PROVE  /\ (ex[h].how # "not") => h <= n
                          /\ ex[h].how # "noticed"
                          /\ ex[h].how \in Callbacks \cup {"done"} => proc[h] = "reaped"
      BY <1>1, <1>11 DEF Frames, Pending
    <3>3. QED
      BY <1>3, <3>1 DEF Callbacks
  <2>4. CapsOfCurrent'
    BY <1>11 DEF CapsOfCurrent, IsRunning
  <2>5. \A g \in Starts : ~Owed(g)'
    BY <1>1, <1>7, <1>11 DEF Owed
  <2>6. QED
    BY <1>8, <1>9, <2>1, <2>2, <2>3, <2>4, <2>5 DEF Daemon, Later
<1>12. CASE /\ job' = 0 /\ proc' = [proc EXCEPT ![n] = "dead"] /\ Noticed(ex, n, "start")
            /\ UNCHANGED <<restartAfterExit, caps, nested>>
  <2>1. proc' \in ProcSet /\ proc'[n] = "dead" /\ \A h \in Starts : h # n => proc'[h] = proc[h]
    BY <1>1, <1>12 DEF ProcSet
  <2>2. /\ exits' \in ExitSet /\ exits'[n].how = "noticed"
        /\ \A h \in Starts : h # n => exits'[h] = ex[h]
    BY <1>1, <1>2, <1>12, NoticedFacts DEF Callers
  <2>3. CoreOK'
    BY <1>1, <1>5, <1>6, <1>8, <1>12, <2>1, <2>2 DEF CoreOK
  <2>4. JobRuns'
    BY <1>1, <1>4, <1>12, <2>1 DEF JobRuns, Daemon, Alive, IsRunning, Starts
  <2>5. Frames'
    <3> SUFFICES ASSUME NEW h \in Starts
                 PROVE  /\ (exits'[h].how # "not") => h <= n
                        /\ exits'[h].how = "noticed" => h = n /\ proc'[h] = "dead"
                        /\ exits'[h].how \in Callbacks \cup {"done"} => proc'[h] = "reaped"
      BY <1>1 DEF Frames, Pending
    <3>1. CASE h = n
      BY <1>1, <2>1, <2>2, <3>1 DEF Callbacks, Starts
    <3>2. CASE h # n
      <4>1. exits'[h] = ex[h] /\ proc'[h] = proc[h] /\ h \in Nat
        BY <2>1, <2>2, <3>2 DEF Starts
      <4>2. h <= generation => h <= n
        BY <1>1, <4>1 DEF Starts
      <4>3. QED
        BY <1>3, <4>1, <4>2 DEF Callbacks
    <3>3. QED
      BY <3>1, <3>2
  <2>6. CapsOfCurrent'
    BY <1>12 DEF CapsOfCurrent, IsRunning
  <2>7. \A g \in Starts : ~Owed(g)'
    BY <1>1, <2>2 DEF Owed
  <2>8. QED
    BY <1>8, <1>9, <2>3, <2>4, <2>5, <2>6, <2>7 DEF Daemon, Later
<1>13. QED
  BY <1>10, <1>11, <1>12 DEF JobStart, n

LEMMA EnsureStartStep ==
  ASSUME Daemon, Quiet, NEW ex, Within(ex), IsRunning => job \in nested,
         NEW b \in BOOLEAN, b = tripped', tripped' => tripped, crashes' = MaxRestarts + 1 => tripped',
         EnsureStart(ex, b)
  PROVE  Daemon' /\ Later
<1>1. CASE Refuse /\ exits' = ex
  <2>1. UNCHANGED <<proc, generation, job, nested, caps, restartAfterExit>>
    BY <1>1 DEF Refuse, jobVars
  <2>2. Within(exits') /\ restartAfterExit' \in 0..generation /\ caps' \in {caps, 0}
    BY <1>1, <2>1 DEF Daemon, CoreOK
  <2>3. Daemon'
    BY <2>1, <2>2, StillStep
  <2>4. \A h \in Starts : ex[h].how # "not" => ex[h] = exits[h]
    BY WithinFacts
  <2>5. Later
    BY <1>1, <2>1, <2>4, Facts DEF Later, Owed
  <2>6. QED
    BY <2>3, <2>5
<1>2. CASE ~b /\ JobStart(ex)
  <2>1. ~tripped' /\ crashes' # MaxRestarts + 1
    BY <1>2
  <2>2. QED
    BY <1>2, <2>1, JobStartStep
<1>3. QED
  BY <1>1, <1>2 DEF EnsureStart

LEMMA EnsureStep ==
  ASSUME Daemon, Quiet, NEW ex, Within(ex),
         NEW b \in BOOLEAN, b = tripped', tripped' => tripped, crashes' = MaxRestarts + 1 => tripped',
         Ensure(ex, b)
  PROVE  Daemon' /\ Later
<1>1. CASE Unnoticed /\ Noticed(ex, job, "ensure") /\ UNCHANGED <<proc, jobVars, caps, nested>>
  <2>1. /\ UNCHANGED <<proc, generation, job, nested>> /\ caps' \in {caps, 0}
        /\ restartAfterExit' \in 0..generation /\ "ensure" \in Callers
    BY <1>1 DEF jobVars, Daemon, CoreOK, Callers
  <2>2. job = generation /\ generation \in Starts /\ generation # 0 /\ proc[generation] = "dead" /\ ~IsRunning
    BY <1>1, Facts DEF Unnoticed, IsRunning, Alive
  <2>3. Daemon'
    BY <1>1, <2>1, <2>2, NoticeStep
  <2>4. /\ exits'[generation].how = "noticed"
        /\ \A h \in Starts : h # generation => exits'[h] = ex[h]
    BY <1>1, <2>1, <2>2, NoticedFacts DEF Within
  <2>5. Later
    BY <2>1, <2>4, Facts DEF Later, Owed
  <2>6. QED
    BY <2>3, <2>5
<1>2. CASE ~Unnoticed /\ EnsureAnswers(ex, b)
  <2>1. CASE /\ exits' = ex /\ UNCHANGED <<proc, generation, job, caps, nested>>
             /\ restartAfterExit' \in {restartAfterExit, generation}
    <3>1. Within(exits') /\ restartAfterExit' \in 0..generation /\ caps' \in {caps, 0}
      BY <2>1, Facts DEF Daemon, CoreOK
    <3>2. Daemon'
      BY <2>1, <3>1, StillStep
    <3>3. \A h \in Starts : ex[h].how # "not" => ex[h] = exits[h]
      BY WithinFacts
    <3>4. Later
      BY <2>1, <3>3, Facts DEF Later, Owed
    <3>5. QED
      BY <3>2, <3>4
  <2>2. CASE ~IsRunning /\ EnsureStart(ex, b)
    BY <2>2, EnsureStartStep
  <2>3. QED
    BY <1>2, <2>1, <2>2 DEF EnsureAnswers, Refuse, jobVars
<1>3. QED
  BY <1>1, <1>2 DEF Ensure, askVars

LEMMA StartFlags ==
  ASSUME FlagsOK, NEW ex, NEW b \in BOOLEAN, EnsureStart(ex, b)
  PROVE  stopping' \in BOOLEAN /\ refused' \in BOOLEAN
BY Zenon DEF FlagsOK, EnsureStart, Refuse, JobStart, jobVars

LEMMA EnsureFlags ==
  ASSUME FlagsOK, NEW ex, NEW b \in BOOLEAN, Ensure(ex, b)
  PROVE  stopping' \in BOOLEAN /\ refused' \in BOOLEAN /\ wanted' \in BOOLEAN
<1>1. CASE UNCHANGED <<jobVars, askVars>>
  BY <1>1 DEF FlagsOK, jobVars, askVars
<1>2. CASE EnsureAnswers(ex, b)
  <2>1. CASE EnsureStart(ex, b)
    BY <1>2, <2>1, StartFlags, Zenon DEF EnsureAnswers
  <2>2. CASE ~EnsureStart(ex, b)
    BY <1>2, <2>2, Zenon DEF EnsureAnswers, Refuse, FlagsOK, jobVars
  <2>3. QED
    BY <2>1, <2>2
<1>3. QED
  BY <1>1, <1>2 DEF Ensure

\* What StopInternal does to the job.
LEMMA StopInternalStep ==
  ASSUME CoreOK, TimersOK, NEW r \in BOOLEAN, StopInternal(r)
  PROVE  /\ UNCHANGED <<generation, job>> /\ restartAfterExit' \in 0..generation
         /\ timers' \subseteq timers /\ restartTimer' = 0
         /\ killTimer' \in {killTimer, generation}
BY SupervisorAssumption DEF StopInternal, CoreOK, TimersOK

LEMMA StopFlags ==
  ASSUME FlagsOK, NEW r \in BOOLEAN, StopInternal(r)
  PROVE  stopping' \in BOOLEAN
BY Zenon DEF FlagsOK, StopInternal

LEMMA LostFlag == Lost \in BOOLEAN
BY DEF Lost

LEMMA FailStep ==
  ASSUME IInv, NEW next, FailPendingFsOps(next)
  PROVE  op' \in [Ops -> [gen : 0..generation, st : {"new", "waiting", "ended"}]]
BY SupervisorAssumption DEF IInv, Daemon, CoreOK, OthersOK, FailPendingFsOps, Waiting

\* What a step that starts a process, or does not, leaves to be shown.
LEMMA GrowStep ==
  ASSUME IInv, generation' \in generation..MaxStarts, UNCHANGED <<op, pongs, answers>>,
         timers' \subseteq timers, restartTimer' \in timers' \cup {0},
         killTimer' \in {killTimer, 0, generation}, calls' \in 0..MaxCalls
  PROVE  TimersOK' /\ OthersOK'
<1>1. MaxStarts \in Nat /\ generation \in Nat /\ generation' \in Nat /\ generation <= generation'
  BY SupervisorAssumption DEF IInv, Daemon, CoreOK
<1>2. 0..generation \subseteq 0..generation' /\ 1..generation \subseteq 1..generation'
  BY <1>1
<1>3. TimersOK'
  BY <1>1, <1>2 DEF IInv, TimersOK
<1>4. OthersOK'
  <2>1. op' \in [Ops -> [gen : 0..generation', st : {"new", "waiting", "ended"}]]
    BY <1>2 DEF IInv, OthersOK
  <2>2. QED
    BY <2>1 DEF IInv, OthersOK
<1>5. QED
  BY <1>3, <1>4

\* The same counts, and no restart that was not owed.
LEMMA CountedStep ==
  ASSUME IInv, UNCHANGED <<crashes, restarts>>, \A g \in Starts : Owed(g)' => Owed(g)
  PROVE  CountsOK' /\ Counted'
BY DEF IInv, CountsOK, Counted

\* The counts as Ensure finds them.
LEMMA Breaker ==
  ASSUME IInv, UNCHANGED <<crashes, tripped>>
  PROVE  /\ tripped \in BOOLEAN /\ tripped = tripped' /\ (tripped' => tripped)
         /\ (crashes' = MaxRestarts + 1 => tripped')
BY DEF IInv, FlagsOK, Daemon, Closed

LEMMA CallEnsureStep == IInv /\ CallEnsure => IInv'
<1> SUFFICES ASSUME IInv, CallEnsure PROVE IInv'
  OBVIOUS
<1>1. /\ Ensure(exits, tripped) /\ MayCall
      /\ UNCHANGED <<crashes, tripped, restarts, timers, restartTimer, killTimer, op, pongs, answers>>
  BY DEF CallEnsure, Call, policyVars, timerVars
<1>2. calls' \in 0..MaxCalls
  BY SupervisorAssumption DEF CallEnsure, Call, IInv, OthersOK
<1>3. Daemon
  BY DEF IInv
<1>4. Quiet /\ Within(exits)
  BY <1>1, <1>3, IsQuiet, WithinExits
<1>5. Daemon' /\ Later
  BY <1>1, <1>3, <1>4, EnsureStep, Breaker
<1>6. TimersOK' /\ OthersOK'
  BY <1>1, <1>2, <1>5, GrowStep DEF IInv, TimersOK, Later
<1>7. FlagsOK'
  BY <1>1, EnsureFlags, Zenon DEF IInv, FlagsOK
<1>8. CountsOK' /\ Counted'
  BY <1>1, <1>5, CountedStep DEF Later
<1>9. QED
  BY <1>5, <1>6, <1>7, <1>8 DEF IInv

\* A stop, in whatever call: the breaker may start again, and caps are reset.
LEMMA StopStep ==
  ASSUME IInv, NEW r \in BOOLEAN, StopInternal(r), Within(exits'), UNCHANGED <<proc, nested>>,
         caps' = 0, tripped' => tripped, crashes' = MaxRestarts + 1 => tripped'
  PROVE  Daemon' /\ TimersOK' /\ UNCHANGED generation
<1>1. Daemon /\ CoreOK /\ TimersOK
  BY DEF IInv, Daemon
<1>2. /\ UNCHANGED <<generation, job>> /\ restartAfterExit' \in 0..generation
      /\ timers' \subseteq timers /\ restartTimer' = 0
      /\ killTimer' \in {killTimer, generation}
  BY <1>1, StopInternalStep
<1>3. caps' \in {caps, 0}
  OBVIOUS
<1>4. Daemon'
  BY <1>1, <1>2, <1>3, StillStep
<1>5. TimersOK'
  BY <1>1, <1>2, Facts DEF TimersOK
<1>6. QED
  BY <1>2, <1>4, <1>5

LEMMA CallStopStep == IInv /\ CallStop => IInv'
<1> SUFFICES ASSUME IInv, CallStop PROVE IInv'
  OBVIOUS
<1>1. MayCall /\ UNCHANGED <<proc, crashes, tripped, restarts, refused, nested, pongs, answers>>
  BY DEF CallStop, Call, policyVars
<1>2. Daemon /\ Quiet /\ Within(exits)
  BY <1>1, IsQuiet, WithinExits DEF IInv
<1>3. op' \in [Ops -> [gen : 0..generation, st : {"new", "waiting", "ended"}]]
  <2>1. ASSUME NEW o, FailPendingFsOps({o})
        PROVE  op' \in [Ops -> [gen : 0..generation, st : {"new", "waiting", "ended"}]]
    BY <2>1, FailStep
  <2>2. QED
    BY <2>1, FailStep DEF CallStop
<1>4. calls' \in 0..MaxCalls
  BY SupervisorAssumption DEF CallStop, Call, IInv, OthersOK
<1>5. generation' = generation => OthersOK'
  BY <1>1, <1>3, <1>4 DEF IInv, OthersOK
<1>6. /\ (tripped' => tripped) /\ (crashes' = MaxRestarts + 1 => tripped')
  BY <1>1, Breaker
<1>7. CASE Stop /\ exits' = exits
  <2>1. Daemon' /\ TimersOK' /\ generation' = generation
    BY <1>1, <1>2, <1>6, <1>7, StopStep DEF Stop
  <2>2. wanted' = Lost /\ StopInternal(FALSE)
    BY <1>7 DEF Stop
  <2>3. FlagsOK'
    BY <1>1, <2>2, LostFlag, StopFlags, Zenon DEF IInv, FlagsOK
  <2>4. CountsOK' /\ Counted'
    BY <1>1, <1>7, <2>1, CountedStep DEF Owed
  <2>5. QED
    BY <1>5, <2>1, <2>3, <2>4 DEF IInv
<1>8. CASE Unnoticed /\ Noticed(exits, job, "stop") /\ UNCHANGED <<timerVars, jobVars, caps, wanted>>
  <2>1. UNCHANGED <<timers, restartTimer, killTimer, generation, job, stopping, restartAfterExit, caps, wanted>>
    BY <1>8 DEF timerVars, jobVars
  <2>2. job = generation /\ generation \in Starts /\ generation # 0 /\ proc[generation] = "dead"
    BY <1>2, <1>8, Facts DEF Unnoticed
  <2>3. restartAfterExit' \in 0..generation /\ caps' \in {caps, 0} /\ "stop" \in Callers
    BY <2>1 DEF IInv, Daemon, CoreOK, Callers
  <2>4. Daemon'
    BY <1>1, <1>2, <1>6, <1>8, <2>1, <2>2, <2>3, NoticeStep
  <2>5. TimersOK' /\ FlagsOK'
    BY <1>1, <2>1 DEF IInv, TimersOK, FlagsOK
  <2>6. \A g \in Starts : Owed(g)' => Owed(g)
    <3>1. exits \in ExitSet
      BY <1>2 DEF Within
    <3>2. /\ exits'[generation].how = "noticed"
          /\ \A h \in Starts : h # generation => exits'[h] = exits[h]
      BY <1>8, <2>2, <2>3, <3>1, NoticedFacts
    <3>3. QED
      BY <2>1, <3>2 DEF Owed
  <2>7. CountsOK' /\ Counted'
    BY <1>1, <2>6, CountedStep
  <2>8. QED
    BY <1>5, <2>1, <2>4, <2>5, <2>7 DEF IInv
<1>9. QED
  BY <1>7, <1>8 DEF CallStop

\* The counts start again, and with them the breaker.
LEMMA CallRestartStep == IInv /\ CallRestart => IInv'
<1> SUFFICES ASSUME IInv, CallRestart PROVE IInv'
  OBVIOUS
<1>1. /\ MayCall /\ crashes' = 0 /\ tripped' = FALSE /\ restarts' = 0 /\ caps' = 0
      /\ UNCHANGED <<op, pongs, answers>>
  BY DEF CallRestart, Call, ResetBackoff
<1>2. MaxRestarts \in Nat /\ calls' \in 0..MaxCalls
  BY SupervisorAssumption DEF CallRestart, Call, IInv, OthersOK
<1>3. Counted' /\ CountsOK'
  BY <1>1, <1>2 DEF Counted, CountsOK
<1>4. Daemon /\ Quiet /\ Within(exits)
  BY <1>1, IsQuiet, WithinExits DEF IInv
<1>5. (tripped' => tripped) /\ (crashes' = MaxRestarts + 1 => tripped') /\ caps' \in {caps, 0}
  BY <1>1, <1>2
<1>6. generation' = generation => OthersOK'
  BY <1>1, <1>2 DEF IInv, OthersOK
<1>7. CASE IsRunning /\ StopInternal(TRUE) /\ wanted' = TRUE /\ refused' = FALSE /\ exits' = exits /\ UNCHANGED <<proc, nested>>
  <2>1. Daemon' /\ TimersOK' /\ generation' = generation
    BY <1>1, <1>4, <1>5, <1>7, StopStep
  <2>2. FlagsOK'
    BY <1>1, <1>7, StopFlags, Zenon DEF IInv, FlagsOK
  <2>3. QED
    BY <1>3, <1>6, <2>1, <2>2 DEF IInv
<1>8. CASE Unnoticed /\ Noticed(exits, job, "restart") /\ UNCHANGED <<proc, jobVars, timerVars, askVars, nested>>
  <2>1. UNCHANGED <<timers, restartTimer, killTimer, generation, job, stopping, restartAfterExit, wanted, refused, proc, nested>>
    BY <1>8 DEF timerVars, jobVars, askVars
  <2>2. job = generation /\ generation \in Starts /\ generation # 0 /\ proc[generation] = "dead"
    BY <1>4, <1>8, Facts DEF Unnoticed
  <2>3. restartAfterExit' \in 0..generation /\ "restart" \in Callers
    BY <2>1 DEF IInv, Daemon, CoreOK, Callers
  <2>4. Daemon'
    BY <1>4, <1>5, <1>8, <2>1, <2>2, <2>3, NoticeStep
  <2>5. TimersOK' /\ FlagsOK'
    BY <1>1, <2>1 DEF IInv, TimersOK, FlagsOK
  <2>6. QED
    BY <1>3, <1>6, <2>1, <2>4, <2>5 DEF IInv
<1>9. CASE Ensure(exits, FALSE) /\ UNCHANGED timerVars
  <2>1. FALSE \in BOOLEAN /\ FALSE = tripped'
    BY <1>1
  <2>2. Daemon' /\ Later
    BY <1>4, <1>5, <1>9, <2>1, EnsureStep
  <2>3. FlagsOK'
    BY <1>1, <1>9, EnsureFlags, Zenon DEF IInv, FlagsOK
  <2>4. TimersOK' /\ OthersOK'
    BY <1>1, <1>2, <1>9, <2>2, GrowStep DEF IInv, TimersOK, timerVars, Later
  <2>5. QED
    BY <1>3, <2>2, <2>3, <2>4 DEF IInv
<1>10. QED
  BY <1>7, <1>8, <1>9 DEF CallRestart

LEMMA RestartTimerStep == \A g \in Starts : IInv /\ RestartTimer(g) => IInv'
<1> SUFFICES ASSUME IInv, NEW g \in Starts, RestartTimer(g) PROVE IInv'
  OBVIOUS
<1>1. /\ Idle /\ timers' = timers \ {g} /\ restartTimer' = 0
      /\ UNCHANGED <<pongs, answers, crashes, tripped, restarts, killTimer, op, wanted, calls>>
  BY DEF RestartTimer, policyVars
<1>2. Daemon /\ Quiet /\ Within(exits)
  BY <1>1, IsQuiet, WithinExits DEF IInv
<1>3. Daemon' /\ Later /\ FlagsOK'
  <2>1. CASE ~IsRunning /\ EnsureStart(exits, tripped)
    <3>1. Daemon' /\ Later
      BY <1>1, <1>2, <2>1, EnsureStartStep, Breaker
    <3>2. FlagsOK'
      BY <1>1, <2>1, StartFlags, Zenon DEF IInv, FlagsOK
    <3>3. QED
      BY <3>1, <3>2
  <2>2. CASE UNCHANGED <<proc, jobVars, caps, refused, exitVars>>
    <3>1. UNCHANGED <<proc, generation, job, stopping, restartAfterExit, caps, refused, exits, nested>>
      BY <2>2 DEF jobVars, exitVars
    <3>2. restartAfterExit' \in 0..generation /\ caps' \in {caps, 0} /\ Within(exits')
      BY <1>2, <3>1 DEF Daemon, CoreOK
    <3>3. Daemon'
      BY <1>1, <1>2, <3>1, <3>2, StillStep, Breaker
    <3>4. Later
      BY <1>2, <3>1, Facts DEF Later, Owed
    <3>5. FlagsOK'
      BY <1>1, <3>1 DEF IInv, FlagsOK
    <3>6. QED
      BY <3>3, <3>4, <3>5
  <2>3. QED
    BY <2>1, <2>2 DEF RestartTimer
<1>4. TimersOK' /\ OthersOK'
  BY <1>1, <1>3, GrowStep DEF IInv, OthersOK, Later
<1>5. CountsOK' /\ Counted'
  BY <1>1, <1>3, CountedStep DEF Later
<1>6. QED
  BY <1>3, <1>4, <1>5 DEF IInv

----------------------------------------------------------------------------
(* Timers, exits and processes.                                            *)

\* A process dies, is killed, or its exit has been handled.
LEMMA ProcStep ==
  ASSUME Daemon, NEW g \in Starts, NEW s \in {"killed", "dead", "reaped"},
         proc' = [proc EXCEPT ![g] = s], proc[g] \in {"running", "killed", "dead"},
         s = "killed" => proc[g] = "running", s = "dead" => Alive(g),
         s = "reaped" => proc[g] = "dead" /\ g # generation /\ exits[g].how = "not",
         UNCHANGED <<generation, job, nested, exits, caps, crashes, tripped>>,
         restartAfterExit' \in {restartAfterExit, 0}
  PROVE  Daemon'
<1>1. /\ proc' \in ProcSet /\ proc'[g] = s /\ \A h \in Starts : h # g => proc'[h] = proc[h]
  BY DEF Daemon, CoreOK, ProcSet
<1>2. CoreOK'
  BY <1>1, SupervisorAssumption DEF Daemon, CoreOK
<1>3. \A h \in Starts : Alive(h)' => Alive(h)
  BY <1>1 DEF Alive
<1>4. (Pressed(exits))' = Pressed(exits) /\ (IsRunning' => IsRunning)
  BY <1>3, Facts DEF Pressed, IsRunning
<1>5. JobRuns'
  BY <1>1, <1>3, <1>4, Facts DEF Daemon, JobRuns
<1>6. Frames'
  BY <1>1 DEF Daemon, Frames, Pending, Alive, Callbacks
<1>7. CapsOfCurrent' /\ Closed'
  BY <1>1, <1>4, Facts DEF Daemon, CapsOfCurrent, Closed, Alive
<1>8. QED
  BY <1>2, <1>5, <1>6, <1>7 DEF Daemon

\* The counts, flags and lines stay as they are.
LEMMA RestStep ==
  ASSUME IInv, Daemon',
         UNCHANGED <<generation, crashes, restarts, timers, restartTimer, op, pongs, answers,
                     calls, stopping, tripped, wanted, refused>>,
         killTimer' \in {killTimer, 0}, \A g \in Starts : Owed(g)' => Owed(g)
  PROVE  IInv'
<1>1. CountsOK' /\ Counted'
  BY CountedStep
<1>2. TimersOK' /\ OthersOK' /\ FlagsOK'
  BY SupervisorAssumption DEF IInv, Daemon, CoreOK, TimersOK, OthersOK, FlagsOK
<1>3. QED
  BY <1>1, <1>2 DEF IInv

LEMMA KillTimerStep == IInv /\ KillTimer => IInv'
<1> SUFFICES ASSUME IInv, KillTimer PROVE IInv'
  OBVIOUS
<1>1. /\ killTimer # 0 /\ killTimer' = 0
      /\ UNCHANGED <<pongs, answers, crashes, tripped, restarts, timers, restartTimer, generation, job,
                     stopping, restartAfterExit, caps, op, wanted, refused, calls, exits, nested>>
  BY DEF KillTimer, policyVars, jobVars, sessionVars, askVars, exitVars
<1>2. Daemon /\ \A g \in Starts : Owed(g)' => Owed(g)
  BY <1>1 DEF IInv, Owed
<1>3. CASE proc' = proc
  <2>1. Within(exits') /\ restartAfterExit' \in 0..generation /\ caps' \in {caps, 0}
    BY <1>1, <1>2, WithinExits DEF Daemon, CoreOK
  <2>2. Daemon'
    BY <1>1, <1>2, <1>3, <2>1, StillStep, Breaker
  <2>3. QED
    BY <1>1, <1>2, <2>2, RestStep
<1>4. CASE killTimer = generation /\ proc[killTimer] = "running" /\ proc' = [proc EXCEPT ![killTimer] = "killed"]
  <2>1. Daemon'
    BY <1>1, <1>2, <1>4, Facts, ProcStep
  <2>2. QED
    BY <1>1, <1>2, <2>1, RestStep
<1>5. QED
  BY <1>3, <1>4 DEF KillTimer

LEMMA NoticeDone == IInv /\ Notice => IInv'
<1> SUFFICES ASSUME IInv, Notice PROVE IInv'
  OBVIOUS
<1>1. /\ MayCall /\ generation # 0 /\ proc[generation] = "dead" /\ Noticed(exits, generation, "return")
      /\ UNCHANGED <<proc, pongs, answers, crashes, tripped, restarts, timers, restartTimer, killTimer, generation,
                     job, stopping, restartAfterExit, caps, op, wanted, refused, calls, nested>>
  BY DEF Notice, processVars, policyVars, timerVars, jobVars, sessionVars, askVars
<1>2. Daemon /\ Quiet /\ Within(exits) /\ generation \in Starts
  BY <1>1, IsQuiet, WithinExits, Facts DEF IInv
<1>3. restartAfterExit' \in 0..generation /\ caps' \in {caps, 0} /\ "return" \in Callers
  BY <1>1, <1>2 DEF Daemon, CoreOK, Callers
<1>4. Daemon'
  BY <1>1, <1>2, <1>3, NoticeStep, Breaker
<1>5. /\ exits'[generation].how = "noticed"
      /\ \A h \in Starts : h # generation => exits'[h] = exits[h]
  BY <1>1, <1>2, <1>3, NoticedFacts DEF Within
<1>6. QED
  BY <1>1, <1>4, <1>5, RestStep DEF Owed

LEMMA DiesStep == \A g \in Starts : IInv /\ Dies(g) => IInv'
<1> SUFFICES ASSUME IInv, NEW g \in Starts, Dies(g) PROVE IInv'
  OBVIOUS
<1>1. /\ Alive(g) /\ proc' = [proc EXCEPT ![g] = "dead"]
      /\ UNCHANGED <<pongs, answers, crashes, tripped, restarts, timers, restartTimer, killTimer, generation, job,
                     stopping, restartAfterExit, caps, op, wanted, refused, calls, exits, nested>>
  BY DEF Dies, policyVars, timerVars, jobVars, sessionVars, askVars, exitVars
<1>2. proc[g] \in {"running", "killed", "dead"}
  BY <1>1 DEF Alive
<1>3. Daemon'
  BY <1>1, <1>2, ProcStep DEF IInv
<1>4. QED
  BY <1>1, <1>3, RestStep DEF Owed

LEMMA StaleExitStep == \A g \in Starts : IInv /\ StaleExit(g) => IInv'
<1> SUFFICES ASSUME IInv, NEW g \in Starts, StaleExit(g) PROVE IInv'
  OBVIOUS
<1>1. /\ Idle /\ proc[g] = "dead" /\ g # generation /\ proc' = [proc EXCEPT ![g] = "reaped"]
      /\ restartAfterExit' \in {restartAfterExit, 0}
      /\ UNCHANGED <<pongs, answers, crashes, tripped, restarts, timers, restartTimer, killTimer, generation,
                     job, stopping, caps, op, wanted, refused, calls, exits, nested>>
  BY DEF StaleExit, policyVars, timerVars, sessionVars, askVars, exitVars
<1>2. exits[g].how = "not"
  BY <1>1 DEF Idle, Pending
<1>3. Daemon'
  BY <1>1, <1>2, ProcStep DEF IInv
<1>4. QED
  BY <1>1, <1>3, RestStep DEF Owed

\* The oldest crash leaves the window, and the restart that answered it.
LEMMA CrashAgesStep == IInv /\ CrashAges => IInv'
<1> SUFFICES ASSUME IInv, CrashAges PROVE IInv'
  OBVIOUS
<1>1. /\ Idle /\ crashes > 0 /\ crashes' = crashes - 1
      /\ restarts' = IF restarts > 0 THEN restarts - 1 ELSE 0
      /\ UNCHANGED <<proc, pongs, answers, tripped, timers, restartTimer, killTimer, generation, job,
                     stopping, restartAfterExit, caps, op, wanted, refused, calls, exits, nested>>
  BY DEF CrashAges, processVars, timerVars, jobVars, sessionVars, askVars, exitVars
<1>2. crashes \in 0..(MaxRestarts + 1) /\ restarts \in Nat /\ MaxRestarts \in Nat
  BY SupervisorAssumption DEF IInv, CountsOK
<1>3. crashes' \in 0..(MaxRestarts + 1) /\ crashes' # MaxRestarts + 1 /\ restarts' \in Nat
  BY <1>1, <1>2
<1>4. TimersOK' /\ OthersOK' /\ FlagsOK'
  BY <1>1 DEF IInv, TimersOK, OthersOK, FlagsOK
<1>5. Daemon /\ Within(exits') /\ restartAfterExit' \in 0..generation /\ caps' \in {caps, 0}
  BY <1>1, WithinExits DEF IInv, Daemon, CoreOK
<1>6. Daemon'
  BY <1>1, <1>3, <1>5, StillStep
<1>7. Counted'
  <2>1. \A g \in Starts : ~Owed(g)'
    BY <1>1 DEF Owed, Idle, Pending
  <2>2. restarts' <= crashes' /\ restarts' <= MaxRestarts
    BY <1>1, <1>2 DEF IInv, Counted
  <2>3. QED
    BY <2>1, <2>2 DEF Counted
<1>8. QED
  BY <1>3, <1>4, <1>6, <1>7 DEF IInv, CountsOK

\* What ExitBegins does with one choice of stable.
LEMMA ExitFacts ==
  ASSUME IInv, ExitBegins
  PROVE  /\ generation \in Starts /\ generation # 0 /\ exits[generation].how = "noticed" /\ proc[generation] = "dead"
         /\ proc' = [proc EXCEPT ![generation] = "reaped"]
         /\ job' = 0 /\ stopping' = FALSE /\ killTimer' = 0 /\ caps' = 0
         /\ UNCHANGED <<pongs, answers, generation, timers, restartTimer, wanted, refused, calls, nested>>
         /\ exits' \in ExitSet /\ exits'[generation].how \in Callbacks
         /\ exits'[generation].then = exits[generation].then
         /\ \A h \in Starts : h # generation => exits'[h] = exits[h]
         /\ \E stable \in BOOLEAN :
              LET restarting == ~stopping /\ NoteCrash(IF stable THEN 1 ELSE crashes + 1)
                  manual == restartAfterExit = generation
              IN  /\ Account(stopping, stable)
                  /\ restartAfterExit' = IF restarting \/ manual THEN generation ELSE 0
                  /\ exits'[generation].how = IF manual THEN "manual" ELSE IF restarting THEN "auto" ELSE "none"
<1>1. Daemon
  BY DEF IInv
<1>2. generation # 0 /\ exits[generation].how = "noticed"
  BY DEF ExitBegins
<1>3. generation \in Starts /\ exits \in ExitSet /\ proc[generation] = "dead"
  BY <1>1, <1>2, Facts DEF Daemon, Frames
<1>4. PICK stable \in BOOLEAN :
        LET restarting == ~stopping /\ NoteCrash(IF stable THEN 1 ELSE crashes + 1)
            manual == restartAfterExit = generation
        IN  /\ Account(stopping, stable)
            /\ restartAfterExit' = IF restarting \/ manual THEN generation ELSE 0
            /\ exits' = [exits EXCEPT ![generation].how =
                           IF manual THEN "manual" ELSE IF restarting THEN "auto" ELSE "none"]
  BY DEF ExitBegins
<1>5. PICK how \in Callbacks : exits' = [exits EXCEPT ![generation].how = how]
  BY <1>4 DEF Callbacks
<1>6. exits[generation] \in [how : Hows, then : Callers] /\ how \in Hows
  BY <1>3, <1>5 DEF ExitSet, Hows
<1>7. [exits[generation] EXCEPT !.how = how] \in [how : Hows, then : Callers]
  BY ONLY <1>6
<1>8. /\ exits' \in ExitSet /\ exits'[generation] = [exits[generation] EXCEPT !.how = how]
      /\ \A h \in Starts : h # generation => exits'[h] = exits[h]
  BY <1>3, <1>5, <1>7 DEF ExitSet
<1>9. exits'[generation].how = how /\ exits'[generation].then = exits[generation].then
  BY <1>6, <1>8
<1>10. exits'[generation].how = IF restartAfterExit = generation THEN "manual"
              ELSE IF ~stopping /\ NoteCrash(IF stable THEN 1 ELSE crashes + 1) THEN "auto" ELSE "none"
  <2> DEFINE this == IF restartAfterExit = generation THEN "manual"
              ELSE IF ~stopping /\ NoteCrash(IF stable THEN 1 ELSE crashes + 1) THEN "auto" ELSE "none"
  <2>1. exits' = [exits EXCEPT ![generation].how = this]
    BY <1>4
  <2>2. this \in Hows
    BY DEF Hows, Callbacks
  <2> HIDE DEF this
  <2>3. exits'[generation].how = this
    BY <1>3, <1>6, <2>1, <2>2 DEF ExitSet
  <2>4. QED
    BY <2>3 DEF this
<1>11. /\ proc' = [proc EXCEPT ![generation] = "reaped"]
       /\ job' = 0 /\ stopping' = FALSE /\ killTimer' = 0 /\ caps' = 0
       /\ UNCHANGED <<pongs, answers, generation, timers, restartTimer, wanted, refused, calls, nested>>
  BY DEF ExitBegins, askVars
<1>12. QED
  BY <1>2, <1>3, <1>4, <1>8, <1>9, <1>10, <1>11

\* The exit of the newest daemon: the breaker opens or a restart is owed.
LEMMA ExitBeginsStep == IInv /\ ExitBegins => IInv'
<1> SUFFICES ASSUME IInv, ExitBegins PROVE IInv'
  OBVIOUS
<1> DEFINE manual == restartAfterExit = generation
<1>1. /\ generation \in Starts /\ generation # 0 /\ exits[generation].how = "noticed" /\ proc[generation] = "dead"
      /\ proc' = [proc EXCEPT ![generation] = "reaped"]
      /\ job' = 0 /\ stopping' = FALSE /\ killTimer' = 0 /\ caps' = 0
      /\ UNCHANGED <<pongs, answers, generation, timers, restartTimer, wanted, refused, calls, nested>>
      /\ exits' \in ExitSet /\ exits'[generation].how \in Callbacks
      /\ \A h \in Starts : h # generation => exits'[h] = exits[h]
  BY ExitFacts
<1>2. PICK stable \in BOOLEAN :
        LET restarting == ~stopping /\ NoteCrash(IF stable THEN 1 ELSE crashes + 1)
        IN  /\ Account(stopping, stable)
            /\ restartAfterExit' = IF restarting \/ manual THEN generation ELSE 0
            /\ exits'[generation].how = IF manual THEN "manual" ELSE IF restarting THEN "auto" ELSE "none"
  BY ExitFacts
<1>3. MaxRestarts \in Nat /\ crashes \in 0..(MaxRestarts + 1) /\ restarts \in Nat
  BY SupervisorAssumption DEF IInv, CountsOK
<1>4. ~tripped
  BY <1>1 DEF IInv, Daemon, Closed
<1>5. crashes <= MaxRestarts
  BY <1>3, <1>4 DEF IInv, Daemon, Closed
<1> DEFINE past == IF stable THEN 0 ELSE crashes
<1>6. /\ crashes' = IF stopping THEN 0 ELSE past + 1
      /\ restarts' = IF stopping \/ stable THEN 0 ELSE restarts
  BY <1>2 DEF Account
<1>7. tripped' = (~stopping /\ ~(past + 1 <= MaxRestarts))
  BY <1>2, <1>4 DEF Account, NoteCrash
<1>8. exits'[generation].how = "auto" => ~stopping /\ past + 1 <= MaxRestarts
  <2>1. exits'[generation].how = "auto" => ~stopping /\ NoteCrash(IF stable THEN 1 ELSE crashes + 1)
    BY <1>2
  <2>2. (IF stable THEN 1 ELSE crashes + 1) = past + 1
    BY <1>3
  <2>3. QED
    BY <2>1, <2>2 DEF NoteCrash
<1>9. restartAfterExit' \in {0, generation}
  BY <1>2
<1>10. past \in 0..MaxRestarts
  BY <1>3, <1>5
<1> HIDE DEF past
<1>11. CountsOK'
  BY <1>3, <1>6, <1>10 DEF CountsOK
<1>12. proc' \in ProcSet /\ proc'[generation] = "reaped" /\ \A h \in Starts : h # generation => proc'[h] = proc[h]
  BY <1>1 DEF IInv, Daemon, CoreOK, ProcSet
<1>13. Daemon /\ job \in {0, generation} /\ MaxStarts \in Nat
  BY Facts DEF IInv
<1>14. CoreOK'
  BY <1>1, <1>9, <1>12, <1>13 DEF Daemon, CoreOK, Starts
<1>15. JobRuns'
  BY <1>1, <1>12, <1>13 DEF Daemon, JobRuns, Alive, IsRunning, Starts
<1>16. Frames'
  <2> SUFFICES ASSUME NEW h \in Starts
               PROVE  /\ (exits'[h].how # "not") => h <= generation
                      /\ exits'[h].how = "noticed" => h = generation /\ proc'[h] = "dead"
                      /\ exits'[h].how \in Callbacks \cup {"done"} => proc'[h] = "reaped"
    BY <1>1 DEF Frames, Pending
  <2>1. CASE h = generation
    BY <1>1, <1>12, <2>1 DEF Callbacks, Starts
  <2>2. CASE h # generation
    BY <1>1, <1>12, <1>13, <2>2 DEF Daemon, Frames, Pending
  <2>3. QED
    BY <2>1, <2>2
<1>17. CapsOfCurrent'
  BY <1>1 DEF CapsOfCurrent, IsRunning
<1>18. Closed'
  <2>1. crashes' = MaxRestarts + 1 => ~stopping /\ ~(past + 1 <= MaxRestarts)
    BY <1>3, <1>6, <1>10
  <2>2. crashes' = MaxRestarts + 1 => tripped'
    BY <1>7, <2>1
  <2>3. QED
    BY <1>1, <1>12, <2>2 DEF Closed
<1>19. Counted'
  <2>1. restarts <= crashes /\ restarts <= MaxRestarts
    BY DEF IInv, Counted
  <2>2. past = IF stable THEN 0 ELSE crashes
    BY DEF past
  <2>3. restarts' <= crashes' /\ restarts' <= MaxRestarts
    BY <1>3, <1>6, <1>10, <2>1, <2>2
  <2>4. exits'[generation].how = "auto" => crashes' <= MaxRestarts /\ restarts' < crashes'
    BY <1>3, <1>6, <1>8, <1>10, <2>1, <2>2
  <2>5. QED
    BY <1>1, <2>3, <2>4 DEF Counted, Owed
<1>20. TimersOK' /\ OthersOK'
  <2>1. op' \in [Ops -> [gen : 0..generation, st : {"new", "waiting", "ended"}]]
    BY FailStep DEF ExitBegins
  <2>2. QED
    BY <1>1, <1>13, <2>1, Facts DEF IInv, TimersOK, OthersOK
<1>21. FlagsOK'
  <2>1. tripped' \in BOOLEAN
    BY <1>7
  <2>2. QED
    BY <1>1, <2>1, Zenon DEF IInv, FlagsOK
<1>22. QED
  BY <1>11, <1>14, <1>15, <1>16, <1>17, <1>18, <1>19, <1>20, <1>21 DEF IInv, Daemon

\* What ExitEnds does to the calls.
LEMMA EndFacts ==
  ASSUME Daemon, NEW g \in Starts, ExitEnds(g)
  PROVE  /\ Innermost(g) /\ exits[g].how \in Callbacks /\ exits' \in ExitSet
         /\ exits'[g].how = "done" /\ exits'[g].then = exits[g].then
         /\ \A h \in Starts : h # g => exits'[h] = exits[h]
         /\ UNCHANGED <<proc, pongs, answers, crashes, tripped, killTimer, generation, job, stopping,
                        caps, op, wanted, refused, calls, nested>>
<1>1. exits[g] \in [how : Hows, then : Callers] /\ exits \in ExitSet /\ "done" \in Hows
  BY DEF Daemon, CoreOK, ExitSet, Hows
<1>2. [exits[g] EXCEPT !.how = "done"] \in [how : Hows, then : Callers]
  BY ONLY <1>1
<1>3. exits' = [exits EXCEPT ![g].how = "done"]
  BY DEF ExitEnds
<1>4. /\ exits' \in ExitSet /\ exits'[g] = [exits[g] EXCEPT !.how = "done"]
      /\ \A h \in Starts : h # g => exits'[h] = exits[h]
  BY <1>1, <1>2, <1>3 DEF ExitSet
<1>5. exits'[g].how = "done" /\ exits'[g].then = exits[g].then
  BY <1>1, <1>4
<1>6. QED
  BY <1>4, <1>5 DEF ExitEnds, processVars, sessionVars, askVars

LEMMA ExitEndsStep == \A g \in Starts : IInv /\ ExitEnds(g) => IInv'
<1> SUFFICES ASSUME IInv, NEW g \in Starts, ExitEnds(g) PROVE IInv'
  OBVIOUS
<1>1. /\ exits[g].how \in Callbacks /\ exits' \in ExitSet
      /\ exits'[g].how = "done" /\ exits'[g].then = exits[g].then
      /\ \A h \in Starts : h # g => exits'[h] = exits[h]
      /\ UNCHANGED <<proc, pongs, answers, crashes, tripped, killTimer, generation, job, stopping,
                     caps, op, wanted, refused, calls, nested>>
  BY EndFacts DEF IInv
<1>2. Daemon /\ Pending(g) /\ proc[g] = "reaped"
  BY <1>1 DEF IInv, Daemon, Frames, Pending, Callbacks
<1>3. g \in 1..generation /\ generation \in Nat
  BY <1>2, Facts DEF Daemon, Frames, Starts
<1>4. TimersOK' /\ restarts' \in Nat /\ restarts' <= crashes /\ restarts' <= MaxRestarts
      /\ restartAfterExit' \in 0..generation
  <2>1. CASE restartAfterExit = g /\ g = generation
    <3>1. /\ restartAfterExit' = 0 /\ restartTimer' = g
          /\ timers' = (IF exits[g].how = "auto" THEN timers \ {restartTimer} ELSE timers) \cup {g}
          /\ restarts' = IF exits[g].how = "auto" /\ crashes > 0 THEN restarts + 1 ELSE restarts
      BY <2>1 DEF ExitEnds
    <3>2. TimersOK'
      <4>1. timers' \subseteq 1..generation /\ g \in timers'
        BY <1>3, <3>1 DEF IInv, TimersOK
      <4>2. restartTimer' \in timers' /\ killTimer \in 0..generation
        BY <3>1, <4>1 DEF IInv, TimersOK
      <4>3. QED
        BY <1>1, <4>1, <4>2 DEF TimersOK
    <3>3. exits[g].how = "auto" => crashes <= MaxRestarts /\ (crashes = 0 \/ restarts < crashes)
      BY <2>1 DEF IInv, Counted, Owed
    <3>4. restarts' \in Nat /\ restarts' <= crashes /\ restarts' <= MaxRestarts
      BY <3>1, <3>3, SupervisorAssumption DEF IInv, CountsOK, Counted
    <3>5. QED
      BY <1>3, <3>1, <3>2, <3>4
  <2>2. CASE ~(restartAfterExit = g /\ g = generation)
    <3>1. UNCHANGED <<restartAfterExit, restartTimer, timers, restarts>>
      BY <2>2 DEF ExitEnds
    <3>2. QED
      BY <1>1, <3>1 DEF IInv, Daemon, CoreOK, TimersOK, Counted, CountsOK
  <2>3. QED
    BY <2>1, <2>2
<1>5. CoreOK'
  BY <1>1, <1>2, <1>4 DEF Daemon, CoreOK
<1>6. (Pressed(exits))' => Pressed(exits)
  BY <1>1 DEF Pressed, Callbacks
<1>7. JobRuns'
  BY <1>1, <1>2, <1>6 DEF Daemon, JobRuns, Alive, IsRunning
<1>8. Frames'
  BY <1>1, <1>2 DEF Daemon, Frames, Pending, Callbacks
<1>9. CapsOfCurrent' /\ Closed'
  BY <1>1, <1>2 DEF Daemon, CapsOfCurrent, IsRunning, Alive, Closed
<1>10. Counted' /\ CountsOK'
  <2>1. \A h \in Starts : Owed(h)' => Owed(h) /\ h # g
    BY <1>1 DEF Owed
  <2>2. \A h \in Starts : Owed(h)' => restarts' = restarts
    <3> SUFFICES ASSUME NEW h \in Starts, Owed(h)' PROVE restarts' = restarts
      OBVIOUS
    <3>1. g # generation
      BY <1>1, <2>1 DEF Owed
    <3>2. QED
      BY <3>1 DEF ExitEnds
  <2>3. QED
    BY <1>1, <1>4, <2>1, <2>2 DEF IInv, Counted, CountsOK
<1>11. OthersOK' /\ FlagsOK'
  BY <1>1 DEF IInv, OthersOK, FlagsOK
<1>12. QED
  BY <1>4, <1>5, <1>7, <1>8, <1>9, <1>10, <1>11 DEF IInv, Daemon

\* A call inside of which OnExit has returned goes on.
LEMMA BackStep == \A g \in Starts : IInv /\ Back(g) => IInv'
<1> SUFFICES ASSUME IInv, NEW g \in Starts, Back(g) PROVE IInv'
  OBVIOUS
<1>1. /\ Innermost(g) /\ exits[g].how = "done"
      /\ UNCHANGED <<pongs, answers, crashes, tripped, restarts, op, calls>>
  BY DEF Back, BackToVim, BackToEnsure, BackToRestart, BackToStop, BackToStart, BackIn, policyVars
<1>2. Daemon /\ Quiet /\ Within(Returned(g))
  BY <1>1, IsQuiet, WithinReturned DEF IInv
<1>3. exits[g].then \in {"ensure", "start"} => Pressed(exits)
  BY <1>1 DEF Pressed
<1>4. calls' \in 0..MaxCalls
  BY <1>1 DEF IInv, OthersOK
<1>5. /\ tripped \in BOOLEAN /\ tripped = tripped' /\ (tripped' => tripped)
      /\ (crashes' = MaxRestarts + 1 => tripped')
  BY <1>1, Breaker
<1>6. exits' = Returned(g) => \A h \in Starts : exits'[h].how # "not" => exits'[h] = exits[h]
  BY <1>2, WithinFacts
<1>7. CASE BackToVim(g)
  <2>1. /\ exits' = Returned(g)
        /\ UNCHANGED <<proc, timers, restartTimer, killTimer, generation, job, stopping, restartAfterExit,
                       caps, wanted, refused, nested>>
    BY <1>7 DEF BackToVim, timerVars, jobVars, askVars
  <2>2. Within(exits') /\ restartAfterExit' \in 0..generation /\ caps' \in {caps, 0}
    BY <1>2, <2>1 DEF Daemon, CoreOK
  <2>3. Daemon'
    BY <1>2, <1>5, <2>1, <2>2, StillStep
  <2>4. \A h \in Starts : Owed(h)' => Owed(h)
    BY <1>6, <2>1 DEF Owed
  <2>5. QED
    BY <1>1, <2>1, <2>3, <2>4, RestStep
<1>8. CASE BackToEnsure(g)
  <2>1. /\ exits[g].then = "ensure" /\ wanted' = TRUE /\ EnsureStart(Returned(g), tripped)
        /\ UNCHANGED <<timers, restartTimer, killTimer>>
    BY <1>8 DEF BackToEnsure, BackIn, timerVars
  <2>2. IsRunning => job \in nested
    BY <1>2, <1>3, <2>1 DEF Daemon, JobRuns
  <2>3. Daemon' /\ Later
    BY <1>2, <1>5, <2>1, <2>2, EnsureStartStep
  <2>4. FlagsOK'
    BY <1>1, <2>1, StartFlags, Zenon DEF IInv, FlagsOK
  <2>5. TimersOK' /\ OthersOK'
    BY <1>1, <1>4, <2>1, <2>3, GrowStep DEF IInv, TimersOK, Later
  <2>6. CountsOK' /\ Counted'
    BY <1>1, <2>3, CountedStep DEF Later
  <2>7. QED
    BY <2>3, <2>4, <2>5, <2>6 DEF IInv
<1>9. CASE BackToRestart(g)
  <2>1. Ensure(Returned(g), tripped) /\ UNCHANGED <<timers, restartTimer, killTimer>>
    BY <1>9 DEF BackToRestart, timerVars
  <2>2. Daemon' /\ Later
    BY <1>2, <1>5, <2>1, EnsureStep
  <2>3. FlagsOK'
    BY <1>1, <2>1, EnsureFlags, Zenon DEF IInv, FlagsOK
  <2>4. TimersOK' /\ OthersOK'
    BY <1>1, <1>4, <2>1, <2>2, GrowStep DEF IInv, TimersOK, Later
  <2>5. CountsOK' /\ Counted'
    BY <1>1, <2>2, CountedStep DEF Later
  <2>6. QED
    BY <2>2, <2>3, <2>4, <2>5 DEF IInv
<1>10. CASE BackToStop(g)
  <2>1. /\ StopInternal(FALSE) /\ caps' = 0 /\ wanted' = Lost /\ exits' = Returned(g)
        /\ UNCHANGED <<proc, refused, nested>>
    BY <1>10 DEF BackToStop, Stop
  <2>2. Daemon' /\ TimersOK' /\ generation' = generation
    BY <1>2, <1>5, <2>1, StopStep
  <2>3. FlagsOK'
    BY <1>1, <2>1, LostFlag, StopFlags, Zenon DEF IInv, FlagsOK
  <2>4. CountsOK' /\ Counted'
    BY <1>1, <1>6, <2>1, <2>2, CountedStep DEF Owed
  <2>5. OthersOK'
    BY <1>1, <2>2 DEF IInv, OthersOK
  <2>6. QED
    BY <2>2, <2>3, <2>4, <2>5 DEF IInv
<1>11. CASE BackToStart(g)
  <2>1. /\ exits[g].then = "start" /\ job' = 0 /\ refused' = TRUE /\ exits' = Returned(g)
        /\ UNCHANGED <<proc, timers, restartTimer, killTimer, generation, stopping, restartAfterExit,
                       caps, wanted, nested>>
    BY <1>11 DEF BackToStart, BackIn, timerVars
  <2>2. \A h \in Starts : Alive(h) => h \in nested
    BY <1>2, <1>3, <2>1, Facts DEF Daemon, JobRuns, IsRunning, Starts
  <2>3. CoreOK'
    BY <1>2, <2>1 DEF Daemon, CoreOK, Within
  <2>4. JobRuns'
    BY <1>2, <2>1, <2>2 DEF Daemon, JobRuns, Alive, IsRunning
  <2>5. Frames'
    BY <1>2, <1>6, <2>1 DEF Daemon, Frames, Pending, Callbacks
  <2>6. CapsOfCurrent' /\ Closed'
    BY <1>1, <1>2, <2>1 DEF Daemon, CapsOfCurrent, IsRunning, Closed
  <2>7. FlagsOK'
    BY <1>1, <2>1, Zenon DEF IInv, FlagsOK
  <2>8. TimersOK' /\ OthersOK'
    BY <1>1, <2>1 DEF IInv, TimersOK, OthersOK
  <2>9. CountsOK' /\ Counted'
    BY <1>1, <1>6, <2>1, CountedStep DEF Owed
  <2>10. QED
    BY <2>3, <2>4, <2>5, <2>6, <2>7, <2>8, <2>9 DEF IInv, Daemon
<1>12. QED
  BY <1>7, <1>8, <1>9, <1>10, <1>11 DEF Back

\* Lines: written by the daemon, read behind the fence.
LEMMA LineStep ==
  ASSUME IInv,
         UNCHANGED <<proc, crashes, tripped, restarts, timers, restartTimer, killTimer, generation,
                     job, stopping, restartAfterExit, wanted, refused, calls, exits, nested>>,
         CapsOfCurrent', caps' \in 0..generation, OthersOK'
  PROVE  IInv'
<1>1. CoreOK'
  BY DEF IInv, Daemon, CoreOK
<1>2. JobRuns' /\ Frames' /\ Closed'
  BY DEF IInv, Daemon, JobRuns, Frames, Closed, Alive, IsRunning, Pressed, Pending
<1>3. CountsOK' /\ TimersOK' /\ FlagsOK' /\ Counted'
  BY DEF IInv, CountsOK, TimersOK, FlagsOK, Counted, Owed
<1>4. QED
  BY <1>1, <1>2, <1>3 DEF IInv, Daemon

LEMMA LinesStep ==
  /\ \A g \in Starts : IInv /\ (Pong(g) \/ ReadPong(g)) => IInv'
  /\ \A o \in Ops : IInv /\ (IssueOp(o) \/ Answer(o) \/ ReadAnswer(o)) => IInv'
<1>1. ASSUME IInv, NEW g \in Starts, Pong(g) PROVE IInv'
  BY <1>1, LineStep DEF Pong, policyVars, timerVars, jobVars, sessionVars, askVars, exitVars, IInv, Daemon,
     OthersOK, CoreOK, CapsOfCurrent, IsRunning, Alive
<1>2. ASSUME IInv, NEW g \in Starts, ReadPong(g) PROVE IInv'
  <2>1. UNCHANGED <<proc, answers, crashes, tripped, restarts, timers, restartTimer, killTimer, generation,
                    job, stopping, restartAfterExit, op, wanted, refused, calls, exits, nested>>
        /\ pongs' = [pongs EXCEPT ![g] = "read"]
    BY <1>2 DEF ReadPong, policyVars, timerVars, jobVars, askVars, exitVars
  <2>2. caps' = caps \/ (caps' = g /\ g = generation)
    BY <1>2 DEF ReadPong, Fence
  <2>3. caps' \in 0..generation /\ CapsOfCurrent'
    BY <1>2, <2>1, <2>2, SupervisorAssumption DEF IInv, Daemon, CoreOK, CapsOfCurrent, IsRunning, Alive, Starts
  <2>4. OthersOK'
    BY <1>2, <2>1 DEF IInv, OthersOK
  <2>5. QED
    BY <1>2, <2>1, <2>3, <2>4, LineStep
<1>3. ASSUME IInv, NEW o \in Ops, IssueOp(o) PROVE IInv'
  <2>1. /\ FsOpsEnabled /\ op' = [op EXCEPT ![o] = [gen |-> job, st |-> "waiting"]]
        /\ UNCHANGED <<proc, pongs, answers, crashes, tripped, restarts, timers, restartTimer, killTimer, generation,
                       job, stopping, restartAfterExit, caps, wanted, refused, calls, exits, nested>>
    BY <1>3 DEF IssueOp, processVars, policyVars, timerVars, jobVars, askVars, exitVars
  <2>2. OthersOK'
    BY <1>3, <2>1, SupervisorAssumption DEF IInv, Daemon, OthersOK, CoreOK
  <2>3. QED
    BY <1>3, <2>1, <2>2, LineStep DEF IInv, Daemon, CoreOK, CapsOfCurrent, IsRunning, Alive
<1>4. ASSUME IInv, NEW o \in Ops, Answer(o) PROVE IInv'
  BY <1>4, LineStep DEF Answer, policyVars, timerVars, jobVars, sessionVars, askVars, exitVars, IInv, Daemon,
     OthersOK, CoreOK, CapsOfCurrent, IsRunning, Alive
<1>5. ASSUME IInv, NEW o \in Ops, ReadAnswer(o) PROVE IInv'
  <2>1. /\ op' = [op EXCEPT ![o].st = "ended"] \/ op' = op
        /\ answers' = [answers EXCEPT ![o] = "read"]
        /\ UNCHANGED <<proc, pongs, crashes, tripped, restarts, timers, restartTimer, killTimer, generation,
                       job, stopping, restartAfterExit, caps, wanted, refused, calls, exits, nested>>
    BY <1>5 DEF ReadAnswer, policyVars, timerVars, jobVars, askVars, exitVars
  <2>2. OthersOK'
    BY <1>5, <2>1 DEF IInv, OthersOK
  <2>3. QED
    BY <1>5, <2>1, <2>2, LineStep DEF IInv, Daemon, CoreOK, CapsOfCurrent, IsRunning, Alive
<1>6. QED
  BY <1>1, <1>2, <1>3, <1>4, <1>5

LEMMA StutterStep == IInv /\ UNCHANGED vars => IInv'
<1> SUFFICES ASSUME IInv, UNCHANGED vars PROVE IInv'
  OBVIOUS
<1>1. /\ UNCHANGED <<proc, crashes, tripped, restarts, timers, restartTimer, killTimer, generation,
                     job, stopping, restartAfterExit, wanted, refused, calls, exits, nested>>
      /\ UNCHANGED <<caps, op, pongs, answers>>
  BY DEF vars, processVars, policyVars, timerVars, jobVars, sessionVars, askVars, exitVars
<1>2. CapsOfCurrent' /\ caps' \in 0..generation /\ OthersOK'
  BY <1>1 DEF IInv, Daemon, CoreOK, OthersOK, CapsOfCurrent, IsRunning, Alive
<1>3. QED
  BY <1>1, <1>2, LineStep

LEMMA InvariantStep == IInv /\ [Next]_vars => IInv'
<1> SUFFICES ASSUME IInv, [Next]_vars PROVE IInv'
  OBVIOUS
<1>1. CASE CallEnsure \/ CallStop \/ CallRestart
  BY <1>1, CallEnsureStep, CallStopStep, CallRestartStep
<1>2. CASE KillTimer \/ Notice \/ ExitBegins \/ CrashAges
  BY <1>2, KillTimerStep, NoticeDone, ExitBeginsStep, CrashAgesStep
<1>3. CASE \E g \in Starts : Dies(g) \/ Pong(g) \/ ReadPong(g) \/ RestartTimer(g) \/ StaleExit(g)
  BY <1>3, DiesStep, LinesStep, RestartTimerStep, StaleExitStep
<1>4. CASE \E g \in Starts : ExitEnds(g) \/ Back(g)
  BY <1>4, ExitEndsStep, BackStep
<1>5. CASE \E o \in Ops : IssueOp(o) \/ Answer(o) \/ ReadAnswer(o)
  BY <1>5, LinesStep
<1>6. CASE UNCHANGED vars
  BY <1>6, StutterStep
<1>7. QED
  BY <1>1, <1>2, <1>3, <1>4, <1>5, <1>6 DEF Next

\* The inductive invariant.
THEOREM Invariant == Spec => []IInv
BY InitStep, InvariantStep, PTL DEF Spec

----------------------------------------------------------------------------
\* Types, with the breaker's bound on the crashes that are counted.
THEOREM TypeCorrect == Spec => []TypeOK
<1>1. IInv => TypeOK
  BY DEF IInv, Daemon, CoreOK, ProcSet, ExitSet, CountsOK, TimersOK, OthersOK, FlagsOK, TypeOK
<1>2. QED
  BY <1>1, Invariant, PTL

\* core.vim:18-20: whatever runs is the process the supervisor knows of, but for one that
\* was started inside an Ensure that was still to start its own.
THEOREM OnlyNestedLostHolds == Spec => []OnlyNestedLost
<1>1. IInv => OnlyNestedLost
  BY DEF IInv, Daemon, JobRuns, OnlyNestedLost
<1>2. QED
  BY <1>1, Invariant, PTL

\* core.vim:881-894: what a dead daemon has written is never the session of the
\* one that runs.
THEOREM CapsHold == Spec => []CapsOfCurrent
<1>1. IInv => CapsOfCurrent
  BY DEF IInv, Daemon
<1>2. QED
  BY <1>1, Invariant, PTL

\* core.vim:24-26: within one window no more restarts than the limit.
THEOREM BreakerNeverGives == Spec => []BreakerHolds
<1>1. IInv => BreakerHolds
  BY DEF IInv, Counted, BreakerHolds
<1>2. QED
  BY <1>1, Invariant, PTL

----------------------------------------------------------------------------
(* Nothing starts unless it is wanted: the one restart timer is known to    *)
(* the supervisor, so that a stop disarms whatever could start a daemon.   *)

Gone == generation = 0 \/ proc[generation] \in {"unborn", "reaped"}

\* OnExit of the newest daemon is in its callbacks.
InCallback == generation # 0 /\ exits[generation].how \in Callbacks

\* There is one restart timer at most, and none of a daemon that is being
\* stopped or is to be restarted by hand.
OneTimer ==
  /\ timers \subseteq {restartTimer}
  /\ stopping => timers = {}
  /\ restartAfterExit = generation /\ ~InCallback => timers = {}
  /\ InCallback => /\ ~stopping
                   /\ exits[generation].how = "manual" => timers = {}
                   /\ restartAfterExit = generation => exits[generation].how \in {"auto", "manual"}

\* After a stop the daemon is on its way out, and nothing is armed for it.
Disarmed ==
  ~wanted => /\ stopping \/ Gone
             /\ generation \notin timers
             /\ restartAfterExit = generation => generation = 0

WInv == IInv /\ OneTimer /\ Disarmed

LEMMA WInit == Init => WInv
<1> SUFFICES ASSUME Init PROVE WInv
  OBVIOUS
<1>1. OneTimer /\ Disarmed
  BY Zenon DEF Init, OneTimer, Disarmed, InCallback, Gone
<1>2. QED
  BY <1>1, InitStep DEF WInv

\* No call in its callbacks has returned.
Kept(ex) == Within(ex) /\ \A h \in Starts : exits[h].how \in Callbacks => ex[h] = exits[h]

LEMMA KeptExits == ASSUME Daemon PROVE Kept(exits)
BY WithinExits DEF Kept

LEMMA KeptReturned ==
  ASSUME Daemon, NEW g \in Starts, exits[g].how = "done"
  PROVE  Kept(Returned(g))
<1>1. \A h \in Starts : h # g => Returned(g)[h] = exits[h]
  BY DEF Returned, Daemon, CoreOK, ExitSet
<1>2. QED
  BY <1>1, WithinReturned DEF Kept, Callbacks

LEMMA KeptFacts ==
  ASSUME Daemon, Kept(exits'), UNCHANGED generation
  PROVE  InCallback' = InCallback /\ (InCallback => exits'[generation] = exits[generation])
<1>1. \A h \in Starts : exits'[h].how # "not" => exits'[h] = exits[h]
  BY WithinFacts DEF Kept
<1>2. QED
  BY <1>1, Facts DEF Kept, InCallback, Callbacks

\* What comes of a start.
LEMMA JobStartFacts ==
  ASSUME Daemon, NEW ex, Within(ex), JobStart(ex)
  PROVE  /\ generation' = generation + 1 /\ generation' \in Starts /\ generation' # generation
         /\ restartAfterExit' # generation' /\ ~InCallback'
         /\ \/ job' = generation' /\ proc'[job'] = "running" /\ ~stopping'
            \/ job' = 0 /\ refused' /\ UNCHANGED stopping
            \/ /\ job' = 0 /\ UNCHANGED stopping /\ exits'[generation'].how = "noticed"
               /\ exits'[generation'].then = "start"
<1> DEFINE n == generation + 1
<1>1. /\ MaxStarts \in Nat /\ generation \in Nat /\ n \in Starts /\ n # generation /\ generation' = n /\ n # 0
      /\ proc \in ProcSet /\ restartAfterExit \in 0..generation
      /\ ~(n <= generation)
  BY SupervisorAssumption DEF JobStart, Daemon, CoreOK, Starts
<1>2. restartAfterExit # n
  BY <1>1
<1>3. ex[n].how = "not" /\ ex \in ExitSet
  BY <1>1, WithinFacts DEF Within, Daemon, Frames, Pending
<1> HIDE DEF n
<1>4. CASE job' = n /\ proc' = [proc EXCEPT ![n] = "running"] /\ stopping' = FALSE /\ restartAfterExit' = 0 /\ exits' = ex
  BY <1>1, <1>3, <1>4 DEF InCallback, Callbacks, ProcSet, n
<1>5. CASE job' = 0 /\ refused' = TRUE /\ exits' = ex /\ UNCHANGED <<stopping, restartAfterExit>>
  BY <1>1, <1>2, <1>3, <1>5 DEF InCallback, Callbacks, n
<1>6. CASE job' = 0 /\ Noticed(ex, n, "start") /\ UNCHANGED <<stopping, restartAfterExit>>
  <2>1. exits'[n].how = "noticed" /\ exits'[n].then = "start"
    BY <1>1, <1>3, <1>6, NoticedFacts DEF Callers
  <2>2. QED
    BY <1>1, <1>2, <1>6, <2>1 DEF InCallback, Callbacks, n
<1>7. QED
  BY <1>4, <1>5, <1>6 DEF JobStart, n

\* A call that wants a daemon starts one or not.
LEMMA WStart ==
  ASSUME WInv, NEW ex, Kept(ex), NEW b \in BOOLEAN, EnsureStart(ex, b), wanted',
         timers' \subseteq timers, timers' \subseteq {restartTimer'}
  PROVE  OneTimer' /\ Disarmed'
<1>1. Daemon
  BY DEF WInv, IInv
<1>2. CASE Refuse /\ exits' = ex
  <2>1. UNCHANGED <<proc, generation, stopping, restartAfterExit>>
    BY <1>2 DEF Refuse, jobVars
  <2>2. InCallback' = InCallback /\ (InCallback => exits'[generation] = exits[generation])
    BY <1>1, <1>2, <2>1, KeptFacts
  <2>3. QED
    BY <2>1, <2>2 DEF WInv, OneTimer, Disarmed
<1>3. CASE JobStart(ex)
  <2>1. restartAfterExit' # generation' /\ ~InCallback' /\ (stopping' => stopping)
    BY <1>1, <1>3, JobStartFacts DEF Kept
  <2>2. QED
    BY <2>1 DEF WInv, OneTimer, Disarmed
<1>4. QED
  BY <1>2, <1>3 DEF EnsureStart

LEMMA WEnsure ==
  ASSUME WInv, NEW ex, Kept(ex), NEW b \in BOOLEAN, Ensure(ex, b), UNCHANGED timerVars
  PROVE  OneTimer' /\ Disarmed'
<1>1. Daemon /\ UNCHANGED <<timers, restartTimer>> /\ timers \subseteq {restartTimer}
  BY DEF WInv, IInv, timerVars, OneTimer
<1>2. CASE Unnoticed /\ Noticed(ex, job, "ensure") /\ UNCHANGED <<proc, jobVars, askVars>>
  <2>1. UNCHANGED <<proc, generation, stopping, restartAfterExit, wanted>>
    BY <1>2 DEF jobVars, askVars
  <2>2. job = generation /\ generation \in Starts /\ proc[generation] = "dead"
    BY <1>1, <1>2, Facts DEF Unnoticed
  <2>3. exits'[generation].how = "noticed"
    BY <1>2, <2>2, NoticedFacts DEF Kept, Within, Callers
  <2>4. ~InCallback /\ ~InCallback'
    BY <1>1, <2>1, <2>2, <2>3 DEF InCallback, Callbacks, Daemon, Frames
  <2>5. QED
    BY <1>1, <2>1, <2>4 DEF WInv, OneTimer, Disarmed, Gone
<1>3. CASE EnsureAnswers(ex, b)
  <2>1. wanted'
    BY <1>3 DEF EnsureAnswers
  <2>2. CASE IsRunning
    <3>1. /\ exits' = ex /\ UNCHANGED <<generation, stopping>>
          /\ restartAfterExit' = restartAfterExit \/ (stopping /\ restartAfterExit' = generation)
      BY <1>3, <2>2 DEF EnsureAnswers, Refuse, jobVars
    <3>2. InCallback' = InCallback /\ (InCallback => exits'[generation] = exits[generation])
      BY <1>1, <3>1, KeptFacts
    <3>3. OneTimer'
      BY <1>1, <3>1, <3>2 DEF WInv, OneTimer
    <3>4. QED
      BY <2>1, <3>3 DEF Disarmed
  <2>3. CASE ~IsRunning
    BY <1>1, <1>3, <2>1, <2>3, WStart DEF EnsureAnswers
  <2>4. QED
    BY <2>2, <2>3
<1>4. QED
  BY <1>2, <1>3 DEF Ensure

LEMMA WStop ==
  ASSUME WInv, NEW r \in BOOLEAN, StopInternal(r), UNCHANGED proc, Kept(exits'),
         IF r THEN job # 0 /\ wanted' ELSE wanted' = Lost
  PROVE  OneTimer' /\ Disarmed'
<1>1. /\ UNCHANGED <<generation, job>> /\ timers' = {} /\ restartTimer' = 0
      /\ restartAfterExit' = IF r /\ job # 0 THEN generation ELSE 0
      /\ IF job = 0 THEN stopping' = stopping ELSE stopping' = TRUE
  BY DEF StopInternal, WInv, OneTimer
<1>2. generation \in Nat /\ Daemon
  BY DEF WInv, IInv, Daemon, CoreOK
<1>3. InCallback' = InCallback /\ (InCallback => exits'[generation] = exits[generation])
  BY <1>1, <1>2, KeptFacts
<1>4. InCallback => job = 0
  BY <1>2, Facts DEF Daemon, InCallback, Frames, JobRuns
<1>5. OneTimer'
  BY <1>1, <1>3, <1>4 DEF WInv, OneTimer, InCallback
<1>6. ~wanted' => ~r /\ ~Lost
  OBVIOUS
<1>7. ~Lost /\ job = 0 => Gone
  BY <1>2, Facts DEF Lost, Gone, ProcSet
<1>8. Disarmed'
  BY <1>1, <1>2, <1>6, <1>7 DEF Disarmed, Gone
<1>9. QED
  BY <1>5, <1>8

\* A call whose OnExit has come notices the death of the newest process.
LEMMA WNotice ==
  ASSUME WInv, proc[generation] = "dead", generation # 0, exits'[generation].how = "noticed",
         UNCHANGED <<proc, generation, stopping, restartAfterExit, wanted, timers, restartTimer>>
  PROVE  OneTimer' /\ Disarmed'
<1>1. ~InCallback /\ ~InCallback'
  BY Facts DEF InCallback, Callbacks, Daemon, Frames, WInv, IInv
<1>2. QED
  BY <1>1 DEF WInv, OneTimer, Disarmed, Gone

\* Nothing that counts here changes.
LEMMA WOthers ==
  ASSUME WInv, Kept(exits'),
         UNCHANGED <<timers, restartTimer, generation, stopping, restartAfterExit, wanted>>,
         Gone => Gone'
  PROVE  OneTimer' /\ Disarmed'
<1>1. InCallback' = InCallback /\ (InCallback => exits'[generation] = exits[generation])
  BY KeptFacts DEF WInv, IInv
<1>2. QED
  BY <1>1 DEF WInv, OneTimer, Disarmed

LEMMA WCalls == WInv /\ (CallEnsure \/ CallStop \/ CallRestart \/ Notice) => OneTimer' /\ Disarmed'
<1> SUFFICES ASSUME WInv PROVE CallEnsure \/ CallStop \/ CallRestart \/ Notice => OneTimer' /\ Disarmed'
  OBVIOUS
<1>1. Daemon /\ Kept(exits) /\ exits \in ExitSet
  BY KeptExits, Facts DEF WInv, IInv
\* What is noticed is the death of the newest process.
<1>2. ASSUME NEW then \in Callers, Noticed(exits, generation, then), proc[generation] = "dead", generation # 0,
             UNCHANGED <<proc, generation, stopping, restartAfterExit, wanted, timers, restartTimer>>
      PROVE  OneTimer' /\ Disarmed'
  <2>1. exits'[generation].how = "noticed"
    BY <1>1, <1>2, Facts, NoticedFacts
  <2>2. QED
    BY <1>2, <2>1, WNotice
<1>3. Unnoticed => job = generation /\ proc[generation] = "dead" /\ generation # 0
  BY <1>1, Facts DEF Unnoticed
<1>4. ASSUME CallEnsure PROVE OneTimer' /\ Disarmed'
  <2>1. Ensure(exits, tripped) /\ UNCHANGED timerVars /\ tripped \in BOOLEAN
    BY <1>4 DEF CallEnsure, WInv, IInv, FlagsOK
  <2>2. QED
    BY <1>1, <2>1, WEnsure
<1>5. ASSUME CallStop PROVE OneTimer' /\ Disarmed'
  <2>1. CASE Stop /\ exits' = exits
    <3>1. StopInternal(FALSE) /\ wanted' = Lost /\ Kept(exits') /\ proc' = proc
      BY <1>1, <1>5, <2>1 DEF CallStop, Stop
    <3>2. QED
      BY <3>1, WStop
  <2>2. CASE Unnoticed /\ Noticed(exits, job, "stop") /\ UNCHANGED <<timerVars, jobVars, caps, wanted>>
    BY <1>2, <1>3, <1>5, <2>2 DEF CallStop, timerVars, jobVars, Callers
  <2>3. QED
    BY <1>5, <2>1, <2>2 DEF CallStop
<1>6. ASSUME CallRestart PROVE OneTimer' /\ Disarmed'
  <2>1. CASE IsRunning /\ StopInternal(TRUE) /\ wanted' = TRUE /\ exits' = exits /\ UNCHANGED proc
    <3>1. job # 0 /\ Kept(exits')
      BY <1>1, <2>1 DEF IsRunning
    <3>2. QED
      BY <2>1, <3>1, WStop
  <2>2. CASE Unnoticed /\ Noticed(exits, job, "restart") /\ UNCHANGED <<proc, jobVars, timerVars, askVars, nested>>
    BY <1>2, <1>3, <2>2 DEF timerVars, jobVars, askVars, Callers
  <2>3. CASE Ensure(exits, FALSE) /\ UNCHANGED timerVars
    BY <1>1, <2>3, WEnsure
  <2>4. QED
    BY <1>6, <2>1, <2>2, <2>3 DEF CallRestart
<1>7. ASSUME Notice PROVE OneTimer' /\ Disarmed'
  BY <1>2, <1>7 DEF Notice, processVars, timerVars, jobVars, askVars, Callers
<1>8. QED
  BY <1>4, <1>5, <1>6, <1>7

LEMMA WTimer == \A g \in Starts : WInv /\ RestartTimer(g) => OneTimer' /\ Disarmed'
<1> SUFFICES ASSUME WInv, NEW g \in Starts, RestartTimer(g) PROVE OneTimer' /\ Disarmed'
  OBVIOUS
<1>1. g \in timers /\ timers' = {} /\ restartTimer' = 0 /\ UNCHANGED wanted
  BY DEF RestartTimer, WInv, OneTimer
<1>2. Kept(exits)
  BY KeptExits DEF WInv, IInv
<1>3. CASE g = generation /\ EnsureStart(exits, tripped)
  <2>1. wanted
    BY <1>1, <1>3 DEF WInv, Disarmed
  <2>2. tripped \in BOOLEAN
    BY DEF WInv, IInv, FlagsOK
  <2>3. QED
    BY <1>1, <1>2, <1>3, <2>1, <2>2, WStart
<1>4. CASE UNCHANGED <<proc, jobVars, exitVars>>
  BY <1>1, <1>4 DEF jobVars, exitVars, WInv, OneTimer, Disarmed, Gone, InCallback
<1>5. QED
  BY <1>3, <1>4 DEF RestartTimer

LEMMA WExitBegins == WInv /\ ExitBegins => OneTimer' /\ Disarmed'
<1> SUFFICES ASSUME WInv, ExitBegins PROVE OneTimer' /\ Disarmed'
  OBVIOUS
<1>1. /\ generation \in Starts /\ generation # 0 /\ exits[generation].how = "noticed" /\ proc[generation] = "dead"
      /\ proc' = [proc EXCEPT ![generation] = "reaped"] /\ stopping' = FALSE
      /\ UNCHANGED <<generation, timers, restartTimer, wanted>>
      /\ exits'[generation].how \in Callbacks
  BY ExitFacts DEF WInv
<1>2. PICK restarting \in BOOLEAN, manual \in BOOLEAN :
        /\ restarting => ~stopping
        /\ manual <=> restartAfterExit = generation
        /\ restartAfterExit' = IF restarting \/ manual THEN generation ELSE 0
        /\ exits'[generation].how = IF manual THEN "manual" ELSE IF restarting THEN "auto" ELSE "none"
  <2>1. PICK stable \in BOOLEAN :
          LET restarting == ~stopping /\ NoteCrash(IF stable THEN 1 ELSE crashes + 1)
              manual == restartAfterExit = generation
          IN  /\ restartAfterExit' = IF restarting \/ manual THEN generation ELSE 0
              /\ exits'[generation].how = IF manual THEN "manual" ELSE IF restarting THEN "auto" ELSE "none"
    BY ExitFacts DEF WInv
  <2>2. QED
    BY <2>1
<1>3. ~Gone /\ ~InCallback /\ InCallback'
  BY <1>1 DEF Gone, InCallback, Callbacks
<1>4. Gone'
  BY <1>1 DEF WInv, IInv, Daemon, CoreOK, ProcSet, Gone
<1>5. OneTimer'
  BY <1>1, <1>2, <1>3 DEF WInv, OneTimer
<1>6. Disarmed'
  BY <1>1, <1>2, <1>3, <1>4 DEF WInv, Disarmed
<1>7. QED
  BY <1>5, <1>6

LEMMA WExitEnds == \A g \in Starts : WInv /\ ExitEnds(g) => OneTimer' /\ Disarmed'
<1> SUFFICES ASSUME WInv, NEW g \in Starts, ExitEnds(g) PROVE OneTimer' /\ Disarmed'
  OBVIOUS
<1>1. /\ exits[g].how \in Callbacks /\ exits'[g].how = "done"
      /\ \A h \in Starts : h # g => exits'[h] = exits[h]
      /\ UNCHANGED <<proc, generation, job, stopping, wanted>>
  BY EndFacts DEF WInv, IInv, Daemon
<1>2. g # 0 /\ (generation # 0 => generation \in Starts)
  BY Facts DEF Starts, WInv, IInv
<1>3. CASE restartAfterExit = g /\ g = generation
  <2>1. /\ restartAfterExit' = 0 /\ restartTimer' = generation
        /\ timers' = (IF exits[g].how = "auto" THEN timers \ {restartTimer} ELSE timers) \cup {generation}
    BY <1>3 DEF ExitEnds
  <2>2. wanted /\ InCallback /\ ~stopping /\ ~InCallback'
    BY <1>1, <1>2, <1>3 DEF WInv, OneTimer, Disarmed, InCallback, Callbacks
  <2>3. timers' = {generation}
    BY <1>3, <2>1, <2>2 DEF WInv, OneTimer
  <2>4. QED
    BY <1>1, <1>2, <1>3, <2>1, <2>2, <2>3 DEF OneTimer, Disarmed
<1>4. CASE ~(restartAfterExit = g /\ g = generation)
  <2>1. UNCHANGED <<restartAfterExit, restartTimer, timers>>
    BY <1>4 DEF ExitEnds
  <2>2. CASE g = generation
    <3>1. ~InCallback' /\ restartAfterExit # generation
      BY <1>1, <1>4, <2>2 DEF InCallback, Callbacks
    <3>2. QED
      BY <1>1, <2>1, <3>1 DEF WInv, OneTimer, Disarmed, Gone
  <2>3. CASE g # generation
    <3>1. generation # 0 => exits'[generation] = exits[generation]
      BY <1>1, <1>2, <2>3
    <3>2. QED
      BY <1>1, <2>1, <3>1 DEF WInv, OneTimer, Disarmed, Gone, InCallback
  <2>4. QED
    BY <2>2, <2>3
<1>5. QED
  BY <1>3, <1>4

LEMMA WBack == \A g \in Starts : WInv /\ Back(g) => OneTimer' /\ Disarmed'
<1> SUFFICES ASSUME WInv, NEW g \in Starts, Back(g) PROVE OneTimer' /\ Disarmed'
  OBVIOUS
<1>1. exits[g].how = "done"
  BY DEF Back, BackToVim, BackToEnsure, BackToRestart, BackToStop, BackToStart, BackIn
<1>2. Kept(Returned(g)) /\ tripped \in BOOLEAN
  BY <1>1, KeptReturned DEF WInv, IInv, FlagsOK
<1>3. CASE BackToVim(g) \/ BackToStart(g)
  <2>1. /\ exits' = Returned(g)
        /\ UNCHANGED <<proc, timers, restartTimer, generation, stopping, restartAfterExit, wanted>>
    BY <1>3 DEF BackToVim, BackToStart, timerVars, jobVars, askVars
  <2>2. QED
    BY <1>2, <2>1, WOthers DEF Gone
<1>4. CASE BackToEnsure(g)
  <2>1. /\ wanted' /\ EnsureStart(Returned(g), tripped) /\ UNCHANGED <<timers, restartTimer>>
        /\ timers \subseteq {restartTimer}
    BY <1>4 DEF BackToEnsure, timerVars, WInv, OneTimer
  <2>2. QED
    BY <1>2, <2>1, WStart
<1>5. CASE BackToRestart(g)
  BY <1>2, <1>5, WEnsure DEF BackToRestart
<1>6. CASE BackToStop(g)
  <2>1. StopInternal(FALSE) /\ wanted' = Lost /\ exits' = Returned(g) /\ proc' = proc
    BY <1>6 DEF BackToStop, Stop
  <2>2. QED
    BY <1>2, <2>1, WStop
<1>7. QED
  BY <1>3, <1>4, <1>5, <1>6 DEF Back

LEMMA WProcs ==
  /\ \A g \in Starts : WInv /\ (Dies(g) \/ StaleExit(g)) => OneTimer' /\ Disarmed'
  /\ WInv /\ KillTimer => OneTimer' /\ Disarmed'
<1>1. ASSUME WInv PROVE Daemon /\ Kept(exits) /\ (Gone <=> generation = 0 \/ proc[generation] \in {"unborn", "reaped"})
  BY <1>1, KeptExits DEF WInv, IInv, Gone
<1>2. ASSUME WInv, NEW g \in Starts, Dies(g) PROVE OneTimer' /\ Disarmed'
  <2>1. /\ UNCHANGED <<timers, restartTimer, generation, stopping, restartAfterExit, wanted, exits>>
        /\ Alive(g) /\ proc' = [proc EXCEPT ![g] = "dead"]
    BY <1>2 DEF Dies, timerVars, jobVars, askVars, exitVars
  <2>2. Gone => Gone'
    BY <1>1, <1>2, <2>1, Facts DEF Gone, Alive, ProcSet
  <2>3. QED
    BY <1>1, <1>2, <2>1, <2>2, WOthers
<1>3. ASSUME WInv, NEW g \in Starts, StaleExit(g) PROVE OneTimer' /\ Disarmed'
  <2>1. /\ UNCHANGED <<timers, restartTimer, generation, stopping, wanted, exits>>
        /\ g # generation /\ proc' = [proc EXCEPT ![g] = "reaped"]
        /\ restartAfterExit' = IF restartAfterExit = g THEN 0 ELSE restartAfterExit
    BY <1>3 DEF StaleExit, timerVars, askVars, exitVars
  <2>2. Gone => Gone'
    BY <1>1, <1>3, <2>1, Facts DEF Gone, ProcSet
  <2>3. InCallback' = InCallback
    BY <2>1 DEF InCallback
  <2>4. restartAfterExit' = generation => restartAfterExit = generation \/ generation = 0
    BY <2>1
  <2>5. generation = 0 => timers = {} /\ ~InCallback
    BY <1>3 DEF WInv, IInv, TimersOK, InCallback
  <2>6. QED
    BY <1>3, <2>1, <2>2, <2>3, <2>4, <2>5 DEF WInv, OneTimer, Disarmed
<1>4. ASSUME WInv, KillTimer PROVE OneTimer' /\ Disarmed'
  <2>1. /\ UNCHANGED <<timers, restartTimer, generation, stopping, restartAfterExit, wanted, exits>>
        /\ proc' = proc \/ (proc[generation] = "running" /\ proc' = [proc EXCEPT ![generation] = "killed"])
    BY <1>4 DEF KillTimer, jobVars, askVars, exitVars
  <2>2. Gone => Gone'
    BY <1>1, <1>4, <2>1, Facts DEF Gone, ProcSet
  <2>3. QED
    BY <1>1, <1>4, <2>1, <2>2, WOthers
<1>5. QED
  BY <1>2, <1>3, <1>4

LEMMA WStep == WInv /\ [Next]_vars => WInv'
<1> SUFFICES ASSUME WInv, [Next]_vars PROVE OneTimer' /\ Disarmed'
  BY InvariantStep DEF WInv
<1>1. Kept(exits)
  BY KeptExits DEF WInv, IInv
<1>2. CASE CallEnsure \/ CallStop \/ CallRestart \/ Notice
  BY <1>2, WCalls
<1>3. CASE KillTimer \/ ExitBegins
  BY <1>3, WProcs, WExitBegins
<1>4. CASE CrashAges
  BY <1>1, <1>4, WOthers DEF CrashAges, processVars, timerVars, jobVars, askVars, exitVars, Gone
<1>5. ASSUME NEW g \in Starts, Dies(g) \/ StaleExit(g) \/ RestartTimer(g) PROVE OneTimer' /\ Disarmed'
  BY <1>5, WProcs, WTimer
<1>6. ASSUME NEW g \in Starts, ExitEnds(g) \/ Back(g) PROVE OneTimer' /\ Disarmed'
  BY <1>6, WExitEnds, WBack
<1>7. ASSUME NEW g \in Starts, Pong(g) \/ ReadPong(g) PROVE OneTimer' /\ Disarmed'
  BY <1>1, <1>7, WOthers DEF Pong, ReadPong, timerVars, jobVars, askVars, exitVars, Gone
<1>8. ASSUME NEW o \in Ops, IssueOp(o) \/ Answer(o) \/ ReadAnswer(o) PROVE OneTimer' /\ Disarmed'
  BY <1>1, <1>8, WOthers DEF IssueOp, Answer, ReadAnswer, processVars, timerVars, jobVars, askVars, exitVars, Gone
<1>9. CASE UNCHANGED vars
  BY <1>1, <1>9, WOthers DEF vars, processVars, timerVars, jobVars, askVars, exitVars, Gone
<1>10. QED
  BY <1>2, <1>3, <1>4, <1>5, <1>6, <1>7, <1>8, <1>9 DEF Next

\* core.vim:124-127: whatever starts a daemon was asked to, and not stopped since.
THEOREM OnlyWantedStartsHolds == Spec => OnlyWantedStarts
<1>1. WInv /\ [Next]_vars => [job' # job /\ job' # 0 => wanted']_vars
  <2> SUFFICES ASSUME WInv, Next, job' # job, job' # 0 PROVE wanted'
    OBVIOUS
  <2>1. ASSUME NEW ex, NEW b, Ensure(ex, b) PROVE wanted'
    BY <2>1 DEF Ensure, EnsureAnswers, jobVars
  <2>2. CASE CallEnsure \/ CallRestart \/ CallStop
    BY <2>1, <2>2 DEF CallEnsure, CallRestart, CallStop, Stop, StopInternal, jobVars
  <2>3. ASSUME NEW g \in Starts, RestartTimer(g) PROVE wanted'
    BY <2>3 DEF RestartTimer, jobVars, WInv, Disarmed
  <2>4. ASSUME NEW g \in Starts, Back(g) PROVE wanted'
    BY <2>1, <2>4 DEF Back, BackToVim, BackToEnsure, BackToRestart, BackToStop, BackToStart, Stop, StopInternal, jobVars
  <2>5. CASE KillTimer \/ Notice \/ ExitBegins \/ CrashAges
    BY <2>5 DEF KillTimer, Notice, ExitBegins, CrashAges, jobVars
  <2>6. ASSUME NEW g \in Starts, Dies(g) \/ Pong(g) \/ ReadPong(g) \/ StaleExit(g) \/ ExitEnds(g) PROVE wanted'
    BY <2>6 DEF Dies, Pong, ReadPong, StaleExit, ExitEnds, jobVars
  <2>7. ASSUME NEW o \in Ops, IssueOp(o) \/ Answer(o) \/ ReadAnswer(o) PROVE wanted'
    BY <2>7 DEF IssueOp, Answer, ReadAnswer, jobVars
  <2>8. QED
    BY <2>2, <2>3, <2>4, <2>5, <2>6, <2>7 DEF Next
<1>2. QED
  BY <1>1, WInit, WStep, PTL DEF Spec, OnlyWantedStarts

----------------------------------------------------------------------------
(* What was promised is coming, and what was stopped is going.             *)

\* g's process has ended, is being killed, or will be.
Dying(g) == proc[g] \in {"dead", "killed"} \/ (proc[g] = "running" /\ killTimer = g)

\* A call that has not returned will start a daemon, or say that it could not.
Asking == \E g \in Starts : Pending(g) /\ exits[g].then \in {"ensure", "restart", "start"}

\* Who was told there is or will be a daemon, and was told nothing else since, can wait
\* for something: the daemon that runs, the exit of one that was not stopped, the exit
\* behind which the start is staged, the restart timer, or a call that is to start one.
\* PromiseKept, without the time it takes.
StartComing ==
  wanted /\ ~refused /\ ~tripped =>
    \/ IsRunning /\ ~stopping
    \/ job # 0 /\ proc[job] = "dead" /\ ~stopping
    \/ generation # 0 /\ restartAfterExit = generation /\ (InCallback \/ (job # 0 /\ Dying(job)))
    \/ generation \in timers
    \/ Asking

\* A daemon that is being stopped will be killed if it does not go.  StopEnds, without the
\* time it takes.
StopComing == stopping /\ job # 0 => Dying(job)

\* A process is lost only with a start that was refused.
LostSaid == Lost => refused \/ Asking

Coming == StartComing /\ StopComing /\ LostSaid
PInv == WInv /\ Coming

LEMMA PFacts == ASSUME PInv PROVE Daemon /\ Kept(exits) /\ tripped \in BOOLEAN /\ OneTimer
BY KeptExits DEF PInv, WInv, IInv, FlagsOK

\* Whatever a start comes to, whoever is told that there will be a daemon can wait for it.
LEMMA PStart ==
  ASSUME PInv, NEW ex, Within(ex), NEW b, EnsureStart(ex, b), UNCHANGED killTimer
  PROVE  Coming'
<1>1. Daemon
  BY PFacts
<1>2. CASE Refuse
  BY <1>2 DEF PInv, Coming, Refuse, jobVars, StartComing, StopComing, LostSaid, Dying
<1>3. CASE JobStart(ex)
  <2>1. /\ generation' \in Starts
        /\ \/ job' = generation' /\ proc'[job'] = "running" /\ ~stopping'
           \/ job' = 0 /\ refused'
           \/ /\ job' = 0 /\ exits'[generation'].how = "noticed" /\ exits'[generation'].then = "start"
    BY <1>1, <1>3, JobStartFacts
  <2>2. CASE job' = generation' /\ proc'[job'] = "running" /\ ~stopping'
    <3>1. IsRunning' /\ job' # 0
      BY <2>1, <2>2 DEF IsRunning, Alive, Starts
    <3>2. QED
      BY <2>2, <3>1 DEF Coming, StartComing, StopComing, LostSaid, Lost
  <2>3. CASE job' = 0 /\ refused'
    BY <2>3 DEF Coming, StartComing, StopComing, LostSaid
  <2>4. CASE job' = 0 /\ exits'[generation'].how = "noticed" /\ exits'[generation'].then = "start"
    <3>1. Asking'
      BY <2>1, <2>4 DEF Asking, Pending
    <3>2. QED
      BY <2>4, <3>1 DEF Coming, StartComing, StopComing, LostSaid
  <2>5. QED
    BY <2>1, <2>2, <2>3, <2>4
<1>4. QED
  BY <1>2, <1>3 DEF EnsureStart

LEMMA PEnsure ==
  ASSUME PInv, NEW ex, Within(ex), NEW b, Ensure(ex, b), UNCHANGED killTimer
  PROVE  Coming'
<1>1. Daemon
  BY PFacts
<1>2. CASE Unnoticed /\ Noticed(ex, job, "ensure") /\ UNCHANGED <<proc, jobVars>>
  <2>1. job \in Starts /\ job # 0
    BY <1>1, <1>2, Facts DEF Unnoticed
  <2>2. exits'[job].how = "noticed" /\ exits'[job].then = "ensure"
    BY <1>2, <2>1, NoticedFacts DEF Within, Callers
  <2>3. Asking'
    BY <2>1, <2>2 DEF Asking, Pending
  <2>4. QED
    BY <1>2, <2>1, <2>3 DEF PInv, Coming, StartComing, StopComing, LostSaid, Dying, jobVars
<1>3. CASE EnsureAnswers(ex, b)
  <2>1. CASE IsRunning
    <3>1. UNCHANGED <<proc, generation, job, stopping>> /\ job # 0
      BY <1>3, <2>1 DEF EnsureAnswers, Refuse, jobVars, IsRunning
    <3>2. StopComing' /\ LostSaid'
      BY <3>1 DEF PInv, Coming, StopComing, LostSaid, Lost, Dying
    <3>3. refused' \/ ~stopping \/ restartAfterExit' = generation
      BY <1>3, <2>1 DEF EnsureAnswers, Refuse
    <3>4. CASE ~stopping
      BY <2>1, <3>1, <3>2, <3>4 DEF Coming, StartComing, IsRunning, Alive
    <3>5. CASE stopping /\ restartAfterExit' = generation
      <4>1. Dying(job)' /\ generation # 0
        BY <1>1, <3>1, <3>5, Facts DEF PInv, Coming, StopComing, Dying
      <4>2. QED
        BY <3>1, <3>2, <3>5, <4>1 DEF Coming, StartComing
    <3>6. CASE refused'
      BY <3>2, <3>6 DEF Coming, StartComing
    <3>7. QED
      BY <3>3, <3>4, <3>5, <3>6
  <2>2. CASE EnsureStart(ex, b)
    BY <2>2, PStart
  <2>3. QED
    BY <1>3, <2>1, <2>2 DEF EnsureAnswers
<1>4. QED
  BY <1>2, <1>3 DEF Ensure

\* A stop: the kill timer runs, or the daemon is on its way out already.
LEMMA PStop ==
  ASSUME PInv, NEW r \in BOOLEAN, StopInternal(r), UNCHANGED <<proc, refused>> \/ (r /\ IsRunning /\ UNCHANGED proc),
         Asking' = Asking, IF r THEN job # 0 ELSE wanted' = Lost
  PROVE  Coming'
<1>1. /\ UNCHANGED <<proc, generation, job>>
      /\ job = 0 => UNCHANGED <<stopping, killTimer>>
      /\ job # 0 => stopping' = TRUE /\ killTimer' = generation
      /\ r => restartAfterExit' = generation
  BY DEF StopInternal
<1>2. job # 0 => job = generation /\ proc[job] \in {"running", "killed", "dead"}
  BY PFacts, Facts DEF Daemon, JobRuns
<1>3. job # 0 => Dying(job)'
  BY <1>1, <1>2 DEF Dying
<1>4. StopComing'
  BY <1>1, <1>3 DEF StopComing
<1>5. LostSaid'
  BY <1>1 DEF PInv, Coming, LostSaid, Lost
<1>6. StartComing'
  <2>1. CASE r
    BY <1>1, <1>2, <1>3, <2>1 DEF StartComing
  <2>2. CASE ~r
    BY <1>1, <2>2 DEF PInv, Coming, LostSaid, StartComing
  <2>3. QED
    BY <2>1, <2>2
<1>7. QED
  BY <1>4, <1>5, <1>6 DEF Coming

\* The newest process' death is noticed, by a call that was to stop or by nobody.
LEMMA PNotice ==
  ASSUME PInv, NEW then \in Callers, generation # 0, Noticed(exits, generation, then), proc[generation] = "dead",
         Quiet, exits[generation].how = "not",
         UNCHANGED <<proc, generation, job, stopping, restartAfterExit, killTimer, timers, wanted, refused>>,
         tripped' = tripped \/ then = "restart"
  PROVE  Coming'
<1>1. generation \in Starts /\ exits \in ExitSet
  BY PFacts, Facts
<1>2. /\ exits'[generation].how = "noticed" /\ exits'[generation].then = then
      /\ \A h \in Starts : h # generation => exits'[h] = exits[h]
  BY <1>1, NoticedFacts
<1>3. ~InCallback
  BY DEF InCallback, Callbacks
<1>4. Asking => Asking'
  BY <1>2 DEF Asking, Pending
<1>5. then = "restart" => Asking'
  BY <1>1, <1>2 DEF Asking, Pending
<1>6. StopComing' /\ LostSaid'
  BY <1>4 DEF PInv, Coming, StopComing, LostSaid, Lost, Dying
<1>7. StartComing'
  BY <1>3, <1>4, <1>5 DEF PInv, Coming, StartComing, Dying, IsRunning, Alive
<1>8. QED
  BY <1>6, <1>7 DEF Coming

LEMMA PCalls == PInv /\ (CallEnsure \/ CallStop \/ CallRestart \/ Notice) => Coming'
<1> SUFFICES ASSUME PInv PROVE CallEnsure \/ CallStop \/ CallRestart \/ Notice => Coming'
  OBVIOUS
<1>1. Daemon /\ Within(exits)
  BY PFacts DEF Kept
<1>2. Unnoticed => job = generation /\ proc[generation] = "dead" /\ generation # 0
  BY <1>1, Facts DEF Unnoticed
\* A death is noticed once.
<1>3. ASSUME MayCall, generation # 0, proc[generation] = "dead" PROVE Quiet /\ exits[generation].how = "not"
  <2>1. Quiet /\ generation \in Starts
    BY <1>1, <1>3, IsQuiet, Facts
  <2>2. exits[generation].how \in Hows
    BY <1>1, <2>1, Facts DEF ExitSet
  <2>3. QED
    BY <1>1, <1>3, <2>1, <2>2 DEF Daemon, Frames, Quiet, Hows
<1>4. ASSUME CallEnsure PROVE Coming'
  BY <1>1, <1>4, PEnsure DEF CallEnsure, timerVars
<1>5. ASSUME CallStop PROVE Coming'
  <2>1. MayCall /\ UNCHANGED <<proc, refused, tripped>>
    BY <1>5 DEF CallStop, Call, policyVars
  <2>2. CASE Stop /\ exits' = exits
    <3>1. StopInternal(FALSE) /\ wanted' = Lost /\ Asking' = Asking
      BY <2>2 DEF Stop, Asking, Pending
    <3>2. QED
      BY <2>1, <3>1, PStop
  <2>3. CASE Unnoticed /\ Noticed(exits, job, "stop") /\ UNCHANGED <<timerVars, jobVars, wanted>>
    <3>1. UNCHANGED <<generation, job, stopping, restartAfterExit, killTimer, timers, wanted>> /\ "stop" \in Callers
      BY <2>3 DEF timerVars, jobVars, Callers
    <3>2. QED
      BY <1>2, <1>3, <2>1, <2>3, <3>1, PNotice
  <2>4. QED
    BY <1>5, <2>2, <2>3 DEF CallStop
<1>6. ASSUME CallRestart PROVE Coming'
  <2>1. MayCall
    BY <1>6 DEF CallRestart, Call
  <2>2. CASE IsRunning /\ StopInternal(TRUE) /\ exits' = exits /\ UNCHANGED proc
    <3>1. job # 0 /\ Asking' = Asking
      BY <2>2 DEF IsRunning, Asking, Pending
    <3>2. QED
      BY <2>2, <3>1, PStop
  <2>3. CASE Unnoticed /\ Noticed(exits, job, "restart") /\ UNCHANGED <<proc, jobVars, timerVars, askVars>>
    <3>1. UNCHANGED <<proc, generation, job, stopping, restartAfterExit, killTimer, timers, wanted, refused>>
          /\ "restart" \in Callers
      BY <2>3 DEF timerVars, jobVars, askVars, Callers
    <3>2. QED
      BY <1>2, <1>3, <2>1, <2>3, <3>1, PNotice
  <2>4. CASE Ensure(exits, FALSE) /\ UNCHANGED timerVars
    BY <1>1, <2>4, PEnsure DEF timerVars
  <2>5. QED
    BY <1>6, <2>2, <2>3, <2>4 DEF CallRestart
<1>7. ASSUME Notice PROVE Coming'
  <2>1. UNCHANGED <<proc, generation, job, stopping, restartAfterExit, killTimer, timers, wanted, refused, tripped>>
        /\ "return" \in Callers
    BY <1>7 DEF Notice, processVars, policyVars, timerVars, jobVars, askVars, Callers
  <2>2. QED
    BY <1>3, <1>7, <2>1, PNotice DEF Notice
<1>8. QED
  BY <1>4, <1>5, <1>6, <1>7

\* A call in whose OnExit a callback was running goes on.
LEMMA PBack == \A g \in Starts : PInv /\ Back(g) => Coming'
<1> SUFFICES ASSUME PInv, NEW g \in Starts, Back(g) PROVE Coming'
  OBVIOUS
<1>1. exits[g].how = "done" /\ UNCHANGED tripped
  BY DEF Back, BackToVim, BackToEnsure, BackToRestart, BackToStop, BackToStart, BackIn, policyVars
<1>2. Daemon /\ Kept(Returned(g)) /\ Within(Returned(g))
  BY <1>1, PFacts, KeptReturned DEF Kept
<1>3. ASSUME exits' = Returned(g), exits[g].then \in {"return", "stop"} PROVE Asking' = Asking
  <2>1. \A h \in Starts : h # g => exits'[h] = exits[h]
    BY <1>2, <1>3 DEF Returned, Daemon, CoreOK, ExitSet
  <2>2. exits'[g].how = "not"
    BY <1>2, <1>3 DEF Returned, Daemon, CoreOK, ExitSet, NoExit
  <2>3. QED
    BY <1>3, <2>1, <2>2 DEF Asking, Pending
<1>4. CASE BackToVim(g)
  <2>1. /\ exits' = Returned(g) /\ exits[g].then = "return"
        /\ UNCHANGED <<proc, generation, job, stopping, restartAfterExit, killTimer, timers, wanted, refused>>
    BY <1>4 DEF BackToVim, BackIn, timerVars, jobVars, askVars
  <2>2. Asking' = Asking /\ InCallback' = InCallback
    BY <1>2, <1>3, <2>1, KeptFacts
  <2>3. QED
    BY <1>1, <2>1, <2>2 DEF PInv, Coming, StartComing, StopComing, LostSaid, Lost, Dying, IsRunning, Alive
<1>5. CASE BackToEnsure(g)
  BY <1>2, <1>5, PStart DEF BackToEnsure, timerVars
<1>6. CASE BackToRestart(g)
  BY <1>2, <1>6, PEnsure DEF BackToRestart, timerVars
<1>7. CASE BackToStop(g)
  <2>1. StopInternal(FALSE) /\ wanted' = Lost /\ Asking' = Asking /\ UNCHANGED <<proc, refused>>
    BY <1>3, <1>7 DEF BackToStop, BackIn, Stop
  <2>2. QED
    BY <2>1, PStop
<1>8. CASE BackToStart(g)
  BY <1>8 DEF BackToStart, Coming, StartComing, StopComing, LostSaid
<1>9. QED
  BY <1>4, <1>5, <1>6, <1>7, <1>8 DEF Back

LEMMA PTimers == PInv /\ (KillTimer \/ \E g \in Starts : RestartTimer(g)) => Coming'
<1> SUFFICES ASSUME PInv PROVE KillTimer \/ (\E g \in Starts : RestartTimer(g)) => Coming'
  OBVIOUS
<1>1. Daemon /\ Within(exits)
  BY PFacts DEF Kept
<1>2. ASSUME KillTimer PROVE Coming'
  <2>1. /\ UNCHANGED <<generation, job, stopping, restartAfterExit, timers, exits, wanted, refused, tripped>>
        /\ proc' = IF killTimer = generation /\ proc[killTimer] = "running"
                   THEN [proc EXCEPT ![killTimer] = "killed"] ELSE proc
    BY <1>2 DEF KillTimer, jobVars, policyVars, askVars, exitVars
  <2>2. ASSUME job # 0
        PROVE  /\ Dying(job) => Dying(job)'
               /\ proc'[job] = proc[job] \/ (proc[job] = "running" /\ proc'[job] = "killed")
    BY <1>1, <2>1, <2>2, Facts DEF Dying, ProcSet
  <2>3. IsRunning => IsRunning'
    BY <2>1, <2>2 DEF IsRunning, Alive
  <2>4. Lost' => Lost
    BY <1>1, <2>1, Facts DEF Lost, ProcSet
  <2>5. StopComing' /\ LostSaid'
    BY <2>1, <2>2, <2>4 DEF PInv, Coming, StopComing, LostSaid, Asking, Pending
  <2>6. StartComing'
    BY <2>1, <2>2, <2>3 DEF PInv, Coming, StartComing, InCallback, Asking, Pending
  <2>7. QED
    BY <2>5, <2>6 DEF Coming
<1>3. ASSUME NEW g \in Starts, RestartTimer(g) PROVE Coming'
  <2>1. /\ g \in timers /\ timers' = timers \ {g}
        /\ UNCHANGED <<killTimer, wanted, tripped>>
    BY <1>3 DEF RestartTimer, policyVars
  <2>2. timers = {g} /\ ~stopping
    BY <2>1, PFacts DEF OneTimer
  <2>3. CASE EnsureStart(exits, tripped)
    BY <1>1, <2>1, <2>3, PStart
  <2>4. CASE ~(g = generation /\ ~stopping /\ ~IsRunning) /\ UNCHANGED <<proc, jobVars, caps, refused, exitVars>>
    <3>1. UNCHANGED <<proc, generation, job, stopping, restartAfterExit, refused, exits>>
      BY <2>4 DEF jobVars, exitVars
    <3>2. generation \in timers => IsRunning
      BY <2>2, <2>4
    <3>3. QED
      BY <2>1, <2>2, <3>1, <3>2 DEF PInv, Coming, StartComing, StopComing, LostSaid, Lost, Dying, IsRunning,
         Alive, InCallback, Asking, Pending
  <2>5. QED
    BY <1>3, <2>3, <2>4 DEF RestartTimer
<1>4. QED
  BY <1>2, <1>3

\* A daemon that was not stopped, or is to be replaced, is restarted, unless the breaker opens.
LEMMA PExitBegins == PInv /\ ExitBegins => Coming'
<1> SUFFICES ASSUME PInv, ExitBegins PROVE Coming'
  OBVIOUS
<1>1. /\ generation \in Starts /\ generation # 0 /\ proc[generation] = "dead" /\ job' = 0
      /\ proc' = [proc EXCEPT ![generation] = "reaped"]
      /\ UNCHANGED <<generation, timers, wanted, refused>>
      /\ exits'[generation].how \in Callbacks /\ exits[generation].how = "noticed"
      /\ exits'[generation].then = exits[generation].then
      /\ \A h \in Starts : h # generation => exits'[h] = exits[h]
  BY ExitFacts DEF PInv, WInv
<1>2. PICK stable \in BOOLEAN :
        LET restarting == ~stopping /\ NoteCrash(IF stable THEN 1 ELSE crashes + 1)
            manual == restartAfterExit = generation
        IN  /\ Account(stopping, stable)
            /\ restartAfterExit' = IF restarting \/ manual THEN generation ELSE 0
  BY ExitFacts DEF PInv, WInv
<1>3. InCallback' /\ ~InCallback
  BY <1>1 DEF InCallback, Callbacks
<1>4. Asking' = Asking
  BY <1>1 DEF Asking, Pending, Callbacks
<1>5. ~Lost'
  BY <1>1, PFacts, Facts DEF Lost, ProcSet
<1>6. SUFFICES ASSUME wanted, ~refused, ~tripped', restartAfterExit' # generation, ~Asking PROVE FALSE
  BY <1>1, <1>3, <1>4, <1>5 DEF Coming, StartComing, StopComing, LostSaid
<1>7. restartAfterExit # generation
  BY <1>2, <1>6
<1>8. stopping
  <2>1. stopping \/ ~NoteCrash(IF stable THEN 1 ELSE crashes + 1)
    BY <1>2, <1>6
  <2>2. stopping \/ NoteCrash((IF stable THEN 0 ELSE crashes) + 1)
    BY <1>2, <1>6, Zenon DEF Account
  <2>3. crashes \in Nat
    BY SupervisorAssumption DEF PInv, WInv, IInv, CountsOK
  <2>4. (IF stable THEN 0 ELSE crashes) + 1 = IF stable THEN 1 ELSE crashes + 1
    BY <2>3
  <2>5. QED
    BY <2>1, <2>2, <2>4
<1>9. ~tripped
  BY <1>1, PFacts DEF Daemon, Closed
<1>10. ~IsRunning /\ generation \notin timers
  BY <1>1, <1>8, PFacts, Facts DEF OneTimer, IsRunning, Alive
<1>11. QED
  BY <1>6, <1>7, <1>8, <1>9, <1>10 DEF PInv, Coming, StartComing

LEMMA PExitEnds == \A g \in Starts : PInv /\ ExitEnds(g) => Coming'
<1> SUFFICES ASSUME PInv, NEW g \in Starts, ExitEnds(g) PROVE Coming'
  OBVIOUS
<1>1. /\ exits[g].how \in Callbacks /\ exits'[g].how = "done" /\ exits'[g].then = exits[g].then
      /\ \A h \in Starts : h # g => exits'[h] = exits[h]
      /\ UNCHANGED <<proc, generation, job, stopping, killTimer, wanted, refused, tripped>>
  BY PFacts, EndFacts
<1>2. Asking' = Asking
  BY <1>1 DEF Asking, Pending, Callbacks
<1>3. StopComing' /\ LostSaid'
  BY <1>1, <1>2 DEF PInv, Coming, StopComing, LostSaid, Lost, Dying
<1>4. CASE restartAfterExit = g /\ g = generation
  <2>1. generation \in timers'
    BY <1>4 DEF ExitEnds
  <2>2. QED
    BY <1>1, <1>3, <2>1 DEF Coming, StartComing
<1>5. CASE ~(restartAfterExit = g /\ g = generation)
  <2>1. UNCHANGED <<restartAfterExit, timers>>
    BY <1>5 DEF ExitEnds
  <2>2. generation # 0 => generation \in Starts
    BY PFacts, Facts
  <2>3. restartAfterExit = generation /\ InCallback => InCallback'
    BY <1>1, <1>5, <2>2 DEF InCallback
  <2>4. StartComing'
    BY <1>1, <1>2, <2>1, <2>3 DEF PInv, Coming, StartComing, Dying, IsRunning, Alive
  <2>5. QED
    BY <1>3, <2>4 DEF Coming
<1>6. QED
  BY <1>4, <1>5

LEMMA PProcs == \A g \in Starts : PInv /\ (Dies(g) \/ StaleExit(g)) => Coming'
<1> SUFFICES ASSUME PInv, NEW g \in Starts PROVE Dies(g) \/ StaleExit(g) => Coming'
  OBVIOUS
<1>1. /\ generation \in Nat /\ job \in {0, generation} /\ (job # 0 => job \in Starts /\ job = generation)
      /\ (generation # 0 => generation \in Starts)
      /\ proc \in [Starts -> {"unborn", "running", "killed", "dead", "reaped"}]
  BY PFacts, Facts DEF ProcSet
<1>2. ASSUME Dies(g) PROVE Coming'
  <2>1. /\ UNCHANGED <<generation, job, stopping, restartAfterExit, killTimer, timers, exits, wanted, refused, tripped>>
        /\ Alive(g) /\ proc' = [proc EXCEPT ![g] = "dead"]
    BY <1>2 DEF Dies, timerVars, jobVars, askVars, exitVars, policyVars
  <2>2. Dying(job) /\ job # 0 => Dying(job)'
    BY <1>1, <2>1 DEF Dying
  <2>3. Lost' => Lost
    BY <1>1, <2>1 DEF Lost, Alive
  <2>4. Asking' = Asking /\ InCallback' = InCallback
    BY <2>1 DEF Asking, Pending, InCallback
  <2>5. StopComing' /\ LostSaid'
    BY <2>1, <2>2, <2>3, <2>4 DEF PInv, Coming, StopComing, LostSaid
  <2>6. IsRunning => IsRunning' \/ (job # 0 /\ proc'[job] = "dead")
    BY <1>1, <2>1 DEF IsRunning, Alive
  <2>7. proc[job] = "dead" /\ job # 0 => proc'[job] = "dead"
    BY <1>1, <2>1
  <2>8. StartComing'
    <3>1. StartComing
      BY DEF PInv, Coming
    <3>2. UNCHANGED <<generation, job, stopping, restartAfterExit, timers, wanted, refused, tripped>>
      BY <2>1
    <3>3. QED
      BY ONLY <2>2, <2>4, <2>6, <2>7, <3>1, <3>2 DEF StartComing
  <2>9. QED
    BY <2>5, <2>8 DEF Coming
<1>3. ASSUME StaleExit(g) PROVE Coming'
  <2>1. /\ UNCHANGED <<generation, job, stopping, killTimer, timers, exits, wanted, refused, tripped>>
        /\ g # generation /\ proc' = [proc EXCEPT ![g] = "reaped"]
        /\ restartAfterExit = generation => restartAfterExit' = generation \/ generation = 0
    BY <1>3 DEF StaleExit, timerVars, askVars, exitVars, policyVars
  <2>2. /\ job # 0 => proc'[job] = proc[job]
        /\ generation # 0 => proc'[generation] = proc[generation]
    BY <1>1, <2>1
  <2>3. Asking' = Asking /\ InCallback' = InCallback /\ Lost' = Lost
    BY <2>1, <2>2 DEF Asking, Pending, InCallback, Lost
  <2>4. QED
    BY <2>1, <2>2, <2>3 DEF PInv, Coming, StartComing, StopComing, LostSaid, Dying, IsRunning, Alive
<1>4. QED
  BY <1>2, <1>3

LEMMA POthers ==
  PInv /\ UNCHANGED <<proc, generation, job, stopping, restartAfterExit, killTimer, timers, exits, wanted, refused, tripped>>
       => Coming'
BY DEF PInv, Coming, StartComing, StopComing, LostSaid, Lost, Dying, IsRunning, Alive, InCallback, Asking, Pending

LEMMA PStep == PInv /\ [Next]_vars => PInv'
<1> SUFFICES ASSUME PInv, [Next]_vars PROVE Coming'
  BY WStep DEF PInv
<1>1. CASE CallEnsure \/ CallStop \/ CallRestart \/ Notice
  BY <1>1, PCalls
<1>2. CASE KillTimer \/ \E g \in Starts : RestartTimer(g)
  BY <1>2, PTimers
<1>3. CASE ExitBegins
  BY <1>3, PExitBegins
<1>4. CASE CrashAges
  BY <1>4, POthers DEF CrashAges, processVars, timerVars, jobVars, askVars, exitVars
<1>5. ASSUME NEW g \in Starts, Dies(g) \/ StaleExit(g) PROVE Coming'
  BY <1>5, PProcs
<1>6. ASSUME NEW g \in Starts, ExitEnds(g) \/ Back(g) PROVE Coming'
  BY <1>6, PExitEnds, PBack
<1>7. ASSUME NEW g \in Starts, Pong(g) \/ ReadPong(g) PROVE Coming'
  BY <1>7, POthers DEF Pong, ReadPong, timerVars, jobVars, askVars, exitVars, policyVars
<1>8. ASSUME NEW o \in Ops, IssueOp(o) \/ Answer(o) \/ ReadAnswer(o) PROVE Coming'
  BY <1>8, POthers DEF IssueOp, Answer, ReadAnswer, processVars, timerVars, jobVars, askVars, exitVars, policyVars
<1>9. CASE UNCHANGED vars
  BY <1>9, POthers DEF vars, processVars, timerVars, jobVars, askVars, exitVars, policyVars
<1>10. QED
  BY <1>1, <1>2, <1>3, <1>4, <1>5, <1>6, <1>7, <1>8, <1>9 DEF Next

LEMMA PInit == Init => PInv
<1> SUFFICES ASSUME Init PROVE Coming
  BY WInit DEF PInv
<1>1. wanted = FALSE /\ job = 0 /\ generation = 0
  BY DEF Init
<1>2. QED
  BY <1>1 DEF Coming, StartComing, StopComing, LostSaid, Lost

\* core.vim:830-838: whoever was told that there is or will be a daemon is never left with
\* nothing to wait for, whatever exits, timers and calls come between.
THEOREM StartComingHolds == Spec => []StartComing
<1>1. PInv => StartComing
  BY DEF PInv, Coming
<1>2. QED
  BY <1>1, PInit, PStep, PTL DEF Spec

\* core.vim:951-952: a daemon that is being stopped has a kill timer of its own until it
\* has gone; no later call takes it away.
THEOREM StopComingHolds == Spec => []StopComing
<1>1. PInv => StopComing
  BY DEF PInv, Coming
<1>2. QED
  BY <1>1, PInit, PStep, PTL DEF Spec
=============================================================================
