------------------------------ MODULE Guardian ------------------------------
(***************************************************************************)
(* One ProjectGuardian (internal/project/guardian.go): the goroutine that  *)
(* watches a project and starts it again, together with the web console's  *)
(* goroutines that start, stop, restart, reset and pause the same project. *)
(* All of them run the same startProject without excluding each other;     *)
(* stateMu protects single reads and writes, and not all of them.          *)
(*                                                                         *)
(* The watched process belongs to the environment: it may appear (a start  *)
(* script that worked, or an operator who started it by hand) and vanish   *)
(* (a crash, a preAction that kills it) at any time.  Time is abstract: a  *)
(* tick, and the end of startupTimeout, may come at any moment.            *)
(***************************************************************************)
EXTENDS Integers

CONSTANTS
  Loop,                \* the goroutine running loop()
  Callers,             \* goroutines of the web server that serve a request
  MaxRestartAttempts,  \* cfg.MaxRestartAttempts
  Pids,                \* process ids the system gives to the project
  LookupMayFail,       \* findPid may come back empty although the project runs
  MaxRequests          \* bound: console requests made in one behaviour

ASSUME GuardianAssumption ==
  /\ Loop \notin Callers
  /\ MaxRestartAttempts \in Int
  /\ Pids \subseteq Nat \ {0}
  /\ LookupMayFail \in BOOLEAN
  /\ MaxRequests \in Nat

Threads == Callers \union {Loop}

VARIABLES
  state, paused, failCount, pid,  \* the guardian's fields
  startTime,        \* whether the startTime field is set
  stopping,         \* stopCh is closed
  pc,               \* where each goroutine is
  reg,              \* value a goroutine has read and not yet stored
  restarting,       \* callers inside ManualRestart
  proc,             \* pid of the project's process, 0 when there is none
  requests,         \* console requests made so far
  \* History variables, read by no action:
  fails,            \* starts that failed since failCount was last reset
  pausedLaunches,   \* scripts the loop launched since the last pause, paused
  overlapped        \* two goroutines have been inside startProject at once

fields  == <<state, paused, failCount, pid, startTime>>
history == <<fails, pausedLaunches, overlapped>>
vars    == <<fields, stopping, pc, reg, restarting, proc, requests, history>>

States == {"INIT", "RUNNING", "STOPPED", "STARTING", "FAILED", "PAUSED"}

\* Labels past startProject's CanAutoRestart check: the start is under way.
InStartLabels ==
  {"setStarting", "runScript", "waitStartup", "waitMore", "setFailed",
   "loadCount", "storeCount", "markRunning", "resetCount", "recordStart",
   "storePid"}
StartLabels == InStartLabels \union {"canStart", "refuse"}
LoopLabels  == {"select", "checkFailed", "checkAlive", "setRunning",
                "ensure", "storeEnsured", "exited"}
CallLabels  == {"idle", "stopScript", "setStopped", "restartReset"}

InStart(t) == pc[t] \in InStartLabels

\* ensureStartInfo keeps stateMu locked while it looks the pid up.
MuFree == pc[Loop] # "storeEnsured"

Goto(t, from, to) == pc[t] = from /\ pc' = [pc EXCEPT ![t] = to]

\* Where startProject returns to.
Caller(t) == IF t = Loop THEN "select" ELSE "idle"

FindPid == IF LookupMayFail THEN {proc, 0} ELSE {proc}

\* Variant: one attempt more than the limit.
LockedLate == failCount > MaxRestartAttempts

\* The lockout reached: CanAutoRestart is its negation.
Locked == failCount >= MaxRestartAttempts

Init ==
  /\ state = "INIT" /\ paused = FALSE /\ failCount = 0 /\ pid = 0
  /\ startTime = FALSE /\ stopping = FALSE
  /\ pc = [t \in Threads |-> Caller(t)]
  /\ reg = [t \in Threads |-> 0]
  /\ restarting = {}
  /\ proc \in Pids \union {0}
  /\ requests = 0
  /\ fails = 0 /\ pausedLaunches = 0 /\ overlapped = FALSE

-----------------------------------------------------------------------------
(* Shapes that several steps share                                         *)

Outside == UNCHANGED <<stopping, restarting, proc, requests>>

\* A step that reads and branches.
Move(t, from, to) ==
  Goto(t, from, to) /\ UNCHANGED <<fields, reg, history>> /\ Outside

\* A step that is one setState.
SetState(t, from, s, to) ==
  /\ MuFree
  /\ Goto(t, from, to)
  /\ state' = s
  /\ UNCHANGED <<paused, failCount, pid, startTime, reg, history>> /\ Outside

\* A step that stores into pid what the goroutine has looked up.
AssignPid(t, from, to) ==
  /\ Goto(t, from, to)
  /\ pid' = reg[t]
  /\ reg' = [reg EXCEPT ![t] = 0]
  /\ UNCHANGED <<state, paused, failCount, startTime, history>> /\ Outside

ResetFailCount ==
  /\ MuFree
  /\ failCount' = 0 /\ fails' = 0
  /\ UNCHANGED <<state, paused, pid, startTime, stopping, reg, proc,
                 pausedLaunches, overlapped>>

-----------------------------------------------------------------------------
(* startProject, run by the loop and by the callers                        *)

\* Variant: startProject without its own check of the limit.
CanStartUnchecked(t) ==
  /\ MuFree
  /\ Goto(t, "canStart", "setStarting")
  /\ overlapped' = (overlapped \/ \E u \in Threads \ {t} : InStart(u))
  /\ UNCHANGED <<fields, reg, fails, pausedLaunches>> /\ Outside

\* The limit is read here, on entry, and not again.
CanStart(t) ==
  /\ MuFree
  /\ Goto(t, "canStart", IF Locked THEN "refuse" ELSE "setStarting")
  /\ overlapped' = (overlapped \/ (~Locked /\ \E u \in Threads \ {t} : InStart(u)))
  /\ UNCHANGED <<fields, reg, fails, pausedLaunches>> /\ Outside

\* "max restart attempts reached"
Refuse(t) == SetState(t, "refuse", "FAILED", Caller(t))

SetStarting(t) == SetState(t, "setStarting", "STARTING", "runScript")

\* RunStartScript launches the script; in sync mode the script may still fail ...
RunScript(t) ==
  /\ \E to \in {"waitStartup", "setFailed"} : Goto(t, "runScript", to)
  /\ pausedLaunches' = IF t = Loop /\ paused THEN pausedLaunches + 1
                                             ELSE pausedLaunches
  /\ UNCHANGED <<fields, reg, fails, overlapped>> /\ Outside

\* ... or there is nothing to launch: no script configured, or none at the path.
NoScript(t) == Move(t, "runScript", "setFailed")

\* waitForStartup's first probe comes before it looks at stopCh.
WaitStartup(t) ==
  Move(t, "waitStartup", IF proc # 0 THEN "markRunning"
                         ELSE IF stopping THEN "setFailed" ELSE "waitMore")

\* Variant: a start that times out is not counted.
WaitMoreUncounted(t) ==
  \/ proc # 0 /\ Move(t, "waitMore", "markRunning")
  \/ (proc = 0 \/ stopping) /\ Move(t, "waitMore", Caller(t))

\* Later probes, one every two seconds; stopCh and the deadline end the wait.
WaitMore(t) ==
  \/ proc # 0 /\ Move(t, "waitMore", "markRunning")
  \/ (proc = 0 \/ stopping) /\ Move(t, "waitMore", "setFailed")

SetFailed(t) == SetState(t, "setFailed", "FAILED", "loadCount")

\* failCount++ takes no lock: the load and the store are separate steps.
LoadCount(t) ==
  /\ Goto(t, "loadCount", "storeCount")
  /\ reg' = [reg EXCEPT ![t] = failCount]
  /\ UNCHANGED <<fields, history>> /\ Outside

StoreIncrement(t, delta) ==
  /\ Goto(t, "storeCount", Caller(t))
  /\ failCount' = reg[t] + delta
  /\ reg' = [reg EXCEPT ![t] = 0]
  /\ fails' = fails + 1
  /\ UNCHANGED <<state, paused, pid, startTime, pausedLaunches, overlapped>>
  /\ Outside

\* Variant: failCount--.
StoreCountDown(t) == StoreIncrement(t, -1)

StoreCount(t) == StoreIncrement(t, 1)

MarkRunning(t) == SetState(t, "markRunning", "RUNNING", "resetCount")

ResetCount(t) ==
  /\ Goto(t, "resetCount", "recordStart")
  /\ ResetFailCount
  /\ UNCHANGED <<restarting, requests>>

\* startTime and pid are written without the lock; findPid runs in between.
RecordStart(t) ==
  /\ Goto(t, "recordStart", "storePid")
  /\ startTime' = TRUE
  /\ \E p \in FindPid : reg' = [reg EXCEPT ![t] = p]
  /\ UNCHANGED <<state, paused, failCount, pid, history>> /\ Outside

\* The postActions that follow touch nothing of the guardian.
StorePid(t) == AssignPid(t, "storePid", Caller(t))

StartProject(t) ==
  \/ CanStart(t) \/ Refuse(t) \/ SetStarting(t) \/ RunScript(t)
  \/ NoScript(t) \/ WaitStartup(t) \/ WaitMore(t) \/ SetFailed(t)
  \/ LoadCount(t) \/ StoreCount(t) \/ MarkRunning(t) \/ ResetCount(t)
  \/ RecordStart(t) \/ StorePid(t)

-----------------------------------------------------------------------------
(* loop()                                                                  *)

\* Variant: the loop does not look at the pause flag.
TickUnpaused == MuFree /\ Move(Loop, "select", "checkFailed")

\* A tick that finds the guardian paused does nothing and has no step here.
Tick == MuFree /\ ~paused /\ Move(Loop, "select", "checkFailed")

CheckFailed ==
  MuFree /\ Move(Loop, "checkFailed", IF Locked THEN "select" ELSE "checkAlive")

\* Variant: a live project needs nothing done.
CheckAliveOnly ==
  Move(Loop, "checkAlive", IF proc = 0 THEN "canStart" ELSE "select")

CheckAlive ==
  Move(Loop, "checkAlive", IF proc = 0 THEN "canStart" ELSE "setRunning")

SetRunning ==
  /\ Goto(Loop, "setRunning", "ensure")
  /\ state' = "RUNNING"
  /\ UNCHANGED <<paused, failCount, pid, startTime, reg, fails, pausedLaunches,
                 overlapped>> /\ Outside

\* ensureStartInfo, from its Lock up to what findPid returns.
Ensure ==
  /\ startTime' = TRUE
  /\ \/ pid # 0 /\ Goto(Loop, "ensure", "select") /\ UNCHANGED reg
     \/ /\ pid = 0 /\ Goto(Loop, "ensure", "storeEnsured")
        /\ \E p \in FindPid : reg' = [reg EXCEPT ![Loop] = p]
  /\ UNCHANGED <<state, paused, failCount, pid, history>> /\ Outside

StoreEnsured == AssignPid(Loop, "storeEnsured", "select")

\* Variant: stopCh is looked at after the pause flag.
ExitUnpaused == stopping /\ ~paused /\ Move(Loop, "select", "exited")

Exit == stopping /\ Move(Loop, "select", "exited")

LoopStep == Tick \/ CheckFailed \/ CheckAlive \/ SetRunning \/ Ensure \/ StoreEnsured

-----------------------------------------------------------------------------
(* The console's requests and the daemon's Stop                            *)

Request == requests < MaxRequests /\ requests' = requests + 1

ManualStart(c) ==
  /\ Request
  /\ Goto(c, "idle", "canStart")
  /\ ResetFailCount
  /\ UNCHANGED restarting

ManualStop(c) ==
  /\ Request
  /\ Goto(c, "idle", "stopScript")
  /\ UNCHANGED <<fields, stopping, reg, restarting, proc, history>>

ManualRestart(c) ==
  /\ Request
  /\ Goto(c, "idle", "stopScript")
  /\ ResetFailCount
  /\ restarting' = restarting \union {c}

\* stopProject: the stop script may be empty or fail, and its result is dropped.
StopScript(c) ==
  /\ Goto(c, "stopScript", "setStopped")
  /\ proc' \in {proc, 0}
  /\ UNCHANGED <<fields, stopping, reg, restarting, requests, history>>

SetStopped(c) ==
  /\ MuFree
  /\ Goto(c, "setStopped", IF c \in restarting THEN "restartReset" ELSE "idle")
  /\ state' = "STOPPED" /\ pid' = 0 /\ startTime' = FALSE
  /\ UNCHANGED <<paused, failCount, reg, history>> /\ Outside

\* ManualRestart after its two seconds of sleep: reset once more, then start.
RestartReset(c) ==
  /\ Goto(c, "restartReset", "canStart")
  /\ ResetFailCount
  /\ restarting' = restarting \ {c}
  /\ UNCHANGED requests

CallStep(c) == StopScript(c) \/ SetStopped(c) \/ RestartReset(c)

\* Manager.ResetFailCount and ResetFailCountByName.
ConsoleReset == Request /\ ResetFailCount /\ UNCHANGED <<pc, restarting>>

PauseTo(p, resumed) ==
  /\ Request /\ MuFree
  /\ paused' = p
  /\ state' = IF p THEN "PAUSED" ELSE resumed
  /\ pausedLaunches' = IF p /\ ~paused THEN 0 ELSE pausedLaunches
  /\ UNCHANGED <<failCount, pid, startTime, stopping, pc, reg, restarting, proc,
                 fails, overlapped>>

\* Variant: resuming leaves the state alone.
SetPausedKeepState(p) == PauseTo(p, state)

SetPaused(p) == PauseTo(p, "INIT")

Stop ==
  /\ ~stopping
  /\ stopping' = TRUE
  /\ UNCHANGED <<fields, pc, reg, restarting, proc, requests, history>>

\* The project's process, seen from the guardian.
Appear(p) ==
  /\ proc' = p
  /\ UNCHANGED <<fields, stopping, pc, reg, restarting, requests, history>>

ProcUp   == proc = 0 /\ \E p \in Pids : Appear(p)
ProcDown == proc # 0 /\ Appear(0)

-----------------------------------------------------------------------------
Next ==
  \/ \E t \in Threads : StartProject(t)
  \/ LoopStep \/ Exit
  \/ \E c \in Callers : ManualStart(c) \/ ManualStop(c) \/ ManualRestart(c) \/ CallStep(c)
  \/ ConsoleReset \/ \E p \in BOOLEAN : SetPaused(p)
  \/ Stop \/ ProcUp \/ ProcDown

Spec == Init /\ [][Next]_vars

\* A goroutine that can run does run; scripts, actions and lookups return; and
\* the select of loop(), which picks at random between a tick and the closed
\* stopCh, cannot pick the tick for ever.
Fairness ==
  /\ \A t \in Threads : WF_vars(StartProject(t))
  /\ \A c \in Callers : WF_vars(CallStep(c))
  /\ WF_vars(LoopStep)
  /\ SF_vars(Exit)

FairSpec == Spec /\ Fairness
-----------------------------------------------------------------------------
(* Properties                                                              *)

TypeOK ==
  /\ state \in States
  /\ paused \in BOOLEAN
  /\ failCount \in Nat
  /\ pid \in Pids \union {0}
  /\ startTime \in BOOLEAN
  /\ stopping \in BOOLEAN
  /\ pc \in [Threads -> StartLabels \union LoopLabels \union CallLabels]
  /\ pc[Loop] \in StartLabels \union LoopLabels
  /\ \A c \in Callers : pc[c] \in StartLabels \union CallLabels
  /\ reg \in [Threads -> Nat]
  /\ \A t \in Threads : pc[t] \in {"storePid", "storeEnsured"} => reg[t] \in Pids \union {0}
  /\ restarting \subseteq Callers
  /\ proc \in Pids \union {0}
  /\ requests \in 0..MaxRequests
  /\ fails \in Nat
  /\ pausedLaunches \in Nat
  /\ overlapped \in BOOLEAN

\* A tick that found the pause flag clear and may still launch the script.
Armed == pc[Loop] \in {"checkFailed", "checkAlive", "canStart", "setStarting", "runScript"}

Gate == INSTANCE PauseGate WITH gatePaused <- paused, armed <- Armed,
                                launches <- pausedLaunches

\* The guardian keeps PauseGate's promise: every launch by the loop belongs to
\* a tick that had found the guardian unpaused, and to one only.
GateSpec == Gate!Spec

\* A pause stops automatic starts but for the one tick under way when it
\* arrived: isPaused is read at the top of the tick, the script runs later.
AtMostOneLaunchWhilePaused == pausedLaunches <= 1

\* The console shows PAUSED for no project that the loop would restart: every
\* setState that races with SetPaused(false) can hide a pause, never fake one.
PausedStateMeansPaused == state = "PAUSED" => paused

\* The count overshoots maxRestartAttempts only when a manual start overlapped
\* another start: the check and the unlocked failCount++ are apart.
SingleStarterBound == ~overlapped => failCount = 0 \/ failCount <= MaxRestartAttempts

Limit == IF MaxRestartAttempts > 0 THEN MaxRestartAttempts ELSE 0

\* However starts overlap, and whatever a store undoes that was reset since its
\* load, the count passes the limit by at most two for each request the console
\* has made: one for the request's own start and one for a start of the loop
\* that was under way, both past the check of the limit.
OvershootBound == failCount <= Limit + 2 * requests

\* Nobody is in the middle of a start or of a console call, the limit is reached.
LockedOut == Locked /\ ~InStart(Loop) /\ \A c \in Callers : pc[c] = "idle"

\* Lockout holds until somebody at the console acts.  A tick that read the
\* count before the last failure was stored is stopped by startProject's check.
LockoutStable == [][LockedOut /\ requests' = requests => LockedOut']_vars

\* A project that is up and watched ends up shown as RUNNING, with a start time
\* and a pid (some pid: one once found is never looked up again), whatever
\* interrupted starts, stops and pauses left in the fields.
StatusConverges ==
  <>[](proc # 0 /\ ~paused /\ ~Locked /\ ~stopping) =>
    <>[](state = "RUNNING" /\ startTime /\ (pid # 0 \/ LookupMayFail))

\* A project that stays down is not restarted for ever.
DeadProjectLocksOut == <>[](proc = 0 /\ ~paused /\ ~stopping) => <>[]LockedOut

\* Guardian.Stop returns: the loop notices stopCh, from inside a start too.
StopTerminates == stopping ~> pc[Loop] = "exited"

-----------------------------------------------------------------------------
(* What the documents say and the code does not do                         *)

\* A reset takes effect (README, section 8): afterwards failCount counts
\* only starts that failed since.
ResetNotLost == failCount <= fails
=============================================================================
