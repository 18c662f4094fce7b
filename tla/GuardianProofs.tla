--------------------------- MODULE GuardianProofs ---------------------------
(***************************************************************************)
(* Proofs about Guardian, for every number of callers, every limit on the  *)
(* restart attempts and every number of console requests.                  *)
(***************************************************************************)
EXTENDS Guardian, FiniteSetTheorems, TLAPS

LEMMA ThreadsFacts ==
  /\ Loop \in Threads
  /\ \A c \in Callers : c \in Threads /\ c # Loop
BY GuardianAssumption DEF Threads

LEMMA InitType == Init => TypeOK
<1> SUFFICES ASSUME Init PROVE TypeOK
  OBVIOUS
<1> USE GuardianAssumption, ThreadsFacts DEF Init
<1>1. /\ pc \in [Threads -> {"select", "idle"}]
      /\ pc[Loop] = "select"
      /\ \A c \in Callers : pc[c] = "idle"
  BY DEF Caller
<1>2. \A t \in Threads : pc[t] \notin {"storePid", "storeEnsured"}
  BY <1>1
<1>3. reg \in [Threads -> Nat]
  OBVIOUS
<1>4. /\ pc \in [Threads -> StartLabels \union LoopLabels \union CallLabels]
      /\ pc[Loop] \in StartLabels \union LoopLabels
      /\ \A c \in Callers : pc[c] \in StartLabels \union CallLabels
  BY <1>1 DEF LoopLabels, CallLabels
<1>5. /\ state \in States
      /\ pid \in Pids \union {0} /\ proc \in Pids \union {0}
      /\ requests \in 0..MaxRequests
  BY DEF States
<1> QED
  BY <1>2, <1>3, <1>4, <1>5 DEF TypeOK

\* Each step keeps the variables' types.
LEMMA NextType == TypeOK /\ [Next]_vars => TypeOK'
<1> SUFFICES ASSUME TypeOK, [Next]_vars PROVE TypeOK'
  OBVIOUS
<1> USE GuardianAssumption, ThreadsFacts
<1>1. ASSUME NEW t \in Threads, StartProject(t) PROVE TypeOK'
  <2> USE DEF TypeOK, Outside, Goto, Move, SetState, fields, history, Caller, States,
              StartLabels, InStartLabels, LoopLabels, CallLabels, Threads
  <2>1. CASE CanStart(t)         BY <2>1 DEF CanStart
  <2>2. CASE Refuse(t)           BY <2>2 DEF Refuse
  <2>3. CASE SetStarting(t)      BY <2>3 DEF SetStarting
  <2>4. CASE RunScript(t)        BY <2>4 DEF RunScript
  <2>5. CASE NoScript(t)         BY <2>5 DEF NoScript
  <2>6. CASE WaitStartup(t)      BY <2>6 DEF WaitStartup
  <2>7. CASE WaitMore(t)         BY <2>7 DEF WaitMore
  <2>8. CASE SetFailed(t)        BY <2>8 DEF SetFailed
  <2>9. CASE LoadCount(t)        BY <2>9 DEF LoadCount
  <2>10. CASE StoreCount(t)      BY <2>10 DEF StoreCount, StoreIncrement
  <2>11. CASE MarkRunning(t)     BY <2>11 DEF MarkRunning
  <2>12. CASE ResetCount(t)      BY <2>12 DEF ResetCount, ResetFailCount
  <2>13. CASE RecordStart(t)     BY <2>13 DEF RecordStart, FindPid
  <2>14. CASE StorePid(t)        BY <2>14 DEF StorePid, AssignPid
  <2> QED BY <1>1, <2>1, <2>2, <2>3, <2>4, <2>5, <2>6, <2>7, <2>8, <2>9, <2>10,
             <2>11, <2>12, <2>13, <2>14 DEF StartProject
<1>2. ASSUME LoopStep \/ Exit PROVE TypeOK'
  <2> USE DEF TypeOK, Outside, Goto, Move, fields, history, States,
              StartLabels, InStartLabels, LoopLabels, CallLabels
  <2>1. CASE Tick                BY <2>1 DEF Tick
  <2>2. CASE CheckFailed         BY <2>2 DEF CheckFailed
  <2>3. CASE CheckAlive          BY <2>3 DEF CheckAlive
  <2>4. CASE SetRunning          BY <2>4 DEF SetRunning
  <2>5. CASE Ensure              BY <2>5 DEF Ensure, FindPid
  <2>6. CASE StoreEnsured        BY <2>6 DEF StoreEnsured, AssignPid
  <2>7. CASE Exit                BY <2>7 DEF Exit
  <2> QED BY <1>2, <2>1, <2>2, <2>3, <2>4, <2>5, <2>6, <2>7 DEF LoopStep
<1>3. ASSUME NEW c \in Callers,
             ManualStart(c) \/ ManualStop(c) \/ ManualRestart(c) \/ CallStep(c)
      PROVE  TypeOK'
  <2> USE DEF TypeOK, Outside, Goto, fields, history, States,
              StartLabels, InStartLabels, LoopLabels, CallLabels, Request, ResetFailCount
  <2>1. CASE ManualStart(c)      BY <2>1 DEF ManualStart
  <2>2. CASE ManualStop(c)       BY <2>2 DEF ManualStop
  <2>3. CASE ManualRestart(c)    BY <2>3 DEF ManualRestart
  <2>4. CASE StopScript(c)       BY <2>4 DEF StopScript
  <2>5. CASE SetStopped(c)       BY <2>5 DEF SetStopped
  <2>6. CASE RestartReset(c)     BY <2>6 DEF RestartReset
  <2> QED BY <1>3, <2>1, <2>2, <2>3, <2>4, <2>5, <2>6 DEF CallStep
<1>4. CASE ConsoleReset
  BY <1>4 DEF TypeOK, ConsoleReset, Request, ResetFailCount, fields, history
<1>5. ASSUME NEW p \in BOOLEAN, SetPaused(p) PROVE TypeOK'
  BY <1>5 DEF TypeOK, SetPaused, PauseTo, Request, States
<1>6. CASE Stop
  BY <1>6 DEF TypeOK, Stop, fields, history
<1>7. CASE ProcUp \/ ProcDown
  BY <1>7 DEF TypeOK, ProcUp, ProcDown, Appear, fields, history
<1>8. CASE UNCHANGED vars
  BY <1>8 DEF TypeOK, vars, fields, history
<1> QED BY <1>1, <1>2, <1>3, <1>4, <1>5, <1>6, <1>7, <1>8 DEF Next

\* Type correctness: every field of the guardian, and every value a goroutine
\* has read and not yet stored, keeps its type whatever the goroutines do.
THEOREM TypeCorrect == Spec => []TypeOK
<1>1. Init => TypeOK BY InitType
<1>2. TypeOK /\ [Next]_vars => TypeOK' BY NextType
<1> QED BY <1>1, <1>2, PTL DEF Spec
-----------------------------------------------------------------------------
(* What pausing promises                                                   *)

\* A step of the guardian is a step of PauseGate or leaves its variables alone.
\* Each goroutine's step is looked at twice: only the loop's can arm or launch.
LEMMA GateStep == TypeOK /\ [Next]_vars => [Gate!Next]_(Gate!gateVars)
<1> SUFFICES ASSUME TypeOK, [Next]_vars PROVE Gate!Next \/ UNCHANGED Gate!gateVars
  OBVIOUS
<1> USE GuardianAssumption, ThreadsFacts
    DEF Gate!Next, Gate!gateVars, Gate!Pause, Gate!Resume, Gate!Arm, Gate!Disarm, Gate!Launch
<1>1. pc \in [Threads -> StartLabels \union LoopLabels \union CallLabels]
  BY DEF TypeOK
<1>2. ASSUME NEW t \in Threads, StartProject(t)
      PROVE  Gate!Next \/ UNCHANGED Gate!gateVars
  <2> USE <1>1 DEF Armed, Outside, Goto, Move, SetState, fields, history, Caller
  <2>1. CASE CanStart(t)         BY <2>1 DEF CanStart
  <2>2. CASE Refuse(t)           BY <2>2 DEF Refuse
  <2>3. CASE SetStarting(t)      BY <2>3 DEF SetStarting
  <2>4. CASE RunScript(t)        BY <2>4 DEF RunScript
  <2>5. CASE NoScript(t)         BY <2>5 DEF NoScript
  <2>6. CASE WaitStartup(t)      BY <2>6 DEF WaitStartup
  <2>7. CASE WaitMore(t)         BY <2>7 DEF WaitMore
  <2>8. CASE SetFailed(t)        BY <2>8 DEF SetFailed
  <2>9. CASE LoadCount(t)        BY <2>9 DEF LoadCount
  <2>10. CASE StoreCount(t)      BY <2>10 DEF StoreCount, StoreIncrement
  <2>11. CASE MarkRunning(t)     BY <2>11 DEF MarkRunning
  <2>12. CASE ResetCount(t)      BY <2>12 DEF ResetCount, ResetFailCount
  <2>13. CASE RecordStart(t)     BY <2>13 DEF RecordStart
  <2>14. CASE StorePid(t)        BY <2>14 DEF StorePid, AssignPid
  <2> QED BY <1>2, <2>1, <2>2, <2>3, <2>4, <2>5, <2>6, <2>7, <2>8, <2>9, <2>10,
             <2>11, <2>12, <2>13, <2>14 DEF StartProject
<1>3. ASSUME LoopStep \/ Exit PROVE Gate!Next \/ UNCHANGED Gate!gateVars
  <2> USE <1>1 DEF Armed, Outside, Goto, Move, fields, history
  <2>1. CASE Tick                BY <2>1 DEF Tick
  <2>2. CASE CheckFailed         BY <2>2 DEF CheckFailed
  <2>3. CASE CheckAlive          BY <2>3 DEF CheckAlive
  <2>4. CASE SetRunning          BY <2>4 DEF SetRunning
  <2>5. CASE Ensure              BY <2>5 DEF Ensure
  <2>6. CASE StoreEnsured        BY <2>6 DEF StoreEnsured, AssignPid
  <2>7. CASE Exit                BY <2>7 DEF Exit
  <2> QED BY <1>3, <2>1, <2>2, <2>3, <2>4, <2>5, <2>6, <2>7 DEF LoopStep
<1>4. ASSUME NEW c \in Callers,
             ManualStart(c) \/ ManualStop(c) \/ ManualRestart(c) \/ CallStep(c)
      PROVE  UNCHANGED Gate!gateVars
  <2> USE <1>1 DEF Armed, Outside, Goto, fields, history, ResetFailCount
  <2>1. CASE ManualStart(c)      BY <2>1 DEF ManualStart
  <2>2. CASE ManualStop(c)       BY <2>2 DEF ManualStop
  <2>3. CASE ManualRestart(c)    BY <2>3 DEF ManualRestart
  <2>4. CASE StopScript(c)       BY <2>4 DEF StopScript
  <2>5. CASE SetStopped(c)       BY <2>5 DEF SetStopped
  <2>6. CASE RestartReset(c)     BY <2>6 DEF RestartReset
  <2> QED BY <1>4, <2>1, <2>2, <2>3, <2>4, <2>5, <2>6 DEF CallStep
<1>5. CASE ConsoleReset
  BY <1>5 DEF Armed, ConsoleReset, ResetFailCount
<1>6. ASSUME NEW p \in BOOLEAN, SetPaused(p) PROVE Gate!Next
  BY <1>6 DEF TypeOK, Armed, SetPaused, PauseTo
<1>7. CASE Stop
  BY <1>7 DEF Armed, Stop, fields, history
<1>8. CASE ProcUp \/ ProcDown
  BY <1>8 DEF Armed, ProcUp, ProcDown, Appear, fields, history
<1>9. CASE UNCHANGED vars
  BY <1>9 DEF Armed, vars, fields, history
<1> QED BY <1>2, <1>3, <1>4, <1>5, <1>6, <1>7, <1>8, <1>9 DEF Next

\* The guardian implements PauseGate: whatever a launch interleaves with, it
\* belongs to a tick that had found the guardian unpaused, and to one only.
THEOREM ImplementsPauseGate == Spec => GateSpec
<1>1. Init => Gate!Init
  BY ThreadsFacts DEF Init, Gate!Init, Armed, Caller
<1>2. TypeOK /\ [Next]_vars => [Gate!Next]_(Gate!gateVars)
  BY GateStep
<1> QED BY <1>1, <1>2, TypeCorrect, PTL DEF Spec, GateSpec, Gate!Spec

\* AtMostOneLaunchWhilePaused is not inductive: it needs that a tick under way
\* while the guardian is paused has not launched yet.
GateInv ==
  /\ paused /\ Armed => pausedLaunches = 0
  /\ AtMostOneLaunchWhilePaused

\* The abstract promise is enough: only steps of PauseGate can break GateInv.
LEMMA GateInvStep == TypeOK /\ GateInv /\ [Gate!Next]_(Gate!gateVars) => GateInv'
<1> SUFFICES ASSUME TypeOK, GateInv, [Gate!Next]_(Gate!gateVars) PROVE GateInv'
  OBVIOUS
<1> USE DEF TypeOK, GateInv, AtMostOneLaunchWhilePaused
<1>1. CASE Gate!Pause  BY <1>1 DEF Gate!Pause
<1>2. CASE Gate!Resume BY <1>2 DEF Gate!Resume
<1>3. CASE Gate!Arm    BY <1>3 DEF Gate!Arm
<1>4. CASE Gate!Disarm BY <1>4 DEF Gate!Disarm
<1>5. CASE Gate!Launch BY <1>5 DEF Gate!Launch
<1>6. CASE UNCHANGED Gate!gateVars
  BY <1>6 DEF Gate!gateVars
<1> QED BY <1>1, <1>2, <1>3, <1>4, <1>5, <1>6 DEF Gate!Next

\* A pause stops automatic starts but for the one tick that was under way,
\* however many requests and goroutines there are.
THEOREM PauseBound == Spec => []AtMostOneLaunchWhilePaused
<1>1. Init => GateInv
  BY DEF Init, GateInv, AtMostOneLaunchWhilePaused
<1>2. TypeOK /\ GateInv /\ [Next]_vars => GateInv'
  BY GateStep, GateInvStep
<1>3. GateInv => AtMostOneLaunchWhilePaused
  BY DEF GateInv
<1> QED BY <1>1, <1>2, <1>3, TypeCorrect, PTL DEF Spec
-----------------------------------------------------------------------------
(* The limit on restart attempts                                           *)

\* As long as no two starts have overlapped there is one start at a time, and
\* it still has an attempt left: the count it read on entry has only been reset
\* since, and so has the value it is about to store, plus one.
StarterInv ==
  ~overlapped =>
    /\ \A t, u \in Threads : InStart(t) /\ InStart(u) => t = u
    /\ \A t \in Threads : InStart(t) => failCount < MaxRestartAttempts
    /\ \A t \in Threads : pc[t] = "storeCount" => reg[t] < MaxRestartAttempts

LimitInv == StarterInv /\ SingleStarterBound

LEMMA LimitStep == TypeOK /\ LimitInv /\ [Next]_vars => LimitInv'
<1> SUFFICES ASSUME TypeOK, LimitInv, [Next]_vars, ~overlapped' PROVE LimitInv'
  BY DEF LimitInv, StarterInv, SingleStarterBound
<1> USE GuardianAssumption, ThreadsFacts
<1>1. /\ pc \in [Threads -> StartLabels \union LoopLabels \union CallLabels]
      /\ reg \in [Threads -> Nat]
      /\ failCount \in Nat
  BY DEF TypeOK
<1> USE <1>1 DEF LimitInv, StarterInv, SingleStarterBound, InStart, InStartLabels
<1>2. ASSUME NEW t \in Threads, StartProject(t) PROVE LimitInv'
  <2> USE DEF Outside, Goto, Move, SetState, fields, history, Caller
  <2>1. CASE CanStart(t)
    <3>1. ~overlapped /\ (~Locked => \A u \in Threads \ {t} : ~InStart(u))
      BY <2>1, Zenon DEF CanStart
    <3>2. CASE Locked  BY <2>1, <3>1, <3>2 DEF CanStart
    <3>3. CASE ~Locked BY <2>1, <3>1, <3>3 DEF CanStart, Locked
    <3> QED BY <3>2, <3>3
  <2>2. CASE Refuse(t)           BY <2>2 DEF Refuse
  <2>3. CASE SetStarting(t)      BY <2>3 DEF SetStarting
  <2>4. CASE RunScript(t)        BY <2>4 DEF RunScript
  <2>5. CASE NoScript(t)         BY <2>5 DEF NoScript
  <2>6. CASE WaitStartup(t)      BY <2>6 DEF WaitStartup
  <2>7. CASE WaitMore(t)         BY <2>7 DEF WaitMore
  <2>8. CASE SetFailed(t)        BY <2>8 DEF SetFailed
  <2>9. CASE LoadCount(t)        BY <2>9 DEF LoadCount
  <2>10. CASE StoreCount(t)      BY <2>10 DEF StoreCount, StoreIncrement
  <2>11. CASE MarkRunning(t)     BY <2>11 DEF MarkRunning
  <2>12. CASE ResetCount(t)      BY <2>12 DEF ResetCount, ResetFailCount
  <2>13. CASE RecordStart(t)     BY <2>13 DEF RecordStart
  <2>14. CASE StorePid(t)        BY <2>14 DEF StorePid, AssignPid
  <2> QED BY <1>2, <2>1, <2>2, <2>3, <2>4, <2>5, <2>6, <2>7, <2>8, <2>9, <2>10,
             <2>11, <2>12, <2>13, <2>14 DEF StartProject
<1>3. ASSUME LoopStep \/ Exit PROVE LimitInv'
  <2> USE DEF Outside, Goto, Move, fields, history
  <2>1. CASE Tick                BY <2>1 DEF Tick
  <2>2. CASE CheckFailed         BY <2>2 DEF CheckFailed
  <2>3. CASE CheckAlive          BY <2>3 DEF CheckAlive
  <2>4. CASE SetRunning          BY <2>4 DEF SetRunning
  <2>5. CASE Ensure              BY <2>5 DEF Ensure
  <2>6. CASE StoreEnsured        BY <2>6 DEF StoreEnsured, AssignPid
  <2>7. CASE Exit                BY <2>7 DEF Exit
  <2> QED BY <1>3, <2>1, <2>2, <2>3, <2>4, <2>5, <2>6, <2>7 DEF LoopStep
<1>4. ASSUME NEW c \in Callers,
             ManualStart(c) \/ ManualStop(c) \/ ManualRestart(c) \/ CallStep(c)
      PROVE  LimitInv'
  <2> USE DEF Outside, Goto, fields, history, ResetFailCount
  <2>1. CASE ManualStart(c)      BY <2>1 DEF ManualStart
  <2>2. CASE ManualStop(c)       BY <2>2 DEF ManualStop
  <2>3. CASE ManualRestart(c)    BY <2>3 DEF ManualRestart
  <2>4. CASE StopScript(c)       BY <2>4 DEF StopScript
  <2>5. CASE SetStopped(c)       BY <2>5 DEF SetStopped
  <2>6. CASE RestartReset(c)     BY <2>6 DEF RestartReset
  <2> QED BY <1>4, <2>1, <2>2, <2>3, <2>4, <2>5, <2>6 DEF CallStep
<1>5. CASE ConsoleReset
  BY <1>5 DEF ConsoleReset, ResetFailCount
<1>6. ASSUME NEW p \in BOOLEAN, SetPaused(p) PROVE LimitInv'
  BY <1>6 DEF SetPaused, PauseTo
<1>7. CASE Stop
  BY <1>7 DEF Stop, fields, history
<1>8. CASE ProcUp \/ ProcDown
  BY <1>8 DEF ProcUp, ProcDown, Appear, fields, history
<1>9. CASE UNCHANGED vars
  BY <1>9 DEF vars, fields, history
<1> QED BY <1>2, <1>3, <1>4, <1>5, <1>6, <1>7, <1>8, <1>9 DEF Next

\* Without overlapping starts the unlocked failCount++ cannot take the count
\* past maxRestartAttempts, whatever resets, stops and pauses it meets.
THEOREM LimitRespected == Spec => []SingleStarterBound
<1>1. Init => LimitInv
  BY GuardianAssumption, ThreadsFacts
  DEF Init, LimitInv, StarterInv, SingleStarterBound, InStart, InStartLabels, Caller
<1>2. TypeOK /\ LimitInv /\ [Next]_vars => LimitInv'
  BY LimitStep
<1>3. LimitInv => SingleStarterBound
  BY DEF LimitInv
<1> QED BY <1>1, <1>2, <1>3, TypeCorrect, PTL DEF Spec

\* Lockout holds until somebody at the console acts: a tick past the check of
\* the limit, caught by the last failure, is refused by startProject.
THEOREM LockoutHolds == Spec => LockoutStable
<1>1. TypeOK /\ [Next]_vars => (LockedOut /\ requests' = requests => LockedOut')
  <2> SUFFICES ASSUME TypeOK, [Next]_vars, LockedOut, requests' = requests
               PROVE  LockedOut'
    OBVIOUS
  <2> USE GuardianAssumption, ThreadsFacts
      DEF LockedOut, Locked, InStart, InStartLabels
  <2>1. /\ pc \in [Threads -> StartLabels \union LoopLabels \union CallLabels]
        /\ requests \in Nat
    BY DEF TypeOK
  <2>2. ASSUME NEW t \in Threads, StartProject(t) PROVE LockedOut'
    <3>1. t = Loop /\ (CanStart(t) \/ Refuse(t))
      BY <2>2, <2>1
      DEF StartProject, CanStart, Refuse, SetStarting, RunScript, NoScript, WaitStartup,
          WaitMore, SetFailed, LoadCount, StoreCount, StoreIncrement, MarkRunning,
          ResetCount, RecordStart, StorePid, AssignPid, SetState, Move, Goto, Threads
    <3> QED BY <3>1, <2>1 DEF CanStart, Refuse, SetState, Goto, fields, Caller
  <2>3. ASSUME LoopStep \/ Exit PROVE LockedOut'
    BY <2>3, <2>1
    DEF LoopStep, Exit, Tick, CheckFailed, CheckAlive, SetRunning, Ensure, StoreEnsured,
        AssignPid, Move, Goto, fields
  <2>4. ASSUME NEW c \in Callers,
               ManualStart(c) \/ ManualStop(c) \/ ManualRestart(c) \/ CallStep(c)
        PROVE  FALSE
    BY <2>4, <2>1
    DEF ManualStart, ManualStop, ManualRestart, Request, CallStep, StopScript, SetStopped,
        RestartReset, Goto
  <2>5. ~ConsoleReset /\ \A p \in BOOLEAN : ~SetPaused(p)
    BY <2>1 DEF ConsoleReset, SetPaused, PauseTo, Request
  <2>6. CASE Stop \/ ProcUp \/ ProcDown
    BY <2>6 DEF Stop, ProcUp, ProcDown, Appear, fields
  <2>7. CASE UNCHANGED vars
    BY <2>7 DEF vars, fields
  <2> QED BY <2>2, <2>3, <2>4, <2>5, <2>6, <2>7 DEF Next
<1>2. UNCHANGED vars => (LockedOut /\ requests' = requests => LockedOut')
  BY DEF vars, fields, LockedOut, Locked, InStart
<1> QED BY <1>1, <1>2, TypeCorrect, PTL DEF Spec, LockoutStable
\* OvershootBound is not inductive: a caller may be about to store a count as
\* high as any it has read.  It can do so once for a request, so what is left to
\* overshoot is counted by the requests that have been answered.
Busy == {c \in Callers : pc[c] # "idle"}

Answered == requests - Cardinality(Busy)

Room == Limit + 2 * Answered

PendingLabels ==
  {"setStarting", "runScript", "waitStartup", "waitMore", "setFailed", "loadCount"}

\* The loop starts the project below the limit only, and one store of a caller
\* comes with one more answered request: a start of the loop has its increment
\* in reserve.  Callers have none, and need none.
OvershootInv ==
  /\ IsFiniteSet(Busy)
  /\ Answered >= 0
  /\ failCount <= Room
  /\ pc[Loop] \in PendingLabels => failCount + 1 <= Room
  /\ pc[Loop] = "storeCount" => reg[Loop] + 1 <= Room
  /\ \A c \in Callers : pc[c] = "storeCount" => reg[c] <= Room

LEMMA LimitFacts ==
  /\ Limit \in Nat
  /\ Limit >= MaxRestartAttempts
BY GuardianAssumption DEF Limit

\* A request is made, is answered, or leaves the callers where they are.
LEMMA AnsweredStep ==
  ASSUME TypeOK, IsFiniteSet(Busy),
         \/ Busy' = Busy /\ requests' \in {requests, requests + 1}
         \/ \E c \in Callers \ Busy : Busy' = Busy \union {c} /\ requests' = requests + 1
         \/ \E c \in Busy : Busy' = Busy \ {c} /\ requests' = requests
  PROVE  /\ IsFiniteSet(Busy)'
         /\ Answered \in Int /\ Answered' \in Int
         /\ Answered' >= Answered
         /\ Busy' # Busy /\ requests' = requests => Answered' = Answered + 1
<1>1. requests \in Int /\ Cardinality(Busy) \in Int
  BY FS_CardinalityType DEF TypeOK
<1>2. CASE Busy' = Busy /\ requests' \in {requests, requests + 1}
  BY <1>1, <1>2 DEF Answered
<1>3. ASSUME NEW c \in Callers \ Busy, Busy' = Busy \union {c}, requests' = requests + 1
      PROVE  IsFiniteSet(Busy') /\ Answered' = Answered /\ requests' # requests
  <2>1. /\ IsFiniteSet(Busy \union {c})
        /\ Cardinality(Busy \union {c}) = Cardinality(Busy) + 1
    BY FS_AddElement
  <2> QED BY <1>1, <1>3, <2>1 DEF Answered
<1>4. ASSUME NEW c \in Busy, Busy' = Busy \ {c}, requests' = requests
      PROVE  IsFiniteSet(Busy') /\ Answered' = Answered + 1
  <2>1. /\ IsFiniteSet(Busy \ {c})
        /\ Cardinality(Busy \ {c}) = Cardinality(Busy) - 1
    BY FS_RemoveElement
  <2> QED BY <1>1, <1>4, <2>1 DEF Answered
<1>5. Answered \in Int
  BY <1>1 DEF Answered
<1> QED BY <1>2, <1>3, <1>4, <1>5

\* The callers' steps, as AnsweredStep wants them.
LEMMA BusyStep ==
  ASSUME TypeOK, [Next]_vars
  PROVE  \/ Busy' = Busy /\ requests' \in {requests, requests + 1}
         \/ \E c \in Callers \ Busy : Busy' = Busy \union {c} /\ requests' = requests + 1
         \/ \E c \in Busy : Busy' = Busy \ {c} /\ requests' = requests
<1> USE GuardianAssumption, ThreadsFacts
<1>1. pc \in [Threads -> StartLabels \union LoopLabels \union CallLabels]
  BY DEF TypeOK
<1> DEFINE Kept == Busy' = Busy
           Made == \E c \in Callers \ Busy : Busy' = Busy \union {c}
           Done == \E c \in Busy : Busy' = Busy \ {c}
<1>2. ASSUME NEW t \in Threads, NEW l, pc' = [pc EXCEPT ![t] = l]
      PROVE  /\ t = Loop => Kept
             /\ t # Loop /\ pc[t] = "idle" /\ l # "idle" => Made
             /\ t # Loop /\ pc[t] # "idle" /\ l # "idle" => Kept
             /\ t # Loop /\ pc[t] # "idle" /\ l = "idle" => Done
  <2>1. \A c \in Callers : pc'[c] = IF c = t THEN l ELSE pc[c]
    BY <1>1, <1>2
  <2>2. t # Loop => t \in Callers
    BY DEF Threads
  <2>3. Busy' = {c \in Callers : pc'[c] # "idle"}
    BY DEF Busy
  <2>4. t = Loop => Kept
    BY <2>1, <2>3 DEF Busy
  <2>5. ASSUME t # Loop, pc[t] = "idle", l # "idle" PROVE Made
    <3>1. t \in Callers \ Busy /\ Busy' = Busy \union {t}
      BY <2>1, <2>2, <2>3, <2>5 DEF Busy
    <3> QED BY <3>1
  <2>6. ASSUME t # Loop, pc[t] # "idle", l # "idle" PROVE Kept
    BY <2>1, <2>2, <2>3, <2>6 DEF Busy
  <2>7. ASSUME t # Loop, pc[t] # "idle", l = "idle" PROVE Done
    <3>1. t \in Busy /\ Busy' = Busy \ {t}
      BY <2>1, <2>2, <2>3, <2>7 DEF Busy
    <3> QED BY <3>1
  <2> QED BY <2>4, <2>5, <2>6, <2>7
<1>3. pc' = pc => Kept
  BY DEF Busy
<1>4. ASSUME NEW t \in Threads, StartProject(t)
      PROVE  requests' = requests /\ (Kept \/ Done)
  <2>1. /\ requests' = requests
        /\ pc[t] # "idle"
        /\ \E l : pc' = [pc EXCEPT ![t] = l]
    BY <1>4
    DEF StartProject, CanStart, Refuse, SetStarting, RunScript, NoScript, WaitStartup,
        WaitMore, SetFailed, LoadCount, StoreCount, StoreIncrement, MarkRunning,
        ResetCount, RecordStart, StorePid, AssignPid, SetState, Move, Goto, Outside
  <2> QED BY <1>2, <2>1
<1>5. ASSUME LoopStep \/ Exit PROVE requests' = requests /\ Kept
  <2>1. requests' = requests /\ \E l : pc' = [pc EXCEPT ![Loop] = l]
    BY <1>5
    DEF LoopStep, Exit, Tick, CheckFailed, CheckAlive, SetRunning, Ensure, StoreEnsured,
        AssignPid, Move, Goto, Outside
  <2> QED BY <1>2, <2>1
<1>6. ASSUME NEW c \in Callers, ManualStart(c) \/ ManualStop(c) \/ ManualRestart(c)
      PROVE  requests' = requests + 1 /\ Made
  <2>1. /\ requests' = requests + 1
        /\ pc[c] = "idle"
        /\ \E l : l # "idle" /\ pc' = [pc EXCEPT ![c] = l]
    BY <1>6 DEF ManualStart, ManualStop, ManualRestart, Request, Goto
  <2> QED BY <1>2, <2>1
<1>7. ASSUME NEW c \in Callers, CallStep(c) PROVE requests' = requests /\ (Kept \/ Done)
  <2>1. /\ requests' = requests
        /\ pc[c] # "idle"
        /\ \E l : pc' = [pc EXCEPT ![c] = l]
    BY <1>7 DEF CallStep, StopScript, SetStopped, RestartReset, Goto, Outside
  <2> QED BY <1>2, <2>1
<1>8. ASSUME ConsoleReset \/ \E p \in BOOLEAN : SetPaused(p)
      PROVE  requests' = requests + 1 /\ Kept
  BY <1>3, <1>8 DEF ConsoleReset, SetPaused, PauseTo, Request
<1>9. ASSUME Stop \/ ProcUp \/ ProcDown \/ UNCHANGED vars PROVE requests' = requests /\ Kept
  BY <1>3, <1>9 DEF Stop, ProcUp, ProcDown, Appear, vars
<1> QED BY <1>4, <1>5, <1>6, <1>7, <1>8, <1>9 DEF Next

\* Each step keeps the reserve of whoever is past the check of the limit.
LEMMA OvershootStep == TypeOK /\ OvershootInv /\ [Next]_vars => OvershootInv'
<1> SUFFICES ASSUME TypeOK, OvershootInv, [Next]_vars PROVE OvershootInv'
  OBVIOUS
<1> USE GuardianAssumption, ThreadsFacts
<1>1. /\ pc \in [Threads -> StartLabels \union LoopLabels \union CallLabels]
      /\ reg \in [Threads -> Nat]
      /\ failCount \in Nat
      /\ \A t \in Threads : reg[t] \in Nat
  BY DEF TypeOK
<1>2. /\ IsFiniteSet(Busy)'
      /\ Answered \in Int /\ Answered' \in Int
      /\ Answered' >= Answered
      /\ Busy' # Busy /\ requests' = requests => Answered' = Answered + 1
  BY BusyStep, AnsweredStep DEF OvershootInv
\* The room never shrinks, and an answer adds two to it.
<1>3. /\ Room \in Int /\ Room' \in Int
      /\ Room' >= Room /\ Room >= Limit /\ Limit \in Nat
      /\ Busy' # Busy /\ requests' = requests => Room' = Room + 2
  <2>1. \A l \in Nat, a, b \in Int :
          /\ l + 2 * a \in Int
          /\ b >= a => l + 2 * b >= l + 2 * a
          /\ b = a + 1 => l + 2 * b = (l + 2 * a) + 2
          /\ a >= 0 => l + 2 * a >= l
    OBVIOUS
  <2>2. Limit \in Nat /\ Limit' = Limit /\ Answered >= 0
    BY LimitFacts DEF Limit, OvershootInv
  <2> QED BY <1>2, <2>1, <2>2 DEF Room
<1>4. \A n \in Nat : n <= Room => n <= Room'
  BY <1>3
\* What is left to show, of the count and of the labels.
<1> DEFINE Bounded ==
             /\ failCount' <= Room'
             /\ pc'[Loop] \in PendingLabels => failCount' + 1 <= Room'
             /\ pc'[Loop] = "storeCount" => reg'[Loop] + 1 <= Room'
             /\ \A c \in Callers : pc'[c] = "storeCount" => reg'[c] <= Room'
<1> SUFFICES Bounded
  <2>1. Answered' >= 0
    BY <1>2 DEF OvershootInv
  <2> QED BY <1>2, <2>1 DEF OvershootInv
\* A step that leaves the count or resets it, and brings nobody past the check.
<1>5. ASSUME failCount' \in {failCount, 0},
             pc'[Loop] \in PendingLabels => pc[Loop] \in PendingLabels,
             \A t \in Threads : pc'[t] = "storeCount" => pc[t] = "storeCount" /\ reg'[t] = reg[t]
      PROVE  Bounded
  <2>1. failCount' \in Nat /\ failCount' <= failCount
    BY <1>1, <1>5
  <2>2. \A c \in Callers : pc'[c] = "storeCount" => reg'[c] <= Room'
    <3>1. SUFFICES ASSUME NEW c \in Callers, pc'[c] = "storeCount"
                   PROVE  reg'[c] <= Room'
      OBVIOUS
    <3>2. reg'[c] = reg[c] /\ reg[c] \in Nat /\ reg[c] <= Room
      BY <1>1, <1>5, <3>1 DEF OvershootInv
    <3> QED BY <1>3, <3>2
  <2>3. pc'[Loop] = "storeCount" => reg'[Loop] + 1 <= Room'
    BY <1>1, <1>3, <1>5 DEF OvershootInv
  <2>4. /\ failCount' <= Room'
        /\ pc'[Loop] \in PendingLabels => failCount' + 1 <= Room'
    <3>1. /\ failCount <= Room
          /\ pc[Loop] \in PendingLabels => failCount + 1 <= Room
      BY DEF OvershootInv
    <3>2. failCount' \in Nat /\ failCount \in Nat /\ Room \in Int /\ Room' \in Int
      BY <1>1, <1>3, <2>1
    <3>3. failCount' <= Room' /\ (failCount + 1 <= Room => failCount' + 1 <= Room')
      <4>1. \A a, b \in Nat, r, q \in Int :
              a <= b /\ b <= r /\ r <= q => a <= q /\ (b + 1 <= r => a + 1 <= q)
        OBVIOUS
      <4>2. failCount' <= failCount /\ failCount <= Room /\ Room <= Room'
        BY <1>3, <2>1, <3>1, <3>2
      <4> QED BY <3>2, <4>1, <4>2
    <3> QED BY <1>5, <3>1, <3>3
  <2> QED BY <2>2, <2>3, <2>4
<1>6. ASSUME NEW t \in Threads, StartProject(t) PROVE Bounded
  <2>1. CASE CanStart(t) /\ t = Loop /\ ~Locked
    <3>1. /\ failCount' = failCount /\ reg' = reg
          /\ pc'[Loop] = "setStarting" /\ \A c \in Callers : pc'[c] = pc[c]
      BY <1>1, <2>1 DEF CanStart, Goto, fields
    <3>2. failCount + 1 <= Limit
      BY <1>1, <2>1, LimitFacts DEF Locked
    <3>3. \A c \in Callers : pc[c] = "storeCount" => reg[c] <= Room'
      BY <1>1, <1>3 DEF OvershootInv
    <3> QED BY <1>1, <1>3, <3>1, <3>2, <3>3 DEF OvershootInv
  <2>2. CASE CanStart(t) /\ (t # Loop \/ Locked)
    BY <1>1, <1>5, <2>2 DEF CanStart, Goto, PendingLabels, fields
  <2>3. CASE LoadCount(t) /\ t = Loop
    <3>1. /\ pc[Loop] = "loadCount" /\ pc'[Loop] = "storeCount"
          /\ failCount' = failCount /\ reg'[Loop] = failCount
          /\ \A c \in Callers : pc'[c] = pc[c] /\ reg'[c] = reg[c]
      BY <1>1, <2>3 DEF LoadCount, Goto, fields
    <3>2. failCount + 1 <= Room
      BY <3>1 DEF OvershootInv, PendingLabels
    <3>3. \A c \in Callers : pc[c] = "storeCount" => reg[c] <= Room'
      BY <1>1, <1>3 DEF OvershootInv
    <3> QED BY <1>1, <1>3, <3>1, <3>2, <3>3 DEF PendingLabels
  <2>4. CASE LoadCount(t) /\ t # Loop
    <3>1. /\ pc'[Loop] = pc[Loop] /\ failCount' = failCount
          /\ reg'[t] = failCount /\ reg'[Loop] = reg[Loop]
          /\ \A c \in Callers \ {t} : pc'[c] = pc[c] /\ reg'[c] = reg[c]
      BY <1>1, <2>4 DEF LoadCount, Goto, fields
    <3>2. \A c \in Callers : pc[c] = "storeCount" => reg[c] <= Room'
      BY <1>1, <1>3 DEF OvershootInv
    <3>3. failCount <= Room'
      BY <1>1, <1>4 DEF OvershootInv
    <3>4. /\ pc[Loop] \in PendingLabels => failCount + 1 <= Room'
          /\ pc[Loop] = "storeCount" => reg[Loop] + 1 <= Room'
      BY <1>1, <1>4 DEF OvershootInv
    <3> QED BY <3>1, <3>2, <3>3, <3>4
  <2>5. CASE StoreCount(t) /\ t = Loop
    <3>1. /\ pc[Loop] = "storeCount" /\ pc'[Loop] = "select"
          /\ failCount' = reg[Loop] + 1
          /\ \A c \in Callers : pc'[c] = pc[c] /\ reg'[c] = reg[c]
      BY <1>1, <2>5 DEF StoreCount, StoreIncrement, Goto, Caller
    <3>2. \A c \in Callers : pc[c] = "storeCount" => reg[c] <= Room'
      BY <1>1, <1>3 DEF OvershootInv
    <3> QED BY <1>1, <1>3, <3>1, <3>2 DEF OvershootInv, PendingLabels
  \* The store of a caller answers its request.
  <2>6. CASE StoreCount(t) /\ t # Loop
    <3>1. /\ t \in Callers
          /\ pc[t] = "storeCount" /\ pc'[t] = "idle" /\ pc'[Loop] = pc[Loop]
          /\ failCount' = reg[t] + 1 /\ reg'[Loop] = reg[Loop]
          /\ requests' = requests
          /\ \A c \in Callers \ {t} : pc'[c] = pc[c] /\ reg'[c] = reg[c]
      BY <1>1, <2>6 DEF StoreCount, StoreIncrement, Goto, Caller, Threads, Outside
    <3>2. Room' = Room + 2
      <4>1. t \in Busy /\ t \notin Busy'
        BY <3>1 DEF Busy
      <4> QED BY <1>3, <3>1, <4>1
    <3>3. \A c \in Callers : pc[c] = "storeCount" => reg[c] <= Room'
      BY <1>1, <1>3 DEF OvershootInv
    <3>4. reg[t] <= Room
      BY <3>1 DEF OvershootInv
    <3> QED BY <1>1, <1>3, <3>1, <3>2, <3>3, <3>4 DEF OvershootInv
  <2> USE <1>1, <1>5 DEF Outside, Goto, Move, SetState, fields, Caller, PendingLabels
  <2>7. CASE Refuse(t)           BY <2>7 DEF Refuse
  <2>8. CASE SetStarting(t)      BY <2>8 DEF SetStarting
  <2>9. CASE RunScript(t)        BY <2>9 DEF RunScript
  <2>10. CASE NoScript(t)        BY <2>10 DEF NoScript
  <2>11. CASE WaitStartup(t)     BY <2>11 DEF WaitStartup
  <2>12. CASE WaitMore(t)        BY <2>12 DEF WaitMore
  <2>13. CASE SetFailed(t)       BY <2>13 DEF SetFailed
  <2>14. CASE MarkRunning(t)     BY <2>14 DEF MarkRunning
  <2>15. CASE ResetCount(t)      BY <2>15 DEF ResetCount, ResetFailCount
  <2>16. CASE RecordStart(t)     BY <2>16 DEF RecordStart
  <2>17. CASE StorePid(t)        BY <2>17 DEF StorePid, AssignPid
  <2> QED BY <1>6, <2>1, <2>2, <2>3, <2>4, <2>5, <2>6, <2>7, <2>8, <2>9, <2>10, <2>11,
             <2>12, <2>13, <2>14, <2>15, <2>16, <2>17 DEF StartProject
<1>7. ASSUME LoopStep \/ Exit PROVE Bounded
  <2> USE <1>1, <1>5 DEF Outside, Goto, Move, fields, PendingLabels
  <2>1. CASE Tick                BY <2>1 DEF Tick
  <2>2. CASE CheckFailed         BY <2>2 DEF CheckFailed
  <2>3. CASE CheckAlive          BY <2>3 DEF CheckAlive
  <2>4. CASE SetRunning          BY <2>4 DEF SetRunning
  <2>5. CASE Ensure              BY <2>5 DEF Ensure
  <2>6. CASE StoreEnsured        BY <2>6 DEF StoreEnsured, AssignPid
  <2>7. CASE Exit                BY <2>7 DEF Exit
  <2> QED BY <1>7, <2>1, <2>2, <2>3, <2>4, <2>5, <2>6, <2>7 DEF LoopStep
<1>8. ASSUME NEW c \in Callers,
             ManualStart(c) \/ ManualStop(c) \/ ManualRestart(c) \/ CallStep(c)
      PROVE  Bounded
  <2> USE <1>1, <1>5 DEF Outside, Goto, fields, ResetFailCount
  <2>1. CASE ManualStart(c)      BY <2>1 DEF ManualStart
  <2>2. CASE ManualStop(c)       BY <2>2 DEF ManualStop
  <2>3. CASE ManualRestart(c)    BY <2>3 DEF ManualRestart
  <2>4. CASE StopScript(c)       BY <2>4 DEF StopScript
  <2>5. CASE SetStopped(c)       BY <2>5 DEF SetStopped
  <2>6. CASE RestartReset(c)     BY <2>6 DEF RestartReset
  <2> QED BY <1>8, <2>1, <2>2, <2>3, <2>4, <2>5, <2>6 DEF CallStep
<1>9. ASSUME ConsoleReset \/ \E p \in BOOLEAN : SetPaused(p) PROVE Bounded
  BY <1>5, <1>9 DEF ConsoleReset, ResetFailCount, SetPaused, PauseTo
<1>10. ASSUME Stop \/ ProcUp \/ ProcDown \/ UNCHANGED vars PROVE Bounded
  BY <1>5, <1>10 DEF Stop, ProcUp, ProcDown, Appear, vars, fields
<1> QED BY <1>6, <1>7, <1>8, <1>9, <1>10 DEF Next

\* However many callers start the project at once, the count stays within two
\* for each request of the limit.
THEOREM OvershootLimited == Spec => []OvershootBound
<1>1. Init => OvershootInv
  <2> SUFFICES ASSUME Init PROVE OvershootInv
    OBVIOUS
  <2>1. /\ pc[Loop] = "select" /\ failCount = 0 /\ requests = 0
        /\ \A c \in Callers : pc[c] = "idle"
    BY ThreadsFacts DEF Init, Caller
  <2>2. Busy = {}
    BY <2>1 DEF Busy
  <2>3. IsFiniteSet(Busy) /\ Answered = 0
    BY <2>1, <2>2, FS_EmptySet DEF Answered
  <2> QED BY <2>1, <2>3, LimitFacts DEF OvershootInv, PendingLabels, Room
<1>2. TypeOK /\ OvershootInv /\ [Next]_vars => OvershootInv'
  BY OvershootStep
<1>3. TypeOK /\ OvershootInv => OvershootBound
  <2> SUFFICES ASSUME TypeOK, OvershootInv PROVE OvershootBound
    OBVIOUS
  <2>1. Cardinality(Busy) \in Nat
    BY FS_CardinalityType DEF OvershootInv
  <2> QED BY <2>1, LimitFacts DEF OvershootInv, OvershootBound, Room, Answered, TypeOK
<1> QED BY <1>1, <1>2, <1>3, TypeCorrect, PTL DEF Spec
-----------------------------------------------------------------------------
(* What the console shows                                                  *)

\* No setState that races with SetPaused can show PAUSED for a project that the
\* loop would restart.
THEOREM PausedShownRight == Spec => []PausedStateMeansPaused
<1> USE DEF PausedStateMeansPaused
<1>1. Init => PausedStateMeansPaused
  BY DEF Init
<1>2. PausedStateMeansPaused /\ [Next]_vars => PausedStateMeansPaused'
  <2> SUFFICES ASSUME PausedStateMeansPaused, [Next]_vars PROVE PausedStateMeansPaused'
    OBVIOUS
  <2> USE DEF Outside, fields, history
  <2>1. ASSUME NEW t \in Threads, StartProject(t) PROVE PausedStateMeansPaused'
    BY <2>1
    DEF StartProject, CanStart, Refuse, SetStarting, RunScript, NoScript, WaitStartup,
        WaitMore, SetFailed, LoadCount, StoreCount, StoreIncrement, MarkRunning,
        ResetCount, ResetFailCount, RecordStart, StorePid, AssignPid, SetState, Move
  <2>2. ASSUME LoopStep \/ Exit PROVE PausedStateMeansPaused'
    BY <2>2
    DEF LoopStep, Exit, Tick, CheckFailed, CheckAlive, SetRunning, Ensure, StoreEnsured,
        AssignPid, Move
  <2>3. ASSUME NEW c \in Callers,
               ManualStart(c) \/ ManualStop(c) \/ ManualRestart(c) \/ CallStep(c)
        PROVE  PausedStateMeansPaused'
    BY <2>3
    DEF ManualStart, ManualStop, ManualRestart, ResetFailCount, CallStep, StopScript,
        SetStopped, RestartReset
  <2>4. ASSUME NEW p \in BOOLEAN, SetPaused(p) PROVE PausedStateMeansPaused'
    BY <2>4 DEF SetPaused, PauseTo
  <2>5. CASE ConsoleReset \/ Stop \/ ProcUp \/ ProcDown
    BY <2>5 DEF ConsoleReset, ResetFailCount, Stop, ProcUp, ProcDown, Appear
  <2>6. CASE UNCHANGED vars
    BY <2>6 DEF vars
  <2> QED BY <2>1, <2>2, <2>3, <2>4, <2>5, <2>6 DEF Next
<1> QED BY <1>1, <1>2, PTL DEF Spec
=============================================================================
