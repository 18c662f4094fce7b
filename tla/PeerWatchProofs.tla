-------------------------- MODULE PeerWatchProofs --------------------------
(***************************************************************************)
(* Proofs about PeerWatch, for every number of faults and of stops.  What  *)
(* the watchers must eventually do is liveness, and left to TLC.           *)
(***************************************************************************)
EXTENDS PeerWatch, TLAPS

\* Scripts lines are numbered from 1 to 7, and the line after any but the last
\* is a line again.
LEMMA LineFacts ==
  /\ Len(ScriptLines) = 7
  /\ \A n \in 1 .. 7 : ScriptLines[n] # "done" => n + 1 \in 1 .. 7
  /\ (CHOOSE n \in DOMAIN ScriptLines : ScriptLines[n] = "waitA") \in 1 .. 7
<1>1. /\ Len(ScriptLines) = 7 /\ DOMAIN ScriptLines = 1 .. 7
      /\ ScriptLines[3] = "waitA" /\ ScriptLines[7] = "done"
  BY DEF ScriptLines
<1>2. \E n \in DOMAIN ScriptLines : ScriptLines[n] = "waitA"
  BY <1>1
<1> QED BY <1>1, <1>2

LEMMA PeerInitType == Init => TypeOK
<1> SUFFICES ASSUME Init PROVE TypeOK
  OBVIOUS
<1>1. script \in 1 .. Len(ScriptLines)
  BY LineFacts DEF Init
<1>2. faults \in 0 .. MaxFaults /\ stops \in 0 .. MaxStops
  BY PeerAssumption DEF Init
<1> QED BY <1>1, <1>2 DEF Init, TypeOK, ServiceStates, WatcherLabels

\* A service that ends leaves no watcher, no console and no pending restart.
LEMMA GoneType ==
  ASSUME TypeOK, NEW i \in Instances, Gone(i), service' = [service EXCEPT ![i] = "Stopped"],
         UNCHANGED <<starting, script, stops>>, faults' \in 0 .. MaxFaults
  PROVE  TypeOK'
BY DEF TypeOK, Gone, Instances, ServiceStates, WatcherLabels

\* Each step keeps the variables' types, what runs being part of a service that does.
LEMMA PeerNextType == TypeOK /\ [Next]_vars => TypeOK'
<1> SUFFICES ASSUME TypeOK, [Next]_vars PROVE TypeOK'
  OBVIOUS
<1> USE PeerAssumption
<1>0. Fault => faults' \in 0 .. MaxFaults
  BY DEF Fault, TypeOK
<1>1. StopRequest => stops' \in 0 .. MaxStops
  BY DEF StopRequest, TypeOK
<1>2. ASSUME NEW i \in Instances, ProcessStep(i) \/ StartFails(i) \/ Crash(i) PROVE TypeOK'
  <2>1. CASE ComeUp(i)
    <3>1. faults' \in 0 .. MaxFaults
      BY <2>1, <1>0 DEF ComeUp, TypeOK
    <3>2. serving' \in BOOLEAN
      BY <2>1, Zenon DEF ComeUp, TypeOK
    <3> QED BY <2>1, <3>1, <3>2 DEF ComeUp, Become, TypeOK, Instances, ServiceStates
  <2>2. CASE StartWatcher(i)
    BY <2>2 DEF StartWatcher, Up, TypeOK, Instances, WatcherLabels
  <2>3. CASE Exit(i)
    BY <2>3, GoneType DEF Exit, Become, TypeOK
  <2>4. CASE StartFails(i)
    BY <2>4, <1>0, GoneType DEF StartFails, Become
  <2>5. CASE Crash(i)
    BY <2>5, <1>0, GoneType DEF Crash
  <2> QED BY <1>2, <2>1, <2>2, <2>3, <2>4, <2>5 DEF ProcessStep
<1>3. ASSUME NEW i \in Instances, WatcherStep(i) PROVE TypeOK'
  <2>1. wpc[i] # "off"
    BY <1>3 DEF WatcherStep, Query, Health, Recover, Recovered, Watcher
  <2>2. \E w \in WatcherLabels : wpc' = [wpc EXCEPT ![i] = w]
    BY <1>3
    DEF WatcherStep, Query, Health, Recover, Recovered, Watcher, WatcherLabels
  <2>3. \E alive \in BOOLEAN : lastAlive' = [lastAlive EXCEPT ![i] = alive]
    <3>1. lastAlive' = lastAlive \/ See(i, TRUE) \/ See(i, FALSE)
      BY <1>3, Zenon DEF WatcherStep, Query, Health, Recover, Recovered
    <3>2. lastAlive = [lastAlive EXCEPT ![i] = lastAlive[i]] /\ lastAlive[i] \in BOOLEAN
      BY DEF TypeOK
    <3> QED BY <3>1, <3>2 DEF See
  <2>4. /\ UNCHANGED <<service, serving, restart, script, faults, stops>>
        /\ starting' \subseteq Instances
    BY <1>3 DEF WatcherStep, Query, Health, Recover, Recovered, Watching, TypeOK, Peer, Instances
  <2> QED BY <2>1, <2>2, <2>3, <2>4 DEF TypeOK
<1>4. ASSUME NEW i \in Instances, StartTakesEffect(i) \/ OperatorStop(i) PROVE TypeOK'
  <2>1. CASE StartTakesEffect(i)
    BY <2>1 DEF StartTakesEffect, ScStart, TypeOK, Instances, ServiceStates
  <2>2. CASE OperatorStop(i)
    BY <1>1, <2>2 DEF OperatorStop, ScStop, Up, TypeOK, Instances, ServiceStates
  <2> QED BY <1>4, <2>1, <2>2
<1>5. ASSUME NEW i \in Instances, AskFails(i) PROVE TypeOK'
  <2>1. faults' \in 0 .. MaxFaults
    BY <1>0, <1>5 DEF AskFails
  <2> QED
    BY <1>5, <2>1 DEF AskFails, Watcher, See, TypeOK, Instances, ServiceStates, WatcherLabels
<1>6. CASE HandleRestart
  BY <1>1, <1>6 DEF HandleRestart, TypeOK
<1>7. CASE RestartStops
  BY <1>7 DEF RestartStops, ScStop, TypeOK, Instances, ServiceStates
<1>8. CASE RunScript
  <2>1. script' \in 1 .. Len(ScriptLines)
    BY <1>8, LineFacts DEF RunScript, Line, WaitLoop, TypeOK
  <2>2. \/ UNCHANGED service
        \/ \E i \in Instances : ScStart(i) \/ ScStop(i)
    BY <1>8 DEF RunScript, Instances
  <2> QED
    BY <1>8, <2>1, <2>2 DEF RunScript, ScStart, ScStop, TypeOK, Instances, ServiceStates
<1>9. CASE UNCHANGED vars
  BY <1>9 DEF vars, TypeOK
<1> QED BY <1>2, <1>3, <1>4, <1>5, <1>6, <1>7, <1>8, <1>9 DEF Next

\* The states of the two services, and that only a service that runs has a watcher,
\* a console or a pending restart, through crashes and restarts.
THEOREM PeerTypeCorrect == Spec => []TypeOK
BY PeerInitType, PeerNextType, PTL DEF Spec
=============================================================================
