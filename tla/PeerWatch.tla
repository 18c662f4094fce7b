----------------------------- MODULE PeerWatch -----------------------------
(***************************************************************************)
(* The two services that guard each other: ProcessGuard-A and -B, each     *)
(* with a PeerWatcher (internal/watcher/watcher.go) that asks the service  *)
(* control manager about the other and has it started; how a service comes *)
(* up and goes down (cmd/daemon/main.go, internal/service/service.go); the *)
(* console's restart button (web/server.go), and the operator's            *)
(* scripts/restart-service.bat.                                            *)
(*                                                                         *)
(* The service control manager is external.  It is modelled by what sc.exe *)
(* does for this program: start works on a stopped service only, stop on a *)
(* running one only.  An sc start outlives the process that spawned it.    *)
(***************************************************************************)
EXTENDS Naturals, Sequences

CONSTANTS
  MaxFaults,   \* bound: crashes, failed starts and failed questions
  MaxStops,    \* bound: stops and restarts that the operator asks for
  UseScript    \* whether the operator runs restart-service.bat, once

ASSUME PeerAssumption ==
  MaxFaults \in Nat /\ MaxStops \in Nat /\ UseScript \in BOOLEAN

Instances == {"a", "b"}
Peer(i) == IF i = "a" THEN "b" ELSE "a"

VARIABLES
  service,    \* what sc query says of each service
  serving,    \* the web server of A answers
  wpc,        \* where each instance's watcher is
  lastAlive,  \* PeerWatcher.lastAlive
  starting,   \* services with an sc start under way that a watcher spawned
  restart,    \* handleRestart has answered, its goroutine is yet to stop A
  script,     \* line of restart-service.bat to be run
  faults, stops

vars == <<service, serving, wpc, lastAlive, starting, restart, script, faults, stops>>

ServiceStates == {"Stopped", "StartPending", "Running", "StopPending"}
WatcherLabels == {"off", "query", "health", "recover", "wait"}
ScriptLines   == <<"stopB", "stopA", "waitA", "waitB", "startA", "startB", "done">>

Up(i) == service[i] = "Running"

\* Both services are installed with StartAutomatic and come up with Windows.
Init ==
  /\ service = [i \in Instances |-> "StartPending"]
  /\ serving = FALSE
  /\ wpc = [i \in Instances |-> "off"]
  /\ lastAlive = [i \in Instances |-> FALSE]
  /\ starting = {}
  /\ restart = FALSE
  /\ script = IF UseScript THEN 1 ELSE Len(ScriptLines)
  /\ faults = 0 /\ stops = 0
-----------------------------------------------------------------------------
(* A service process                                                       *)

Become(i, from, to) == service[i] = from /\ service' = [service EXCEPT ![i] = to]

ScStart(i) ==
  service' = [service EXCEPT ![i] = IF @ = "Stopped" THEN "StartPending" ELSE @]

ScStop(i) ==
  service' = [service EXCEPT ![i] = IF @ = "Running" THEN "StopPending" ELSE @]

Fault == faults < MaxFaults /\ faults' = faults + 1

\* What a process that ends takes with it; its children live on.
Gone(i) ==
  /\ wpc' = [wpc EXCEPT ![i] = "off"]
  /\ lastAlive' = [lastAlive EXCEPT ![i] = FALSE]
  /\ serving' = (serving /\ i # "a")
  /\ restart' = (restart /\ i # "a")

\* main starts A's web server, then Execute reports Running.  If the port is
\* taken, the server's goroutine logs an error and nobody tries again.
ComeUp(i) ==
  /\ Become(i, "StartPending", "Running")
  /\ \/ serving' = (serving \/ i = "a") /\ UNCHANGED faults
     \/ i = "a" /\ Fault /\ UNCHANGED serving
  /\ UNCHANGED <<wpc, lastAlive, starting, restart, script, stops>>

\* main gives up: no mutex, no config.yaml, no token.
StartFails(i) ==
  /\ Fault
  /\ Become(i, "StartPending", "Stopped")
  /\ Gone(i)
  /\ UNCHANGED <<starting, script, stops>>

\* Execute runs daemonHandler.Start in a goroutine: the watcher comes last.
StartWatcher(i) ==
  /\ Up(i) /\ wpc[i] = "off"
  /\ wpc' = [wpc EXCEPT ![i] = "query"]
  /\ UNCHANGED <<service, serving, lastAlive, starting, restart, script, faults, stops>>

Crash(i) ==
  /\ Fault
  /\ service[i] \in {"Running", "StopPending"}
  /\ service' = [service EXCEPT ![i] = "Stopped"]
  /\ Gone(i)
  /\ UNCHANGED <<starting, script, stops>>

\* Execute returns at once; daemonHandler.Stop has only spawned a goroutine, so
\* the process ends with its watcher anywhere.
Exit(i) ==
  /\ Become(i, "StopPending", "Stopped")
  /\ Gone(i)
  /\ UNCHANGED <<starting, script, faults, stops>>

-----------------------------------------------------------------------------
(* PeerWatcher.loop                                                        *)

Watcher(i, from, to) == wpc[i] = from /\ wpc' = [wpc EXCEPT ![i] = to]

Watching == UNCHANGED <<service, serving, starting, restart, script, faults, stops>>

See(i, alive) == lastAlive' = [lastAlive EXCEPT ![i] = alive]

\* Variant: the peer is recovered only when it was alive the time before.
QueryOnce(i) ==
  /\ \/ /\ Up(Peer(i))
        /\ \/ Peer(i) = "a" /\ Watcher(i, "query", "health") /\ UNCHANGED lastAlive
           \/ Peer(i) = "b" /\ Watcher(i, "query", "query") /\ See(i, TRUE)
     \/ /\ ~Up(Peer(i))
        /\ Watcher(i, "query", IF lastAlive[i] THEN "recover" ELSE "query")
        /\ See(i, FALSE)
  /\ Watching

\* sc query; every answer but RUNNING means that the peer is not alive.
Query(i) ==
  /\ \/ Up(Peer(i)) /\ Peer(i) = "a" /\ Watcher(i, "query", "health") /\ UNCHANGED lastAlive
     \/ Up(Peer(i)) /\ Peer(i) = "b" /\ Watcher(i, "query", "query") /\ See(i, TRUE)
     \/ ~Up(Peer(i)) /\ Watcher(i, "query", "recover") /\ See(i, FALSE)
  /\ Watching

\* Variant: an answer that it is well is not recorded.
HealthUnrecorded(i) ==
  /\ \/ serving  /\ Watcher(i, "health", "query")   /\ UNCHANGED lastAlive
     \/ ~serving /\ Watcher(i, "health", "recover") /\ See(i, FALSE)
  /\ Watching

\* GET /api/health, asked of A after its service was found running.
Health(i) ==
  /\ \/ serving  /\ Watcher(i, "health", "query")   /\ See(i, TRUE)
     \/ ~serving /\ Watcher(i, "health", "recover") /\ See(i, FALSE)
  /\ Watching

\* An sc query fails, or a GET takes longer than 3 seconds: a peer that is well
\* counts as one that is not.
AskFails(i) ==
  /\ Fault
  /\ \E from \in {"query", "health"} : Watcher(i, from, "recover")
  /\ See(i, FALSE)
  /\ UNCHANGED <<service, serving, starting, restart, script, stops>>

\* recoverPeer spawns sc start and waits for it.
Recover(i) ==
  /\ Watcher(i, "recover", "wait")
  /\ starting' = starting \union {Peer(i)}
  /\ UNCHANGED <<service, serving, lastAlive, restart, script, faults, stops>>

StartTakesEffect(i) ==
  /\ i \in starting
  /\ starting' = starting \ {i}
  /\ ScStart(i)
  /\ UNCHANGED <<serving, wpc, lastAlive, restart, script, faults, stops>>

\* A start that failed is logged, and the next tick tries again.
Recovered(i) ==
  /\ Peer(i) \notin starting
  /\ Watcher(i, "wait", "query")
  /\ UNCHANGED lastAlive /\ Watching

WatcherStep(i) == Query(i) \/ Health(i) \/ Recover(i) \/ Recovered(i)

-----------------------------------------------------------------------------
(* The operator                                                            *)

StopRequest == stops < MaxStops /\ stops' = stops + 1

OperatorStop(i) ==
  /\ StopRequest
  /\ Up(i) /\ ScStop(i)
  /\ UNCHANGED <<serving, wpc, lastAlive, starting, restart, script, faults>>

\* Variant: a restart is accepted whether or not A's web server answers.
HandleRestartUnserved ==
  /\ StopRequest
  /\ restart' = TRUE
  /\ UNCHANGED <<service, serving, wpc, lastAlive, starting, script, faults>>

\* handleRestart answers that B is going to restart A ...
HandleRestart ==
  /\ StopRequest
  /\ serving
  /\ restart' = TRUE
  /\ UNCHANGED <<service, serving, wpc, lastAlive, starting, script, faults>>

\* ... and two seconds later a goroutine of A stops A.
RestartStops ==
  /\ restart
  /\ restart' = FALSE
  /\ ScStop("a")
  /\ UNCHANGED <<serving, wpc, lastAlive, starting, script, faults, stops>>

Line(l) == ScriptLines[script] = l /\ script' = script + 1

\* goto wait_loop: B is not stopped, and A is looked at again.
WaitLoop ==
  /\ ScriptLines[script] = "waitB" /\ service["b"] # "Stopped"
  /\ script' = CHOOSE n \in DOMAIN ScriptLines : ScriptLines[n] = "waitA"

\* restart-service.bat, line by line; its exit codes are not looked at.
RunScript ==
  /\ \/ Line("stopB") /\ ScStop("b")
     \/ Line("stopA") /\ ScStop("a")
     \/ Line("waitA") /\ service["a"] = "Stopped" /\ UNCHANGED service
     \/ Line("waitB") /\ service["b"] = "Stopped" /\ UNCHANGED service
     \/ WaitLoop /\ UNCHANGED service
     \/ Line("startA") /\ ScStart("a")
     \/ Line("startB") /\ ScStart("b")
  /\ UNCHANGED <<serving, wpc, lastAlive, starting, restart, faults, stops>>

ProcessStep(i) == ComeUp(i) \/ StartWatcher(i) \/ Exit(i)

Next ==
  \/ \E i \in Instances :
       \/ ProcessStep(i) \/ StartFails(i) \/ Crash(i)
       \/ WatcherStep(i) \/ AskFails(i) \/ StartTakesEffect(i) \/ OperatorStop(i)
  \/ HandleRestart \/ RestartStops \/ RunScript

Spec == Init /\ [][Next]_vars

\* Services that come up or go down get there, watchers keep checking, commands
\* return, and the script goes on when its line can be run.
Fairness ==
  /\ \A i \in Instances :
       WF_vars(ProcessStep(i)) /\ WF_vars(WatcherStep(i)) /\ WF_vars(StartTakesEffect(i))
  /\ WF_vars(RestartStops) /\ WF_vars(RunScript)

FairSpec == Spec /\ Fairness
-----------------------------------------------------------------------------
(* Properties                                                              *)

TypeOK ==
  /\ service \in [Instances -> ServiceStates]
  /\ serving \in BOOLEAN /\ restart \in BOOLEAN
  /\ serving \/ restart => service["a"] \in {"Running", "StopPending"}
  /\ wpc \in [Instances -> WatcherLabels]
  /\ lastAlive \in [Instances -> BOOLEAN]
  /\ \A i \in Instances :
       service[i] \in {"Stopped", "StartPending"} => wpc[i] = "off" /\ ~lastAlive[i]
  /\ starting \subseteq Instances
  /\ script \in 1..Len(ScriptLines)
  /\ faults \in 0..MaxFaults /\ stops \in 0..MaxStops

\* Guarding each other is enough as long as one service is left: when the faults
\* and stops are over both run for good, unless there was a moment with both
\* stopped.  Nothing else in Windows starts them again.
PairRecovers ==
  [](\E i \in Instances : service[i] # "Stopped") => <>[](\A i \in Instances : Up(i))

\* A watcher's idea of its peer, and so its recover and down events, comes right
\* in the end, whatever it saw while the peer was coming and going.
LastAliveConverges ==
  /\ <>[](Up("b") /\ Up("a") /\ serving) => <>[](lastAlive["b"])
  /\ <>[](Up("b") /\ Up("a")) => <>[](lastAlive["a"])

-----------------------------------------------------------------------------
(* What the documents say and the code does not do                         *)

\* restart-service.bat restarts both services (README, section 12): once both
\* have been told to stop it comes to its end.
ScriptFinishes ==
  (ScriptLines[script] = "waitA" /\ \A i \in Instances : service[i] \in {"StopPending", "Stopped"})
    ~> (ScriptLines[script] = "done")

\* A peer whose health check fails is recovered (isPeerAlive, recoverPeer).
UnhealthyPeerRecovers == (Up("a") /\ Up("b") /\ ~serving) ~> (serving \/ ~Up("b"))
=============================================================================
