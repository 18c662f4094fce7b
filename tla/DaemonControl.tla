--------------------------- MODULE DaemonControl ---------------------------
(***************************************************************************)
(* Pausing and resuming all of instance A: the state file (config.go), the *)
(* boot sequence (cmd/daemon/main.go), the project manager (manager.go)    *)
(* and the console's pause and resume handlers (web/server.go), across     *)
(* crashes and restarts of the process.                                    *)
(*                                                                         *)
(* The web server runs before daemonHandler.Start reads the state file, so *)
(* requests may meet a daemon that is still booting; handlers do not       *)
(* exclude each other; os.WriteFile truncates, then writes.  A guardian is *)
(* what PauseGate says of it: it can launch its project once for each time *)
(* it has found itself unpaused.                                           *)
(***************************************************************************)
EXTENDS Integers

CONSTANTS
  NumProjects,  \* enabled projects of config.yaml
  Names,        \* names that projects may have
  NameOf,       \* the name of each project; nothing makes them distinct
  Handlers,     \* goroutines of the web server
  MaxRequests,  \* bound: pause and resume requests in one behaviour
  MaxCrashes    \* bound: crashes of the process in one behaviour

Projects == 1..NumProjects

ASSUME ControlAssumption ==
  /\ NumProjects \in Nat
  /\ NameOf \in [Projects -> Names]
  /\ MaxRequests \in Nat /\ MaxCrashes \in Nat

VARIABLES
  file,      \* contents of daemon.state
  life,      \* how far the process has come
  next,      \* project that Manager.Start takes up next
  mPaused,   \* Manager.paused
  slot,      \* Manager.guardians: the project behind each name, 0 if none
  running,   \* projects whose guardian's loop has been started
  gPaused,   \* the guardians' own pause flags
  armed,     \* guardians that found themselves unpaused and may launch
  pc, target, todo,    \* per handler: place, PAUSED or RUNNING, names to visit
  requests, crashes,   \* made so far
  \* History variables, read by no action:
  acked,     \* the last answer was to a pause, no resume has been asked since
  launches,  \* launches of each project since, counted up to 2
  alone,     \* handlers whose request has met no other request, and no boot
  unsettled  \* since the last such request: overlapping requests or half a save

process == <<life, next, mPaused, slot, running, gPaused, armed>>
handler == <<pc, target, todo>>
history == <<acked, launches, alone, unsettled>>
vars    == <<file, process, handler, requests, crashes, history>>

\* "half": PAUSED written over RUNNING, one byte longer, with no truncation
\* between: a line too many for LoadState, which compares the whole text.
Contents == {"absent", "", "PAUSED", "RUNNING", "half"}

\* What LoadState makes of the file.
Loaded == IF file = "PAUSED" THEN "PAUSED" ELSE "RUNNING"

Idle  == \A h \in Handlers : pc[h] = "idle"
Quiet == life = "up" /\ Idle

Init ==
  /\ file = "absent" /\ life = "down" /\ next = 1 /\ mPaused = FALSE
  /\ slot = [n \in Names |-> 0] /\ running = {}
  /\ gPaused = [q \in Projects |-> FALSE] /\ armed = {}
  /\ pc = [h \in Handlers |-> "idle"]
  /\ target = [h \in Handlers |-> "RUNNING"]
  /\ todo = [h \in Handlers |-> {}]
  /\ requests = 0 /\ crashes = 0
  /\ acked = FALSE /\ launches = [q \in Projects |-> 0]
  /\ alone = {} /\ unsettled = FALSE

-----------------------------------------------------------------------------
(* Boot                                                                    *)

Boot(from, to) == life = from /\ life' = to

Booting == UNCHANGED <<file, pc, target, requests, crashes, history>>

\* main: the web server is started before the service runs daemonHandler.Start.
StartWeb ==
  /\ Boot("down", "web")
  /\ UNCHANGED <<next, mPaused, slot, running, gPaused, armed, todo>> /\ Booting

\* Variant: the state file is not consulted.
LoadStateIgnored ==
  /\ Boot("web", "add")
  /\ UNCHANGED <<next, mPaused, slot, running, gPaused, armed, todo>> /\ Booting

LoadState ==
  /\ Boot("web", IF Loaded = "PAUSED" THEN "pause" ELSE "add")
  /\ UNCHANGED <<next, mPaused, slot, running, gPaused, armed, todo>> /\ Booting

\* Manager.SetPaused(true): there is no guardian to tell.
BootPaused ==
  /\ Boot("pause", "up")
  /\ mPaused' = TRUE
  /\ UNCHANGED <<next, slot, running, gPaused, armed, todo>> /\ Booting

\* Manager.Start: m.guardians[p.Name] = g.  A handler that ranges over the map
\* meanwhile may or may not see a name that is new to it.
AddGuardian ==
  /\ next \in Projects
  /\ Boot("add", "start")
  /\ slot' = [slot EXCEPT ![NameOf[next]] = next]
  /\ IF slot[NameOf[next]] # 0 THEN UNCHANGED todo
     ELSE \E seen \in SUBSET {h \in Handlers : pc[h] = "range"} :
            todo' = [h \in Handlers |->
                       todo[h] \union IF h \in seen THEN {NameOf[next]} ELSE {}]
  /\ UNCHANGED <<next, mPaused, running, gPaused, armed>> /\ Booting

StartGuardian ==
  /\ Boot("start", "add")
  /\ running' = running \union {next}
  /\ next' = next + 1
  /\ UNCHANGED <<mPaused, slot, gPaused, armed, todo>> /\ Booting

BootDone ==
  /\ next \notin Projects
  /\ Boot("add", "up")
  /\ UNCHANGED <<next, mPaused, slot, running, gPaused, armed, todo>> /\ Booting

BootStep ==
  \/ StartWeb \/ LoadState \/ BootPaused \/ AddGuardian \/ StartGuardian \/ BootDone

-----------------------------------------------------------------------------
(* handlePause and handleResume                                            *)

Goto(h, from, to) == pc[h] = from /\ pc' = [pc EXCEPT ![h] = to]

Request(h, s) ==
  /\ life # "down" /\ requests < MaxRequests
  /\ Goto(h, "idle", "truncate")
  /\ target' = [target EXCEPT ![h] = s]
  /\ requests' = requests + 1
  /\ acked' = (acked /\ s = "PAUSED")
  /\ alone' = IF Quiet THEN {h} ELSE {}
  /\ unsettled' = (unsettled \/ ~Quiet)
  /\ UNCHANGED <<file, process, todo, crashes, launches>>

Serving == UNCHANGED <<life, next, slot, running, armed, target, requests, crashes>>

\* SaveState is os.WriteFile: O_TRUNC ...
Truncate(h) ==
  /\ Goto(h, "truncate", "write")
  /\ file' = ""
  /\ UNCHANGED <<mPaused, gPaused, todo, history>> /\ Serving

\* ... and then the text.  Two handlers may both have truncated.
Write(h) ==
  /\ Goto(h, "write", "set")
  /\ file' = IF target[h] = "PAUSED" /\ file \in {"RUNNING", "half"} THEN "half"
                                                                   ELSE target[h]
  /\ UNCHANGED <<mPaused, gPaused, todo, history>> /\ Serving

\* The file cannot be opened, or not be written: the handler answers 500.
SaveFails(h) ==
  /\ pc[h] \in {"truncate", "write"}
  /\ pc' = [pc EXCEPT ![h] = "idle"]
  /\ alone' = alone \ {h}
  /\ unsettled' = (unsettled \/ pc[h] = "write")
  /\ UNCHANGED <<file, mPaused, gPaused, todo, acked, launches>> /\ Serving

\* Variant: the projects of config.yaml are visited, with a guardian or without.
SetManagerAllNames(h) ==
  /\ Goto(h, "set", "range")
  /\ mPaused' = (target[h] = "PAUSED")
  /\ todo' = [todo EXCEPT ![h] = Names]
  /\ UNCHANGED <<file, gPaused, history>> /\ Serving

\* Manager.SetPaused: the manager's flag, under its lock ...
SetManager(h) ==
  /\ Goto(h, "set", "range")
  /\ mPaused' = (target[h] = "PAUSED")
  /\ todo' = [todo EXCEPT ![h] = {n \in Names : slot[n] # 0}]
  /\ UNCHANGED <<file, gPaused, history>> /\ Serving

\* ... and then the guardians, one by one, in no order and without the lock.
SetGuardian(h) ==
  /\ pc[h] = "range"
  /\ \E n \in todo[h] :
       /\ todo' = [todo EXCEPT ![h] = @ \ {n}]
       /\ gPaused' = [gPaused EXCEPT ![slot[n]] = (target[h] = "PAUSED")]
  /\ UNCHANGED <<file, mPaused, pc, history>> /\ Serving

Answered(h) ==
  /\ Goto(h, "range", "idle")
  /\ acked' = (target[h] = "PAUSED")
  /\ launches' = IF acked /\ ~unsettled THEN launches ELSE [q \in Projects |-> 0]
  /\ alone' = alone \ {h}
  /\ unsettled' = (unsettled /\ h \notin alone)
  /\ UNCHANGED <<file, mPaused, gPaused, todo>> /\ Serving

\* Variant: the handler answers after telling one guardian.
RespondEarly(h) == Answered(h)

Respond(h) == todo[h] = {} /\ Answered(h)

HandlerStep(h) ==
  Truncate(h) \/ Write(h) \/ SaveFails(h) \/ SetManager(h) \/ SetGuardian(h) \/ Respond(h)

-----------------------------------------------------------------------------
(* The guardians, as PauseGate describes them                              *)

Guarding ==
  UNCHANGED <<file, life, next, mPaused, slot, running, gPaused, handler, requests,
              crashes, acked, alone, unsettled>>

Arm(q) ==
  /\ q \in running \ armed /\ ~gPaused[q]
  /\ armed' = armed \union {q}
  /\ UNCHANGED launches /\ Guarding

Disarm(q) ==
  /\ q \in armed
  /\ armed' = armed \ {q}
  /\ UNCHANGED launches /\ Guarding

Launch(q) ==
  /\ q \in armed
  /\ armed' = armed \ {q}
  /\ launches' = [launches EXCEPT ![q] = IF acked /\ @ < 2 THEN @ + 1 ELSE @]
  /\ Guarding

-----------------------------------------------------------------------------
\* The process ends: a crash, sc stop (Execute returns without waiting for the
\* handlers), or Go's runtime, which ends a process that it catches ranging
\* over m.guardians while Manager.Start inserts.  B starts it again.
Crash ==
  /\ life # "down" /\ crashes < MaxCrashes
  /\ crashes' = crashes + 1
  /\ life' = "down" /\ next' = 1 /\ mPaused' = FALSE
  /\ slot' = [n \in Names |-> 0] /\ running' = {}
  /\ gPaused' = [q \in Projects |-> FALSE] /\ armed' = {}
  /\ pc' = [h \in Handlers |-> "idle"] /\ todo' = [h \in Handlers |-> {}]
  /\ alone' = {}
  /\ unsettled' = (unsettled \/ \E h \in Handlers : pc[h] = "write")
  /\ UNCHANGED <<file, target, requests, acked, launches>>

Next ==
  \/ BootStep \/ Crash
  \/ \E h \in Handlers : HandlerStep(h) \/ \E s \in {"PAUSED", "RUNNING"} : Request(h, s)
  \/ \E q \in Projects : Arm(q) \/ Disarm(q) \/ Launch(q)

Spec == Init /\ [][Next]_vars

\* The process is started again, a boot goes on, a handler that can run does.
Fairness == WF_vars(BootStep) /\ \A h \in Handlers : WF_vars(HandlerStep(h))

FairSpec == Spec /\ Fairness
-----------------------------------------------------------------------------
(* Properties                                                              *)

TypeOK ==
  /\ file \in Contents
  /\ life \in {"down", "web", "pause", "add", "start", "up"}
  /\ next \in Nat \ {0} /\ (life = "start" => next \in Projects)
  /\ mPaused \in BOOLEAN
  /\ slot \in [Names -> Projects \union {0}]
  /\ running \subseteq Projects
  /\ gPaused \in [Projects -> BOOLEAN]
  /\ armed \subseteq running
  /\ pc \in [Handlers -> {"idle", "truncate", "write", "set", "range"}]
  /\ target \in [Handlers -> {"PAUSED", "RUNNING"}]
  /\ todo \in [Handlers -> SUBSET Names]
  /\ \A h \in Handlers : \A n \in todo[h] : slot[n] # 0
  /\ requests \in 0..MaxRequests /\ crashes \in 0..MaxCrashes
  /\ acked \in BOOLEAN /\ launches \in [Projects -> 0..2]
  /\ alone \subseteq Handlers /\ unsettled \in BOOLEAN

\* The manager's map holds one guardian for each name: the last one started.  The
\* loops of the others run on, out of reach of every pause.
Reached(q) == \A r \in Projects : r > q => NameOf[r] # NameOf[q]

\* The file, the manager and every guardian within reach are of one mind.
Agreed ==
  /\ mPaused = (Loaded = "PAUSED")
  /\ \A q \in running : Reached(q) => gPaused[q] = mPaused

\* Once the handlers are done and the daemon is up, the file that the next boot
\* will read says what the guardians do, unless requests overlapped or a save
\* was cut short; and one request made on its own puts even that right.
SettledAgreement == Quiet /\ ~unsettled => Agreed

\* A pause that was answered holds until a resume is asked for, restarts of the
\* daemon included: a project is launched once at most, by the tick that was
\* under way when the pause arrived.
PauseHolds ==
  acked /\ ~unsettled => \A q \in Projects : Reached(q) => launches[q] <= 1

\* When nobody asks for anything any more, the daemon comes to rest, in agreement.
ComesToRest == <>[]~unsettled => <>[](Quiet /\ Agreed)
-----------------------------------------------------------------------------
(* What the documents say and the code does not do                         *)

\* Resuming puts the projects under guard again (README, section 6, step 5).
ResumeGuardsProjects == Quiet /\ ~unsettled /\ ~mPaused => running = Projects
=============================================================================
