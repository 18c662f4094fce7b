------------------------ MODULE DaemonControlProofs ------------------------
(***************************************************************************)
(* Proofs about DaemonControl, for every list of projects, every number of *)
(* handlers and every number of requests and crashes.                      *)
(***************************************************************************)
EXTENDS DaemonControl, TLAPS

LEMMA ProjectsFacts == Projects \subseteq Nat \ {0}
BY DEF Projects

LEMMA ControlInitType == Init => TypeOK
<1> SUFFICES ASSUME Init PROVE TypeOK
  OBVIOUS
<1> USE ControlAssumption DEF Init
<1>1. /\ slot \in [Names -> Projects \union {0}]
      /\ gPaused \in [Projects -> BOOLEAN]
      /\ launches \in [Projects -> 0..2]
  OBVIOUS
<1>2. /\ pc \in [Handlers -> {"idle", "truncate", "write", "set", "range"}]
      /\ target \in [Handlers -> {"PAUSED", "RUNNING"}]
      /\ todo \in [Handlers -> SUBSET Names]
      /\ \A h \in Handlers : todo[h] = {}
  OBVIOUS
<1>3. /\ file \in Contents
      /\ life \in {"down", "web", "pause", "add", "start", "up"} /\ life # "start"
      /\ next \in Nat \ {0}
      /\ requests \in 0..MaxRequests /\ crashes \in 0..MaxCrashes
  BY DEF Contents
<1> QED
  BY <1>1, <1>2, <1>3 DEF TypeOK

\* Each step keeps the variables' types.
LEMMA ControlNextType == TypeOK /\ [Next]_vars => TypeOK'
<1> SUFFICES ASSUME TypeOK, [Next]_vars PROVE TypeOK'
  OBVIOUS
<1> USE ControlAssumption DEF TypeOK, Contents
<1>1. CASE BootStep
  <2> USE DEF Boot, Booting, history
  <2>1. CASE StartWeb       BY <2>1 DEF StartWeb
  <2>2. CASE LoadState      BY <2>2 DEF LoadState
  <2>3. CASE BootPaused     BY <2>3 DEF BootPaused
  <2>4. CASE AddGuardian
    <3>1. /\ NameOf[next] \in Names /\ next # 0
          /\ \A n \in Names : slot'[n] = IF n = NameOf[next] THEN next ELSE slot[n]
          /\ slot' \in [Names -> Projects \union {0}]
      BY <2>4 DEF AddGuardian, Projects
    <3>2. /\ todo' \in [Handlers -> SUBSET Names]
          /\ \A h \in Handlers : \A n \in todo'[h] : slot'[n] # 0
      <4>1. CASE slot[NameOf[next]] # 0
        BY <2>4, <3>1, <4>1 DEF AddGuardian
      <4>2. CASE slot[NameOf[next]] = 0
        <5>1. PICK seen \in SUBSET {h \in Handlers : pc[h] = "range"} :
                todo' = [h \in Handlers |->
                           todo[h] \union IF h \in seen THEN {NameOf[next]} ELSE {}]
          BY <2>4, <4>2 DEF AddGuardian
        <5>2. ASSUME NEW h \in Handlers
              PROVE  /\ todo'[h] \subseteq Names
                     /\ todo'[h] \subseteq todo[h] \union {NameOf[next]}
          BY <5>1, <3>1
        <5>3. todo' \in [Handlers -> SUBSET Names]
          BY <5>1, <5>2
        <5> QED BY <5>2, <5>3, <3>1
      <4> QED BY <4>1, <4>2
    <3> QED BY <2>4, <3>1, <3>2 DEF AddGuardian
  <2>5. CASE StartGuardian
    <3>1. running' \subseteq Projects /\ armed' \subseteq running'
      BY <2>5 DEF StartGuardian
    <3>2. next' \in Nat \ {0} /\ life' = "add"
      <4>1. next \in Nat
        OBVIOUS
      <4> HIDE DEF TypeOK
      <4> QED BY <2>5, <4>1 DEF StartGuardian
    <3> QED BY <2>5, <3>1, <3>2 DEF StartGuardian
  <2>6. CASE BootDone       BY <2>6 DEF BootDone
  <2> QED BY <1>1, <2>1, <2>2, <2>3, <2>4, <2>5, <2>6 DEF BootStep
<1>2. ASSUME NEW h \in Handlers, HandlerStep(h) PROVE TypeOK'
  <2> USE DEF Goto, Serving, history
  <2>1. CASE Truncate(h)    BY <2>1 DEF Truncate
  <2>2. CASE Write(h)       BY <2>2 DEF Write
  <2>3. CASE SaveFails(h)   BY <2>3 DEF SaveFails
  <2>4. CASE SetManager(h)  BY <2>4 DEF SetManager
  <2>5. CASE SetGuardian(h)
    <3>1. PICK n \in todo[h] :
            /\ todo' = [todo EXCEPT ![h] = @ \ {n}]
            /\ gPaused' = [gPaused EXCEPT ![slot[n]] = (target[h] = "PAUSED")]
      BY <2>5 DEF SetGuardian
    <3>2. gPaused' \in [Projects -> BOOLEAN]
      BY <3>1
    <3>3. /\ todo' \in [Handlers -> SUBSET Names]
          /\ \A k \in Handlers : todo'[k] \subseteq todo[k]
      BY <3>1
    <3> QED BY <2>5, <3>2, <3>3 DEF SetGuardian
  <2>6. CASE Respond(h)
    <3>1. launches' \in [Projects -> 0..2]
      <4>1. launches' = launches \/ launches' = [q \in Projects |-> 0]
        BY <2>6, Zenon DEF Respond, Answered
      <4>2. launches \in [Projects -> 0..2]
        OBVIOUS
      <4> HIDE DEF TypeOK
      <4>3. [q \in Projects |-> 0] \in [Projects -> 0..2]
        OBVIOUS
      <4> QED BY <4>1, <4>2, <4>3
    <3>2. acked' \in BOOLEAN /\ alone' \subseteq Handlers
      BY <2>6 DEF Respond, Answered
    <3>3. unsettled' \in BOOLEAN
      BY <2>6, Zenon DEF Respond, Answered
    <3> QED BY <2>6, <3>1, <3>2, <3>3 DEF Respond, Answered
  <2> QED BY <1>2, <2>1, <2>2, <2>3, <2>4, <2>5, <2>6 DEF HandlerStep
<1>3. ASSUME NEW h \in Handlers, NEW s \in {"PAUSED", "RUNNING"}, Request(h, s)
      PROVE  TypeOK'
  <2>1. /\ pc' \in [Handlers -> {"idle", "truncate", "write", "set", "range"}]
        /\ target' \in [Handlers -> {"PAUSED", "RUNNING"}]
    BY <1>3 DEF Request, Goto
  <2>2. acked' \in BOOLEAN /\ unsettled' \in BOOLEAN
    BY <1>3, Zenon DEF Request
  <2>3. alone' \subseteq Handlers
    BY <1>3 DEF Request
  <2>4. requests' \in 0..MaxRequests
    <3>1. requests \in 0..MaxRequests
      OBVIOUS
    <3> HIDE DEF TypeOK
    <3> QED BY <1>3, <3>1 DEF Request
  <2> QED BY <1>3, <2>1, <2>2, <2>3, <2>4 DEF Request, process
<1>4. ASSUME NEW q \in Projects, Arm(q) \/ Disarm(q) \/ Launch(q) PROVE TypeOK'
  <2> USE DEF Guarding, handler
  <2>1. CASE Arm(q)         BY <2>1 DEF Arm
  <2>2. CASE Disarm(q)      BY <2>2 DEF Disarm
  <2>3. CASE Launch(q)
    <3>1. launches' \in [Projects -> 0..2]
      <4>1. launches \in [Projects -> 0..2]
        OBVIOUS
      <4> HIDE DEF TypeOK
      <4>2. launches[q] < 2 => launches[q] + 1 \in 0..2
        BY <4>1
      <4> QED BY <2>3, <4>1, <4>2 DEF Launch
    <3> QED BY <2>3, <3>1 DEF Launch
  <2> QED BY <1>4, <2>1, <2>2, <2>3
<1>5. CASE Crash
  <2>1. /\ slot' \in [Names -> Projects \union {0}]
        /\ gPaused' \in [Projects -> BOOLEAN]
        /\ pc' \in [Handlers -> {"idle", "truncate", "write", "set", "range"}]
        /\ todo' \in [Handlers -> SUBSET Names]
        /\ \A h \in Handlers : todo'[h] = {}
    BY <1>5 DEF Crash
  <2>2. /\ next' \in Nat \ {0} /\ life' = "down" /\ mPaused' = FALSE
        /\ running' = {} /\ armed' = {} /\ alone' = {}
    <3> HIDE DEF TypeOK
    <3> QED BY <1>5 DEF Crash
  <2>3. unsettled' \in BOOLEAN
    BY <1>5, Zenon DEF Crash
  <2>4. crashes' \in 0..MaxCrashes
    <3>1. crashes \in 0..MaxCrashes
      OBVIOUS
    <3> HIDE DEF TypeOK
    <3> QED BY <1>5, <3>1 DEF Crash
  <2> QED BY <1>5, <2>1, <2>2, <2>3, <2>4 DEF Crash
<1>6. CASE UNCHANGED vars
  BY <1>6 DEF vars, process, handler, history
<1> QED BY <1>1, <1>2, <1>3, <1>4, <1>5, <1>6 DEF Next

\* Type correctness of the control plane, through crashes and restarts.
THEOREM ControlTypeCorrect == Spec => []TypeOK
BY ControlInitType, ControlNextType, PTL DEF Spec
-----------------------------------------------------------------------------
(* The inductive invariant                                                 *)

\* The manager's map: every guardian that runs, the last of its name, is found under
\* that name.
MapInv ==
  /\ \A q \in running : q < next
  /\ life \in {"down", "web", "pause"} => running = {}
  /\ life = "start" => slot[NameOf[next]] = next
  /\ \A q \in running : Reached(q) => slot[NameOf[q]] = q

\* How far a request that has met no other one has brought file and flags.
Solo(h) ==
  /\ life = "up" /\ pc[h] # "idle" /\ \A k \in Handlers \ {h} : pc[k] = "idle"
  /\ pc[h] = "write" => file = ""
  /\ pc[h] \in {"set", "range"} => file = target[h]
  /\ pc[h] = "range" => mPaused = (target[h] = "PAUSED")
  /\ pc[h] = "range" =>
       \A q \in running : Reached(q) => gPaused[q] = mPaused \/ NameOf[q] \in todo[h]

SoloInv == \A h \in alone : Solo(h)

\* A settled daemon serves one request at a time and agrees with its file unless
\* that request is half done; one that boots does as the file says, flags clear.
OneAtATime == \A h \in Handlers : pc[h] # "idle" => h \in alone
NothingSaved == \A h \in Handlers : pc[h] \in {"idle", "truncate"}
BootClear ==
  /\ life # "up" => mPaused = FALSE /\ \A q \in Projects : gPaused[q] = FALSE
  /\ life = "pause" => file = "PAUSED"
  /\ life \in {"add", "start"} => file # "PAUSED"

SettledInv ==
  ~unsettled =>
    /\ OneAtATime /\ BootClear
    /\ life = "up" /\ NothingSaved => Agreed

ControlInv == MapInv /\ SoloInv /\ SettledInv

\* What an answered pause leaves behind, a restart included.
PromiseInv ==
  acked /\ ~unsettled =>
    /\ \A q \in Projects : Reached(q) => launches[q] <= 1 /\ (q \in armed => launches[q] = 0)
    /\ \A h \in Handlers : pc[h] # "idle" => target[h] = "PAUSED"
    /\ (\A h \in Handlers : pc[h] # "write") => file = "PAUSED"
    /\ life \notin {"add", "start"}
    /\ \A q \in running : Reached(q) => gPaused[q] = TRUE

LEMMA ControlInvInit == Init => ControlInv /\ PromiseInv
<1> SUFFICES ASSUME Init PROVE ControlInv /\ PromiseInv
  OBVIOUS
<1> USE DEF Init
<1>1. MapInv
  BY DEF MapInv
<1>2. SoloInv
  BY DEF SoloInv, Solo
<1>3. SettledInv
  BY DEF SettledInv, OneAtATime, BootClear
<1>4. PromiseInv
  BY DEF PromiseInv
<1> QED BY <1>1, <1>2, <1>3, <1>4 DEF ControlInv

LEMMA MapStep == TypeOK /\ MapInv /\ [Next]_vars => MapInv'
<1> SUFFICES ASSUME TypeOK, MapInv, [Next]_vars PROVE MapInv'
  OBVIOUS
<1> USE ControlAssumption DEF MapInv
<1>1. /\ next \in Nat /\ running \subseteq Projects /\ Projects \subseteq Nat
      /\ slot \in [Names -> Projects \union {0}]
      /\ life = "start" => next \in Projects
  BY DEF TypeOK, Projects
<1> USE <1>1
<1>2. CASE BootStep
  <2> USE DEF Boot, Booting, history
  <2>1. CASE StartWeb       BY <2>1 DEF StartWeb
  <2>2. CASE LoadState      BY <2>2 DEF LoadState
  <2>3. CASE BootPaused     BY <2>3 DEF BootPaused
  <2>4. CASE AddGuardian
    <3>1. /\ running' = running /\ next' = next /\ next \in Projects
          /\ life = "add" /\ life' = "start"
          /\ slot' = [slot EXCEPT ![NameOf[next]] = next] /\ NameOf[next] \in Names
      BY <2>4 DEF AddGuardian
    <3>2. ASSUME NEW q \in running, Reached(q) PROVE slot'[NameOf[q]] = q
      <4>1. NameOf[q] # NameOf[next] /\ NameOf[q] \in Names
        BY <3>1, <3>2 DEF Reached
      <4> QED BY <3>1, <3>2, <4>1
    <3> QED BY <3>1, <3>2
  <2>5. CASE StartGuardian  BY <2>5 DEF StartGuardian
  <2>6. CASE BootDone       BY <2>6 DEF BootDone
  <2> QED BY <1>2, <2>1, <2>2, <2>3, <2>4, <2>5, <2>6 DEF BootStep
<1>3. ASSUME NEW h \in Handlers, HandlerStep(h) PROVE MapInv'
  BY <1>3
  DEF HandlerStep, Truncate, Write, SaveFails, SetManager, SetGuardian, Respond, Answered, Serving
<1>4. ASSUME NEW h \in Handlers, NEW s \in {"PAUSED", "RUNNING"}, Request(h, s)
      PROVE  MapInv'
  BY <1>4 DEF Request, process
<1>5. ASSUME NEW q \in Projects, Arm(q) \/ Disarm(q) \/ Launch(q) PROVE MapInv'
  BY <1>5 DEF Arm, Disarm, Launch, Guarding
<1>6. CASE Crash
  BY <1>6 DEF Crash
<1>7. CASE UNCHANGED vars
  BY <1>7 DEF vars, process
<1> QED BY <1>2, <1>3, <1>4, <1>5, <1>6, <1>7 DEF Next

LEMMA SoloStep == TypeOK /\ MapInv /\ SoloInv /\ [Next]_vars => SoloInv'
<1> SUFFICES ASSUME TypeOK, MapInv, SoloInv, [Next]_vars, NEW g \in alone' PROVE Solo(g)'
  BY DEF SoloInv
<1> USE ControlAssumption DEF SoloInv, Solo
<1>1. /\ pc \in [Handlers -> {"idle", "truncate", "write", "set", "range"}]
      /\ target \in [Handlers -> {"PAUSED", "RUNNING"}]
      /\ todo \in [Handlers -> SUBSET Names]
      /\ \A h \in Handlers : \A n \in todo[h] : slot[n] # 0
      /\ slot \in [Names -> Projects \union {0}]
      /\ gPaused \in [Projects -> BOOLEAN]
      /\ running \subseteq Projects
      /\ alone \subseteq Handlers
  BY Zenon DEF TypeOK
<1>0. 0 \notin Projects
  BY ProjectsFacts
<1> USE <1>1, <1>0
<1>2. CASE BootStep
  <2>1. UNCHANGED alone
    BY <1>2 DEF BootStep, StartWeb, LoadState, BootPaused, AddGuardian, StartGuardian,
                BootDone, Booting, history
  <2>2. life # "up"
    BY <1>2 DEF BootStep, StartWeb, LoadState, BootPaused, AddGuardian, StartGuardian,
                BootDone, Boot
  <2> QED BY <2>1, <2>2
<1>3. ASSUME NEW h \in Handlers, HandlerStep(h) PROVE Solo(g)'
  <2>1. g \in alone /\ h = g /\ life = "up"
    BY <1>3
    DEF HandlerStep, Truncate, Write, SaveFails, SetManager, SetGuardian, Respond, Answered,
        Goto, history
  <2> USE <2>1 DEF Goto, Serving, history
  <2>2. CASE Truncate(h)
    <3>1. pc'[h] = "write" /\ file' = "" /\ life' = "up"
      BY <2>2 DEF Truncate
    <3>2. \A k \in Handlers \ {h} : pc'[k] = "idle"
      BY <2>2 DEF Truncate
    <3> QED BY <3>1, <3>2
  <2>3. CASE Write(h)
    <3>0. \A k \in Handlers \ {h} : pc[k] = "idle"
      BY DEF Solo
    <3>1. pc[h] = "write" /\ pc'[h] = "set" /\ file' = target[h] /\ target' = target /\ life' = "up"
      BY <2>3 DEF Write
    <3>2. \A k \in Handlers \ {h} : pc'[k] = "idle"
      BY <2>3, <3>0 DEF Write
    <3> QED BY <3>1, <3>2
  <2>4. CASE SaveFails(h)   BY <2>4 DEF SaveFails
  <2>5. CASE SetManager(h)
    <3>0. pc[h] = "set" /\ pc' = [pc EXCEPT ![h] = "range"] /\ file' = file
      BY <2>5 DEF SetManager
    <3>1. /\ pc'[h] = "range" /\ \A k \in Handlers \ {h} : pc'[k] = "idle"
          /\ file' = target[h]
      <4> HIDE DEF Solo, SoloInv
      <4>1. (\A k \in Handlers \ {h} : pc[k] = "idle") /\ (pc[h] = "set" => file = target[h])
        BY DEF Solo, SoloInv
      <4>2. pc'[h] = "range" /\ \A k \in Handlers \ {h} : pc'[k] = pc[k]
        BY <3>0
      <4> QED BY <3>0, <4>1, <4>2
    <3>2. mPaused' = (target'[h] = "PAUSED")
      BY <2>5 DEF SetManager
    <3>3. ASSUME NEW q \in running, Reached(q) PROVE NameOf[q] \in todo'[h]
      <4>0. q \in Projects
        OBVIOUS
      <4>1. slot[NameOf[q]] = q /\ NameOf[q] \in Names /\ q # 0
        <5>1. slot[NameOf[q]] = q
          BY <3>3 DEF MapInv
        <5>2. NameOf[q] \in Names /\ q # 0
          BY <4>0
        <5> QED BY <5>1, <5>2
      <4>2. todo'[h] = {n \in Names : slot[n] # 0}
        BY <2>5 DEF SetManager
      <4> QED BY <4>1, <4>2
    <3> QED BY <2>5, <3>1, <3>2, <3>3 DEF SetManager
  <2>6. CASE SetGuardian(h)
    <3>1. PICK n \in todo[h] :
            /\ todo' = [todo EXCEPT ![h] = @ \ {n}]
            /\ gPaused' = [gPaused EXCEPT ![slot[n]] = (target[h] = "PAUSED")]
      BY <2>6 DEF SetGuardian
    <3>2. /\ pc[h] = "range" /\ pc' = pc /\ target' = target /\ file' = file
          /\ mPaused' = mPaused /\ running' = running /\ life' = life
      BY <2>6 DEF SetGuardian
    <3>3. ASSUME NEW q \in running, Reached(q)
          PROVE  gPaused'[q] = mPaused \/ NameOf[q] \in todo'[g]
      <4>1. slot[NameOf[q]] = q
        BY <3>3 DEF MapInv
      <4>2. mPaused = (target[h] = "PAUSED")
        BY <3>2
      <4>3. CASE NameOf[q] = n
        BY <3>1, <4>1, <4>2, <4>3
      <4>4. CASE NameOf[q] # n
        BY <3>1, <3>2, <3>3, <4>1, <4>2, <4>4
      <4> QED BY <4>3, <4>4
    <3> QED BY <3>2, <3>3
  <2>7. CASE Respond(h)     BY <2>7 DEF Respond, Answered
  <2> QED BY <1>3, <2>2, <2>3, <2>4, <2>5, <2>6, <2>7 DEF HandlerStep
<1>4. ASSUME NEW h \in Handlers, NEW s \in {"PAUSED", "RUNNING"}, Request(h, s)
      PROVE  Solo(g)'
  <2>1. Quiet /\ g = h
    BY <1>4, Zenon DEF Request
  <2>2. life' = "up" /\ pc' = [pc EXCEPT ![h] = "truncate"]
    BY <1>4, <2>1 DEF Request, process, Goto, Quiet
  <2>3. \A k \in Handlers : pc[k] = "idle"
    BY <2>1 DEF Quiet, Idle
  <2> QED BY <2>1, <2>2, <2>3
<1>5. ASSUME NEW q \in Projects, Arm(q) \/ Disarm(q) \/ Launch(q) PROVE Solo(g)'
  BY <1>5 DEF Arm, Disarm, Launch, Guarding, handler
<1>6. CASE Crash
  BY <1>6 DEF Crash
<1>7. CASE UNCHANGED vars
  BY <1>7 DEF vars, process, handler, history
<1> HIDE DEF SoloInv, Solo
<1> QED BY <1>2, <1>3, <1>4, <1>5, <1>6, <1>7 DEF Next
LEMMA SettledStep ==
  TypeOK /\ MapInv /\ SoloInv /\ SettledInv /\ [Next]_vars => SettledInv'
<1> SUFFICES ASSUME TypeOK, MapInv, SoloInv, SettledInv, [Next]_vars, ~unsettled'
             PROVE  /\ OneAtATime' /\ BootClear'
                    /\ life' = "up" /\ NothingSaved' => Agreed'
  BY DEF SettledInv
<1> DEFINE Goal ==
      /\ OneAtATime' /\ BootClear'
      /\ life' = "up" /\ NothingSaved' => Agreed'
<1>1. /\ pc \in [Handlers -> {"idle", "truncate", "write", "set", "range"}]
      /\ target \in [Handlers -> {"PAUSED", "RUNNING"}]
      /\ slot \in [Names -> Projects \union {0}]
      /\ gPaused \in [Projects -> BOOLEAN]
      /\ running \subseteq Projects
      /\ alone \subseteq Handlers
      /\ \A h \in Handlers : \A n \in todo[h] : n \in Names /\ slot[n] # 0
  BY Zenon DEF TypeOK
<1>2. CASE BootStep
  <2>1. ~unsettled /\ UNCHANGED <<unsettled, alone, pc, file>>
    BY <1>2 DEF BootStep, StartWeb, LoadState, BootPaused, AddGuardian, StartGuardian,
                BootDone, Booting, history
  <2>2. OneAtATime /\ BootClear
    BY <2>1 DEF SettledInv
  <2>3. OneAtATime'
    BY <2>1, <2>2 DEF OneAtATime
  <2> USE <1>1, <2>1, <2>2 DEF BootClear, Agreed, Loaded, Boot
  <2>4. CASE StartWeb       BY <2>3, <2>4 DEF StartWeb
  <2>5. CASE LoadState      BY <2>3, <2>5 DEF LoadState
  <2>6. CASE BootPaused     BY <2>3, <2>6 DEF BootPaused, MapInv
  <2>7. CASE AddGuardian    BY <2>3, <2>7 DEF AddGuardian
  <2>8. CASE StartGuardian  BY <2>3, <2>8 DEF StartGuardian
  <2>9. CASE BootDone       BY <2>3, <2>9 DEF BootDone
  <2> QED BY <1>2, <2>4, <2>5, <2>6, <2>7, <2>8, <2>9 DEF BootStep
<1>3. ASSUME NEW h \in Handlers, HandlerStep(h) PROVE Goal
  <2>1. CASE h \in alone
    <3>1. Solo(h)
      BY <2>1 DEF SoloInv
    <3>2. life = "up" /\ life' = "up" /\ running' = running
      BY <1>3, <3>1
      DEF Solo, HandlerStep, Truncate, Write, SaveFails, SetManager, SetGuardian, Respond,
          Answered, Serving
    <3>3. \A k \in Handlers \ {h} : pc[k] = "idle" /\ pc'[k] = "idle"
      BY <1>1, <1>3, <3>1
      DEF Solo, HandlerStep, Truncate, Write, SaveFails, SetManager, SetGuardian, Respond,
          Answered, Goto
    <3>4. OneAtATime' /\ BootClear'
      BY <1>1, <1>3, <2>1, <3>2, <3>3
      DEF OneAtATime, BootClear, HandlerStep, Truncate, Write, SaveFails, SetManager,
          SetGuardian, Respond, Answered, Goto, history
    <3>5. ASSUME NothingSaved' PROVE Agreed'
      <4>1. pc'[h] \in {"idle", "truncate"}
        BY <3>5 DEF NothingSaved
      <4>2. SaveFails(h) \/ Respond(h)
        BY <1>1, <1>3, <4>1
        DEF HandlerStep, Truncate, Write, SetManager, SetGuardian, Goto
      <4>3. CASE SaveFails(h)
        <5>1. ~unsettled /\ pc[h] = "truncate"
          BY <4>3 DEF SaveFails
        <5>2. NothingSaved
          BY <3>3, <5>1 DEF NothingSaved
        <5>3. Agreed
          BY <3>2, <3>5, <5>1, <5>2 DEF SettledInv
        <5> QED BY <4>3, <5>3, <3>2 DEF SaveFails, Agreed, Loaded
      <4>4. CASE Respond(h)
        <5>1. /\ pc[h] = "range" /\ todo[h] = {}
              /\ file' = file /\ mPaused' = mPaused /\ gPaused' = gPaused
          BY <4>4 DEF Respond, Answered, Goto
        <5>2. /\ file = target[h] /\ mPaused = (target[h] = "PAUSED")
              /\ \A q \in running : Reached(q) => gPaused[q] = mPaused
          BY <3>1, <3>5, <5>1 DEF Solo
        <5> QED BY <1>1, <3>2, <5>1, <5>2 DEF Agreed, Loaded
      <4> QED BY <4>2, <4>3, <4>4
    <3> QED BY <3>4, <3>5
  <2>2. CASE h \notin alone
    <3>1. ~unsettled
      BY <1>3, <2>2, Zenon
      DEF HandlerStep, Truncate, Write, SaveFails, SetManager, SetGuardian, Respond,
          Answered, history
    <3>2. pc[h] = "idle"
      BY <2>2, <3>1 DEF SettledInv, OneAtATime
    <3> QED
      BY <1>3, <3>2
      DEF HandlerStep, Truncate, Write, SaveFails, SetManager, SetGuardian, Respond,
          Answered, Goto
  <2> QED BY <2>1, <2>2
<1>4. ASSUME NEW h \in Handlers, NEW s \in {"PAUSED", "RUNNING"}, Request(h, s)
      PROVE  Goal
  <2>1. Quiet /\ ~unsettled
    BY <1>4, Zenon DEF Request
  <2>2. /\ pc' = [pc EXCEPT ![h] = "truncate"] /\ alone' = {h}
        /\ UNCHANGED <<file, life, mPaused, gPaused, running>>
    BY <1>4, <2>1 DEF Request, Goto, process
  <2>3. life = "up" /\ \A k \in Handlers : pc[k] = "idle"
    BY <2>1 DEF Quiet, Idle
  <2>4. OneAtATime' /\ BootClear'
    BY <1>1, <2>2, <2>3 DEF OneAtATime, BootClear
  <2>5. NothingSaved
    BY <2>3 DEF NothingSaved
  <2> QED BY <2>1, <2>2, <2>3, <2>4, <2>5 DEF SettledInv, Agreed, Loaded
<1>5. ASSUME NEW q \in Projects, Arm(q) \/ Disarm(q) \/ Launch(q) PROVE Goal
  BY <1>5
  DEF Arm, Disarm, Launch, Guarding, handler, SettledInv, OneAtATime, BootClear,
      NothingSaved, Agreed, Loaded
<1>6. CASE Crash
  BY <1>6 DEF Crash, OneAtATime, BootClear
<1>7. CASE UNCHANGED vars
  BY <1>7
  DEF vars, process, handler, history, SettledInv, OneAtATime, BootClear, NothingSaved,
      Agreed, Loaded
<1> QED BY <1>2, <1>3, <1>4, <1>5, <1>6, <1>7 DEF Next

LEMMA ControlInvStep == TypeOK /\ ControlInv /\ [Next]_vars => ControlInv'
BY MapStep, SoloStep, SettledStep DEF ControlInv

LEMMA ControlInvariant == Spec => [](TypeOK /\ ControlInv)
<1>1. Init => TypeOK /\ ControlInv
  BY ControlInitType, ControlInvInit
<1>2. TypeOK /\ ControlInv /\ [Next]_vars => TypeOK' /\ ControlInv'
  BY ControlNextType, ControlInvStep
<1> QED BY <1>1, <1>2, PTL DEF Spec

\* The state file, the manager and every guardian agree whenever the daemon is at
\* rest, unless requests overlapped or a save was cut short since the last
\* request that was made on its own; crashes and restarts make no exception.
THEOREM ControlSettledAgreement == Spec => []SettledAgreement
<1>1. ControlInv => SettledAgreement
  BY DEF ControlInv, SettledInv, SettledAgreement, Quiet, Idle, NothingSaved
<1> QED BY <1>1, ControlInvariant, PTL
LEMMA PromiseStep ==
  TypeOK /\ ControlInv /\ PromiseInv /\ [Next]_vars => PromiseInv'
<1> DEFINE Kept ==
      /\ \A q \in Projects : Reached(q) => launches[q] <= 1 /\ (q \in armed => launches[q] = 0)
      /\ \A h \in Handlers : pc[h] # "idle" => target[h] = "PAUSED"
      /\ (\A h \in Handlers : pc[h] # "write") => file = "PAUSED"
      /\ life \notin {"add", "start"}
      /\ \A q \in running : Reached(q) => gPaused[q] = TRUE
<1> SUFFICES ASSUME TypeOK, ControlInv, PromiseInv, [Next]_vars,
                    acked', ~unsettled'
             PROVE  Kept'
  BY DEF PromiseInv, Reached
<1>1. /\ pc \in [Handlers -> {"idle", "truncate", "write", "set", "range"}]
      /\ target \in [Handlers -> {"PAUSED", "RUNNING"}]
      /\ slot \in [Names -> Projects \union {0}]
      /\ gPaused \in [Projects -> BOOLEAN]
      /\ launches \in [Projects -> 0..2]
      /\ running \subseteq Projects /\ armed \subseteq running
      /\ \A h \in Handlers : \A n \in todo[h] : n \in Names /\ slot[n] # 0
  BY Zenon DEF TypeOK
<1>2. acked /\ ~unsettled => Kept
  BY DEF PromiseInv
<1>3. CASE BootStep
  <2>1. UNCHANGED <<acked, unsettled, launches, file, pc, target>>
    BY <1>3 DEF BootStep, StartWeb, LoadState, BootPaused, AddGuardian, StartGuardian,
                BootDone, Booting, history
  <2>2. Kept /\ \A h \in Handlers : pc[h] # "idle" => h \in alone
    BY <1>2, <2>1 DEF ControlInv, SettledInv, OneAtATime
  <2>3. life # "up"
    BY <1>3 DEF BootStep, StartWeb, LoadState, BootPaused, AddGuardian, StartGuardian,
                BootDone, Boot
  <2>4. \A h \in Handlers : pc[h] # "write"
    BY <2>2, <2>3 DEF ControlInv, SoloInv, Solo
  <2>5. UNCHANGED <<running, gPaused, armed>> /\ life' \notin {"add", "start"}
    BY <1>3, <2>2, <2>4
    DEF BootStep, StartWeb, LoadState, BootPaused, AddGuardian, StartGuardian, BootDone,
        Boot, Loaded
  <2> QED BY <2>1, <2>2, <2>5
<1>4. ASSUME NEW h \in Handlers, HandlerStep(h) PROVE Kept'
  <2>1. UNCHANGED <<life, running, armed, target, slot>>
    BY <1>4 DEF HandlerStep, Truncate, Write, SaveFails, SetManager, SetGuardian, Respond,
                Answered, Serving
  <2>2. CASE Respond(h)
    <3>1. h \in alone
      <4>1. unsettled => h \in alone
        BY <2>2, Zenon DEF Respond, Answered
      <4>2. ~unsettled => h \in alone
        BY <1>1, <2>2 DEF Respond, Answered, Goto, ControlInv, SettledInv, OneAtATime
      <4> QED BY <4>1, <4>2
    <3>2. Solo(h)
      BY <3>1 DEF ControlInv, SoloInv
    <3>3. /\ pc[h] = "range" /\ target[h] = "PAUSED" /\ todo[h] = {}
          /\ pc' = [pc EXCEPT ![h] = "idle"] /\ file' = file /\ gPaused' = gPaused
      BY <2>2 DEF Respond, Answered, Goto
    <3>4. file = "PAUSED" /\ life = "up" /\ \A q \in running : Reached(q) => gPaused[q] = TRUE
      BY <3>2, <3>3 DEF Solo
    <3>5. \A k \in Handlers : pc'[k] = "idle"
      BY <1>1, <3>2, <3>3 DEF Solo
    <3>6. \A q \in Projects : Reached(q) => launches'[q] <= 1 /\ (q \in armed => launches'[q] = 0)
      <4>1. \/ acked /\ ~unsettled /\ launches' = launches
            \/ launches' = [q \in Projects |-> 0]
        BY <2>2, Zenon DEF Respond, Answered
      <4> QED BY <1>2, <4>1
    <3> QED BY <2>1, <3>3, <3>4, <3>5, <3>6
  <2>3. CASE ~Respond(h)
    <3>1. UNCHANGED <<acked, launches>> /\ ~unsettled
      <4>1. CASE SaveFails(h)
        <5>1. unsettled' = (unsettled \/ pc[h] = "write") /\ UNCHANGED <<acked, launches>>
          BY <4>1, Zenon DEF SaveFails
        <5> QED BY <5>1, Zenon
      <4>2. CASE ~SaveFails(h)
        <5>1. UNCHANGED history
          BY <1>4, <2>3, <4>2 DEF HandlerStep, Truncate, Write, SetManager, SetGuardian
        <5> QED BY <5>1, Zenon DEF history
      <4> QED BY <4>1, <4>2
    <3>2. Kept /\ ~unsettled
      BY <1>2, <3>1
    <3>3. pc[h] # "idle"
      BY <1>4, <2>3
      DEF HandlerStep, Truncate, Write, SaveFails, SetManager, SetGuardian, Goto
    <3>4. h \in alone /\ Solo(h) /\ target[h] = "PAUSED"
      BY <3>2, <3>3 DEF ControlInv, SettledInv, OneAtATime, SoloInv
    <3>5. \A k \in Handlers \ {h} : pc[k] = "idle" /\ pc'[k] = "idle"
      BY <1>1, <1>4, <2>3, <3>4
      DEF Solo, HandlerStep, Truncate, Write, SaveFails, SetManager, SetGuardian, Goto
    <3>6. pc'[h] # "write" => file' = "PAUSED"
      <4>1. CASE Truncate(h)    BY <1>1, <4>1 DEF Truncate, Goto
      <4>2. CASE Write(h)       BY <1>1, <3>4, <4>2 DEF Write, Goto, Solo
      <4>3. CASE SaveFails(h)   BY <3>2, <3>5, <4>3 DEF SaveFails
      <4>4. CASE SetManager(h)  BY <3>4, <4>4 DEF SetManager, Goto, Solo
      <4>5. CASE SetGuardian(h) BY <3>4, <4>5 DEF SetGuardian, Solo
      <4> QED BY <1>4, <2>3, <4>1, <4>2, <4>3, <4>4, <4>5 DEF HandlerStep
    <3>7. \A q \in running : Reached(q) => gPaused'[q] = TRUE
      BY <1>1, <1>4, <2>3, <3>2, <3>4
      DEF HandlerStep, Truncate, Write, SaveFails, SetManager, SetGuardian
    <3> QED BY <2>1, <3>1, <3>2, <3>4, <3>5, <3>6, <3>7
  <2> QED BY <2>2, <2>3
<1>5. ASSUME NEW h \in Handlers, NEW s \in {"PAUSED", "RUNNING"}, Request(h, s)
      PROVE  Kept'
  <2>1. acked /\ s = "PAUSED" /\ Quiet /\ ~unsettled
    BY <1>5, Zenon DEF Request
  <2>2. /\ pc' = [pc EXCEPT ![h] = "truncate"] /\ target' = [target EXCEPT ![h] = s]
        /\ UNCHANGED <<file, life, gPaused, running, armed, launches>>
    BY <1>5 DEF Request, Goto, process
  <2> QED BY <1>1, <1>2, <2>1, <2>2 DEF Quiet, Idle
<1>6. ASSUME NEW q \in Projects, Arm(q) \/ Disarm(q) \/ Launch(q) PROVE Kept'
  <2>1. Kept /\ UNCHANGED <<file, life, gPaused, running, pc, target>>
    BY <1>2, <1>6 DEF Arm, Disarm, Launch, Guarding, handler
  <2>2. CASE Arm(q)    BY <2>1, <2>2 DEF Arm
  <2>3. CASE Disarm(q) BY <2>1, <2>3 DEF Disarm
  <2>4. CASE Launch(q)
    <3>1. armed' = armed \ {q} /\ (Reached(q) => launches[q] = 0)
      BY <2>1, <2>4 DEF Launch
    <3>2. launches' = [launches EXCEPT ![q] = IF acked /\ @ < 2 THEN @ + 1 ELSE @]
      BY <2>4 DEF Launch
    <3>3. \A r \in Projects : Reached(r) => launches'[r] <= 1 /\ (r \in armed' => launches'[r] = 0)
      BY <1>1, <2>1, <3>1, <3>2
    <3> QED BY <2>1, <3>3
  <2> QED BY <1>6, <2>2, <2>3, <2>4
<1>7. CASE Crash
  <2>1. Kept /\ \A h \in Handlers : pc[h] # "write"
    BY <1>2, <1>7, Zenon DEF Crash
  <2> QED BY <1>1, <1>7, <2>1 DEF Crash
<1>8. CASE UNCHANGED vars
  BY <1>2, <1>8 DEF vars, process, handler, history
<1> QED BY <1>3, <1>4, <1>5, <1>6, <1>7, <1>8 DEF Next

\* A pause that was answered holds until a resume is asked for, through crashes
\* and restarts: no project is launched more than once, by the tick under way.
THEOREM ControlPauseHolds == Spec => []PauseHolds
<1>1. Init => PromiseInv
  BY ControlInvInit
<1>2. TypeOK /\ ControlInv /\ PromiseInv /\ [Next]_vars => PromiseInv'
  BY PromiseStep
<1>3. PromiseInv => PauseHolds
  BY DEF PromiseInv, PauseHolds
<1> QED BY <1>1, <1>2, <1>3, ControlInvariant, PTL DEF Spec
=============================================================================
