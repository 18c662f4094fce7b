------------------------- MODULE InstallationProofs -------------------------
(***************************************************************************)
(* Proofs about Installation, for any number of console pages, ports,      *)
(* intervals, saves, faults and crashes: the types, what is kept of the    *)
(* configuration, and the tokens.                                          *)
(***************************************************************************)
EXTENDS Installation, TLAPS

Labels == {"idle", "backup", "create", "write", "rollback"}
Stages == {"down", "token", "create", "write", "up"}

LEMMA Defaults ==
  /\ DefaultPort \in Ports /\ Blank \in Configs /\ Blank.interval = 15 /\ Blank.edits = {}
  /\ \A k \in Kinds : File(k) \in Contents /\ File(k).kind = k /\ File(k).cfg = Blank
  /\ \A c \in Configs : Whole(c) \in Contents /\ Whole(c).kind = "whole" /\ Whole(c).cfg = c
<1>1. DefaultPort \in Ports
  BY InstallationAssumption DEF DefaultPort
<1>2. Blank \in Configs /\ Blank.interval = 15 /\ Blank.edits = {}
  BY <1>1 DEF Blank, Configs, DefaultInterval
<1> QED BY <1>1, <1>2 DEF File, Whole, Contents, Kinds

LEMMA IntervalType == \A c \in Configs : c.interval \in Int
<1> SUFFICES ASSUME NEW c \in Configs PROVE c.interval \in Int
  OBVIOUS
<1>1. c.interval \in Typed \cup {15}
  BY DEF Configs, DefaultInterval
<1>2. CASE c.interval \in Typed
  BY <1>2, InstallationAssumption
<1>3. CASE c.interval = 15
  BY <1>3
<1> QED BY <1>1, <1>2, <1>3

\* What Load and the console's form make of a configuration.
LEMMA Conversions ==
  ASSUME NEW c \in Configs
  PROVE  /\ applyDefaults(c) \in Configs /\ applyDefaults(c).interval # 0
         /\ applyDefaults(c).edits = c.edits
         /\ applyDefaults(c).interval < 0 => c.interval < 0
         /\ dtoToConfig(c) \in Configs /\ dtoToConfig(c).edits = c.edits
         /\ dtoToConfig(c).interval > 0
<1>1. /\ c = [edits |-> c.edits, port |-> c.port, interval |-> c.interval]
      /\ c.edits \in SUBSET (0 .. MaxSaves) /\ c.port \in Ports
      /\ c.interval \in Typed \cup {15}
  BY DEF Configs, DefaultInterval
<1>2. c.interval \in Int
  BY IntervalType
<1>3. \A t \in Typed \cup {15} : [c EXCEPT !.interval = t] \in Configs
  BY <1>1 DEF Configs, DefaultInterval
<1>4. CASE c.interval = 0
  <2>1. applyDefaults(c) = [c EXCEPT !.interval = 15] /\ dtoToConfig(c) = [c EXCEPT !.interval = 15]
    BY <1>1, <1>4 DEF applyDefaults, dtoToConfig, DefaultInterval
  <2> QED BY <1>1, <1>3, <1>4, <2>1
<1>5. CASE c.interval < 0
  <2>1. applyDefaults(c) = c /\ dtoToConfig(c) = [c EXCEPT !.interval = 15]
    BY <1>1, <1>2, <1>5 DEF applyDefaults, dtoToConfig, DefaultInterval
  <2> QED BY <1>1, <1>2, <1>3, <1>5, <2>1
<1>6. CASE c.interval > 0
  <2>1. applyDefaults(c) = c /\ dtoToConfig(c) = c
    BY <1>1, <1>2, <1>6 DEF applyDefaults, dtoToConfig
  <2> QED BY <1>2, <1>6, <2>1
<1> QED BY <1>2, <1>4, <1>5, <1>6

LEMMA UsedType ==
  ASSUME NEW i \in Instances, NEW c \in Configs, c.interval # 0
  PROVE  Used(i, c) \in Configs /\ Used(i, c).interval # 0
<1>1. CASE i = "a"
  BY <1>1 DEF Used
<1>2. CASE i # "a"
  <2>1. Used(i, c) = [c EXCEPT !.interval = DefaultInterval]
    BY <1>2 DEF Used
  <2> QED BY <2>1, Defaults DEF Configs, DefaultInterval
<1> QED BY <1>1, <1>2
-----------------------------------------------------------------------------
(* Types                                                                   *)

LEMMA InstallationInitType == Init => TypeOK
<1> SUFFICES ASSUME Init PROVE TypeOK
  OBVIOUS
<1>1. config \in Contents /\ bak \in Contents
  BY Defaults DEF Init, Kinds
<1>2. /\ mem \in [Instances -> Configs] /\ \A i \in Instances : mem[i].interval # 0
      /\ draft \in [Pages -> Configs]
  BY Defaults DEF Init
<1>3. /\ guard \in 0 .. minted /\ minted \in Nat /\ token \in [Instances -> 0 .. minted]
      /\ saves \in 0 .. MaxSaves /\ faults \in 0 .. MaxFaults /\ crashes \in 0 .. MaxCrashes
      /\ form \in [Pages -> SUBSET (0 .. MaxSaves)] /\ accepted \subseteq 0 .. MaxSaves
  BY InstallationAssumption DEF Init
<1>4. /\ life \in [Instances -> Stages] /\ pc \in [Pages -> Labels]
      /\ backed \subseteq Pages /\ careless \in BOOLEAN /\ broken \in BOOLEAN /\ clash \in BOOLEAN
  BY DEF Init, Stages, Labels
<1> QED BY <1>1, <1>2, <1>3, <1>4 DEF TypeOK, Stages, Labels

\* An instance that ends leaves the types as they are.
LEMMA EndType ==
  ASSUME TypeOK, NEW i \in Instances, End(i),
         faults' \in 0 .. MaxFaults, crashes' \in 0 .. MaxCrashes
  PROVE  TypeOK'
<1>1. /\ life' \in [Instances -> Stages] /\ pc' \in [Pages -> Labels]
      /\ draft' \in [Pages -> Configs] /\ backed' \subseteq Pages
  BY Defaults DEF TypeOK, End, Stages, Labels
<1>2. broken' \in BOOLEAN
  BY Zenon DEF TypeOK, End
<1>3. mem' \in [Instances -> Configs] /\ \A j \in Instances : mem'[j].interval # 0
  BY Defaults DEF TypeOK, End
<1>4. token' \in [Instances -> 0 .. minted']
  BY DEF TypeOK, End
<1> QED BY <1>1, <1>2, <1>3, <1>4 DEF TypeOK, End, files, Stages, Labels

\* Each step keeps the variables' types.
LEMMA InstallationNextType == TypeOK /\ [Next]_vars => TypeOK'
<1> SUFFICES ASSUME TypeOK, [Next]_vars PROVE TypeOK'
  OBVIOUS
<1> USE InstallationAssumption
<1>f. Fault => faults' \in 0 .. MaxFaults
  BY DEF Fault, TypeOK
<1>1. ASSUME NEW i \in Instances, LoadConfig(i) PROVE TypeOK'
  <2>1. mem' = [mem EXCEPT ![i] = Used(i, applyDefaults(config.cfg))]
    BY <1>1 DEF LoadConfig
  <2>2. config.cfg \in Configs
    BY DEF TypeOK, Contents
  <2>3. Used(i, applyDefaults(config.cfg)) \in Configs /\ Used(i, applyDefaults(config.cfg)).interval # 0
    BY <2>2, Conversions, UsedType
  <2>4. mem' \in [Instances -> Configs] /\ \A j \in Instances : mem'[j].interval # 0
    BY <2>1, <2>3 DEF TypeOK
  <2>5. life' \in [Instances -> Stages]
    BY <1>1 DEF LoadConfig, Boot, TypeOK, Stages
  <2> QED BY <1>1, <2>4, <2>5 DEF LoadConfig, TypeOK, files, handling, Stages
<1>2. ASSUME NEW i \in Instances, ReadToken(i) \/ NewToken(i) \/ CreateGuard(i) \/ WriteGuard(i)
      PROVE  TypeOK'
  <2>1. life' \in [Instances -> Stages]
    BY <1>2 DEF ReadToken, NewToken, CreateGuard, WriteGuard, Boot, TypeOK, Stages
  <2>2. minted' \in Nat /\ guard' \in 0 .. minted' /\ token' \in [Instances -> 0 .. minted']
    BY <1>2 DEF ReadToken, NewToken, CreateGuard, WriteGuard, TypeOK
  <2>3. clash' \in BOOLEAN
    BY <1>2, Zenon DEF ReadToken, NewToken, CreateGuard, WriteGuard, TypeOK
  <2>4. UNCHANGED <<config, bak, mem, form, pc, draft, saves, faults, crashes, accepted, backed,
                    careless, broken>>
    BY <1>2 DEF ReadToken, NewToken, CreateGuard, WriteGuard, files, handling
  <2> QED BY <2>1, <2>2, <2>3, <2>4 DEF TypeOK, Stages
<1>3. ASSUME NEW i \in Instances, Crash(i) \/ GuardFails(i) PROVE TypeOK'
  <2>1. End(i) /\ faults' \in 0 .. MaxFaults /\ crashes' \in 0 .. MaxCrashes
    BY <1>3, <1>f DEF Crash, GuardFails, TypeOK
  <2> QED BY <2>1, EndType
<1>4. CASE Panic
  <2>1. "a" \in Instances /\ End("a") /\ faults' \in 0 .. MaxFaults /\ crashes' \in 0 .. MaxCrashes
    BY <1>4 DEF Panic, TypeOK, Instances
  <2> QED BY <2>1, EndType
<1>5. ASSUME NEW h \in Pages, Get(h) PROVE TypeOK'
  <2>1. form' \in [Pages -> SUBSET (0 .. MaxSaves)]
    BY <1>5 DEF Get, TypeOK, Configs, Instances
  <2> QED BY <1>5, <2>1 DEF Get, TypeOK, files, booting
<1>6. ASSUME NEW h \in Pages, Post(h) PROVE TypeOK'
  <2>1. saves' \in 0 .. MaxSaves /\ form' \in [Pages -> SUBSET (0 .. MaxSaves)]
    BY <1>6 DEF Post, TypeOK
  <2>2. \A p \in Ports, t \in Typed : dtoToConfig([edits |-> form'[h], port |-> p, interval |-> t]) \in Configs
    <3> SUFFICES ASSUME NEW p \in Ports, NEW t \in Typed
                 PROVE  dtoToConfig([edits |-> form'[h], port |-> p, interval |-> t]) \in Configs
      OBVIOUS
    <3>1. [edits |-> form'[h], port |-> p, interval |-> t] \in Configs
      BY <2>1 DEF Configs
    <3> QED BY <3>1, Conversions
  <2>3. draft' \in [Pages -> Configs]
    BY <1>6, <2>2 DEF Post, TypeOK
  <2>4. pc' \in [Pages -> Labels]
    BY <1>6 DEF Post, Goto, TypeOK, Labels
  <2>5. careless' \in BOOLEAN /\ broken' \in BOOLEAN
    BY <1>6, Zenon DEF Post, TypeOK
  <2>6. UNCHANGED <<config, bak, guard, life, mem, token, minted, clash, accepted, backed, faults, crashes>>
    BY <1>6 DEF Post, files, booting
  <2> QED BY <2>1, <2>3, <2>4, <2>5, <2>6 DEF TypeOK, Labels
<1>7. ASSUME NEW h \in Pages, Backup(h) \/ Create(h) \/ Write(h) \/ SaveFails(h) \/ Rollback(h)
      PROVE  TypeOK'
  <2>1. pc' \in [Pages -> Labels]
    BY <1>7 DEF Backup, Create, Write, SaveFails, Rollback, Answer, Goto, TypeOK, Labels
  <2>2. draft' \in [Pages -> Configs] /\ backed' \subseteq Pages
    BY <1>7, Defaults DEF Backup, Create, Write, SaveFails, Rollback, Answer, TypeOK, files
  <2>3. config' \in Contents /\ bak' \in Contents
    <3>1. draft[h] \in Configs
      BY DEF TypeOK
    <3>2. Whole(draft[h]) \in Contents /\ \A k \in Kinds : File(k) \in Contents
      BY <3>1, Defaults
    <3> QED BY <1>7, <3>2 DEF Backup, Create, Write, SaveFails, Rollback, TypeOK, files, Kinds
  <2>4. faults' \in 0 .. MaxFaults
    BY <1>7, <1>f DEF Backup, Create, Write, SaveFails, Rollback, TypeOK
  <2>5. accepted' \subseteq 0 .. MaxSaves
    BY <1>7 DEF Backup, Create, Write, SaveFails, Rollback, TypeOK, Configs
  <2>6. broken' \in BOOLEAN
    BY <1>7, Zenon DEF Backup, Create, Write, SaveFails, Rollback, TypeOK
  <2>7. UNCHANGED <<guard, life, mem, token, minted, clash, form, saves, crashes, careless>>
    BY <1>7 DEF Backup, Create, Write, SaveFails, Rollback, Serving, booting
  <2> QED BY <2>1, <2>2, <2>3, <2>4, <2>5, <2>6, <2>7 DEF TypeOK, Labels
<1>8. CASE UNCHANGED vars
  BY <1>8 DEF vars, TypeOK
<1> QED BY <1>1, <1>2, <1>3, <1>4, <1>5, <1>6, <1>7, <1>8 DEF Next

\* The types of the shared files, both instances and the console's handlers.
THEOREM InstallationTypeCorrect == Spec => []TypeOK
BY InstallationInitType, InstallationNextType, PTL DEF Spec
-----------------------------------------------------------------------------
(* The token                                                               *)

\* Unless both created the file at once: who is up has the token of the file, and
\* who creates it is the only one that got that far.
TokenOf(i) ==
  /\ life[i] = "up" => token[i] = guard /\ guard # 0
  /\ life[i] \in {"create", "write"} =>
       /\ guard = 0 /\ token[i] # 0
       /\ \A j \in Instances \ {i} : life[j] \in {"down", "token"}

TokenInv == ~clash => \A i \in Instances : TokenOf(i)

LEMMA TokenStep == TypeOK /\ TokenInv /\ [Next]_vars => TokenInv'
<1> SUFFICES ASSUME TypeOK, TokenInv, [Next]_vars, ~clash' PROVE \A i \in Instances : TokenOf(i)'
  BY DEF TokenInv
<1>t. /\ life \in [Instances -> Stages] /\ token \in [Instances -> 0 .. minted]
      /\ minted \in Nat /\ guard \in 0 .. minted
  BY DEF TypeOK, Stages
<1>g. ASSUME ~clash PROVE \A i \in Instances : TokenOf(i)
  BY <1>g DEF TokenInv
<1>1. ASSUME NEW k \in Instances, LoadConfig(k) PROVE \A i \in Instances : TokenOf(i)'
  BY <1>1, <1>t, <1>g DEF LoadConfig, Boot, TokenOf
<1>2. ASSUME NEW k \in Instances, ReadToken(k) PROVE \A i \in Instances : TokenOf(i)'
  BY <1>2, <1>t, <1>g DEF ReadToken, Boot, TokenOf
<1>3. ASSUME NEW k \in Instances, NewToken(k) PROVE \A i \in Instances : TokenOf(i)'
  <2>c. clash' = (clash \/ \E j \in Instances : life[j] \in {"create", "write"})
    BY <1>3 DEF NewToken
  <2>1. ~clash /\ \A j \in Instances : life[j] \notin {"create", "write"}
    BY <2>c, Zenon
  <2>3. /\ guard = 0 /\ guard' = 0 /\ life' = [life EXCEPT ![k] = "create"]
        /\ token' = [token EXCEPT ![k] = minted + 1] /\ minted + 1 # 0
    BY <1>3, <1>t DEF NewToken, Boot
  <2>2. \A j \in Instances : life[j] \in {"down", "token"}
    BY <1>t, <1>g, <2>1, <2>3 DEF TokenOf, Stages
  <2> QED BY <1>t, <2>3, <2>2 DEF TokenOf
<1>4. ASSUME NEW k \in Instances, CreateGuard(k) PROVE \A i \in Instances : TokenOf(i)'
  BY <1>4, <1>t, <1>g DEF CreateGuard, Boot, TokenOf
<1>5. ASSUME NEW k \in Instances, WriteGuard(k) PROVE \A i \in Instances : TokenOf(i)'
  BY <1>5, <1>t, <1>g DEF WriteGuard, Boot, TokenOf
<1>6. ASSUME NEW k \in Instances, End(k) PROVE \A i \in Instances : TokenOf(i)'
  BY <1>6, <1>t, <1>g DEF End, TokenOf
<1>7. CASE \/ \E h \in Pages : Get(h) \/ Post(h) \/ Backup(h) \/ Create(h) \/ Write(h)
                                 \/ SaveFails(h) \/ Rollback(h)
           \/ UNCHANGED vars
  <2>1. UNCHANGED <<life, token, guard, clash>>
    BY <1>7
    DEF Get, Post, Backup, Create, Write, SaveFails, Rollback, Serving, booting, vars
  <2> QED BY <1>g, <2>1 DEF TokenOf
<1>8. \A k \in Instances : Crash(k) \/ GuardFails(k) => End(k)
  BY DEF Crash, GuardFails
<1>9. Panic => End("a") /\ "a" \in Instances
  BY DEF Panic, Instances
<1> QED BY <1>1, <1>2, <1>3, <1>4, <1>5, <1>6, <1>7, <1>8, <1>9 DEF Next

\* Instances that are up hold the token of .guard, unless both created it at once:
\* whatever was cut short or failed before.
THEOREM InstallationTokens == Spec => []TokenIsInGuard
<1>1. Init => TokenInv
  BY DEF Init, TokenInv, TokenOf
<1>2. TypeOK /\ TokenInv => TokenIsInGuard
  BY DEF TokenInv, TokenOf, TokenIsInGuard
<1> QED BY <1>1, <1>2, TokenStep, InstallationTypeCorrect, PTL DEF Spec
-----------------------------------------------------------------------------
(* The interval                                                            *)

\* A negative interval is the installer's.
ByHand(c) == c.interval < 0 => c.edits = {0}

IntervalInv ==
  /\ ByHand(config.cfg) /\ ByHand(bak.cfg) /\ ByHand(mem["a"])
  /\ \A h \in Pages : ByHand(draft[h])

LEMMA IntervalStep == TypeOK /\ IntervalInv /\ [Next]_vars => IntervalInv'
<1> SUFFICES ASSUME TypeOK, IntervalInv, [Next]_vars PROVE IntervalInv'
  OBVIOUS
<1>t. /\ draft \in [Pages -> Configs] /\ mem \in [Instances -> Configs]
      /\ config.cfg \in Configs /\ "a" \in Instances
  BY DEF TypeOK, Contents, Instances
<1>b. ByHand(Blank)
  BY Defaults DEF ByHand
<1>i. /\ ByHand(config.cfg) /\ ByHand(bak.cfg) /\ ByHand(mem["a"])
      /\ \A h \in Pages : ByHand(draft[h])
  BY DEF IntervalInv
<1>1. ASSUME NEW i \in Instances, LoadConfig(i) PROVE IntervalInv'
  <2>1. mem' = [mem EXCEPT ![i] = Used(i, applyDefaults(config.cfg))]
        /\ UNCHANGED <<config, bak, draft>>
    BY <1>1 DEF LoadConfig, files, handling
  <2>2. ByHand(applyDefaults(config.cfg))
    BY <1>t, <1>i, Conversions DEF ByHand
  <2>3. i = "a" => Used(i, applyDefaults(config.cfg)) = applyDefaults(config.cfg)
    BY DEF Used
  <2>4. ByHand(mem'["a"])
    BY <1>t, <1>i, <2>1, <2>2, <2>3
  <2> QED BY <1>i, <2>1, <2>4 DEF IntervalInv
<1>2. ASSUME NEW i \in Instances, ReadToken(i) \/ NewToken(i) \/ CreateGuard(i) \/ WriteGuard(i)
      PROVE  IntervalInv'
  BY <1>2, <1>i DEF ReadToken, NewToken, CreateGuard, WriteGuard, files, handling, IntervalInv
<1>3. ASSUME NEW i \in Instances, End(i) PROVE IntervalInv'
  <2>1. /\ config' = config /\ bak' = bak
        /\ mem'["a"] \in {mem["a"], Blank}
        /\ \A h \in Pages : draft'[h] \in {draft[h], Blank}
    BY <1>3, <1>t DEF End, files
  <2> QED BY <1>b, <1>i, <2>1 DEF IntervalInv
<1>4. ASSUME NEW h \in Pages, Post(h) PROVE IntervalInv'
  <2>1. UNCHANGED <<config, bak, mem>> /\ saves' \in 0 .. MaxSaves
        /\ form'[h] \in SUBSET (0 .. MaxSaves)
    BY <1>4, InstallationAssumption DEF Post, files, booting, TypeOK
  <2>2. PICK p \in Ports, t \in Typed :
          draft' = [draft EXCEPT ![h] = dtoToConfig([edits |-> form'[h], port |-> p, interval |-> t])]
    BY <1>4 DEF Post
  <2>3. [edits |-> form'[h], port |-> p, interval |-> t] \in Configs
    BY <2>1 DEF Configs
  <2> DEFINE c == dtoToConfig([edits |-> form'[h], port |-> p, interval |-> t])
  <2>4. c.interval > 0 /\ c \in Configs
    BY <2>3, Conversions
  <2>5. ByHand(c)
    <3> HIDE DEF c
    <3> QED BY <2>4, IntervalType DEF ByHand
  <2>6. \A g \in Pages : draft'[g] \in {draft[g], c}
    <3> HIDE DEF c
    <3> QED BY <1>t, <2>2 DEF c
  <2> HIDE DEF c
  <2> QED BY <1>i, <2>1, <2>5, <2>6 DEF IntervalInv
<1>5. ASSUME NEW h \in Pages, Backup(h) \/ Create(h) \/ Write(h) \/ SaveFails(h) \/ Rollback(h)
      PROVE  IntervalInv'
  <2>1. mem' = mem /\ \A g \in Pages : draft'[g] \in {draft[g], Blank}
    BY <1>5, <1>t DEF Backup, Create, Write, SaveFails, Rollback, Answer, Serving, booting
  <2>2. /\ config'.cfg \in {config.cfg, bak.cfg, Blank, draft[h]}
        /\ bak'.cfg \in {bak.cfg, config.cfg, Blank}
    <3>1. \A k \in Kinds : File(k).cfg = Blank
      BY Defaults
    <3>2. Whole(draft[h]).cfg = draft[h]
      BY <1>t, Defaults
    <3> QED BY <1>5, <3>1, <3>2 DEF Backup, Create, Write, SaveFails, Rollback, files, Kinds
  <2> QED BY <1>b, <1>i, <2>1, <2>2 DEF IntervalInv
<1>6. CASE (\E h \in Pages : Get(h)) \/ UNCHANGED vars
  BY <1>6, <1>i DEF Get, files, booting, vars, IntervalInv
<1>7. \A k \in Instances : Crash(k) \/ GuardFails(k) => End(k)
  BY DEF Crash, GuardFails
<1>8. Panic => End("a")
  BY DEF Panic
<1> QED BY <1>t, <1>1, <1>2, <1>3, <1>4, <1>5, <1>6, <1>7, <1>8 DEF Next

\* No configuration that the console saved makes NewTicker panic.
THEOREM InstallationPanics == Spec => []PanicIsByHand
<1>1. Init => IntervalInv
  <2> SUFFICES ASSUME Init PROVE IntervalInv
    OBVIOUS
  <2>1. /\ config.cfg.edits = {0} /\ bak.cfg = Blank /\ mem["a"] = Blank
        /\ \A h \in Pages : draft[h] = Blank
    BY Defaults DEF Init, Kinds, Instances
  <2> QED BY <2>1, Defaults DEF IntervalInv, ByHand
<1>2. IntervalInv => PanicIsByHand
  BY DEF IntervalInv, ByHand, PanicIsByHand
<1> QED BY <1>1, <1>2, IntervalStep, InstallationTypeCorrect, PTL DEF Spec
-----------------------------------------------------------------------------
(* What is kept of the configuration                                       *)

\* The file holds a complete configuration, with all that was answered as saved.
Keeps(f) == f.kind = "whole" /\ (~careless => accepted \subseteq f.cfg.edits)

\* How far the one save under way has brought config.yaml and its backup.
SaveOf(h) ==
  /\ pc[h] = "backup" => Keeps(config)
  /\ pc[h] = "create" => IF h \in backed THEN Keeps(bak) ELSE Keeps(config)
  /\ pc[h] = "write" => config.kind = "empty"
  /\ pc[h] \in {"write", "rollback"} /\ h \in backed => Keeps(bak)
  /\ pc[h] \in {"backup", "create", "write"} /\ ~careless => accepted \subseteq draft[h].edits

OneSave == \A g, h \in Pages : pc[g] # "idle" /\ pc[h] # "idle" => g = h

\* Saves that overlapped, were cut short or failed without a backup apart: there is
\* one at a time, and one of the two files keeps everything.
SaveInv ==
  /\ \A h \in backed : pc[h] \in {"create", "write", "rollback"}
  /\ ~broken => /\ OneSave
                /\ Idle => Keeps(config)
                /\ \A h \in Pages : SaveOf(h)

LEMMA SaveInit == Init => SaveInv
<1> SUFFICES ASSUME Init PROVE SaveInv
  OBVIOUS
<1>1. config.kind = "whole" /\ config.cfg.edits = {0} /\ accepted = {0}
  BY Defaults DEF Init
<1> QED BY <1>1 DEF Init, SaveInv, OneSave, SaveOf, Keeps, Idle

\* The steps of one save.
LEMMA HandlerStep ==
  ASSUME TypeOK, SaveInv, NEW h \in Pages,
         Backup(h) \/ Create(h) \/ Write(h) \/ SaveFails(h) \/ Rollback(h)
  PROVE  SaveInv'
<1>t. /\ pc \in [Pages -> Labels] /\ draft \in [Pages -> Configs] /\ backed \subseteq Pages
      /\ careless \in BOOLEAN /\ broken \in BOOLEAN /\ draft[h] \in Configs
  BY DEF TypeOK, Labels
<1>b. \A g \in backed : pc[g] \in {"create", "write", "rollback"}
  BY DEF SaveInv
<1>s. /\ pc[h] # "idle" /\ careless' = careless
      /\ \A g \in Pages \ {h} : pc'[g] = pc[g] /\ draft'[g] = draft[g]
  BY <1>t DEF Backup, Create, Write, SaveFails, Rollback, Answer, Goto, Serving
<1>1. \A g \in backed' : pc'[g] \in {"create", "write", "rollback"}
  <2>1. CASE Backup(h)
    <3>1. pc'[h] = "create" /\ backed' \subseteq backed \cup {h}
      BY <1>t, <2>1 DEF Backup, Goto
    <3> QED BY <1>t, <1>b, <1>s, <3>1
  <2>2. CASE Create(h)
    <3>1. pc'[h] = "write" /\ backed' = backed
      BY <1>t, <2>2 DEF Create, Goto
    <3> QED BY <1>t, <1>b, <1>s, <3>1
  <2>3. CASE SaveFails(h)
    <3>1. pc'[h] = "rollback" /\ backed' = backed
      BY <1>t, <2>3 DEF SaveFails
    <3> QED BY <1>t, <1>b, <1>s, <3>1
  <2>4. CASE Write(h) \/ Rollback(h)
    <3>1. backed' = backed \ {h}
      BY <2>4 DEF Write, Rollback, Answer
    <3> QED BY <1>t, <1>b, <1>s, <3>1
  <2> QED BY <2>1, <2>2, <2>3, <2>4
<1>2. ASSUME ~broken' PROVE OneSave' /\ (Idle => Keeps(config))' /\ \A g \in Pages : SaveOf(g)'
  <2>0. ~broken
    BY <1>2, Zenon DEF Backup, Create, Write, SaveFails, Rollback
  <2>1. OneSave /\ SaveOf(h)
    BY <2>0 DEF SaveInv
  <2>2. \A g \in Pages \ {h} : pc[g] = "idle" /\ pc'[g] = "idle"
    BY <1>s, <2>1 DEF OneSave
  <2>3. OneSave'
    BY <2>2 DEF OneSave
  <2>4. \A g \in Pages \ {h} : SaveOf(g)'
    BY <2>2 DEF SaveOf
  <2>5. ~OpenByOther(h)
    BY <2>2 DEF OpenByOther
  <2>6. (Idle => Keeps(config))' /\ SaveOf(h)'
    <3>1. CASE Backup(h)
      <4>1. /\ pc[h] = "backup" /\ pc'[h] = "create" /\ Keeps(config) /\ h \notin backed
            /\ ~careless => accepted \subseteq draft[h].edits
        BY <1>t, <1>b, <2>1, <3>1 DEF Backup, Goto, SaveOf
      <4>2. UNCHANGED <<draft, accepted, careless>>
        BY <1>s, <3>1 DEF Backup
      <4>3. \/ bak' = config /\ backed' = backed \cup {h}
            \/ config' = config /\ backed' = backed
        BY <2>5, <3>1, <4>1 DEF Backup, Keeps, files
      <4>4. ~Idle'
        BY <4>1 DEF Idle
      <4> QED BY <4>1, <4>2, <4>3, <4>4 DEF SaveOf, Keeps
    <3>2. CASE Create(h)
      <4>1. /\ pc[h] = "create" /\ pc'[h] = "write"
            /\ h \in backed => Keeps(bak)
            /\ ~careless => accepted \subseteq draft[h].edits
        BY <1>t, <2>1, <3>2 DEF Create, Goto, SaveOf
      <4>2. UNCHANGED <<draft, accepted, careless, bak, backed>> /\ config'.kind = "empty"
        BY <1>s, <3>2, Defaults DEF Create, Kinds
      <4>3. ~Idle'
        BY <4>1 DEF Idle
      <4> QED BY <4>1, <4>2, <4>3 DEF SaveOf, Keeps
    <3>3. CASE Write(h)
      <4>1. /\ pc[h] = "write" /\ pc'[h] = "idle" /\ config.kind = "empty"
            /\ ~careless => accepted \subseteq draft[h].edits
        BY <1>t, <2>1, <3>3 DEF Write, Answer, Goto, SaveOf
      <4>2. config' = Whole(draft[h]) /\ accepted' = accepted \cup draft[h].edits
        BY <3>3, <4>1 DEF Write
      <4>3. Keeps(config)'
        BY <1>t, <1>s, <4>1, <4>2, Defaults DEF Keeps
      <4> QED BY <4>1, <4>3 DEF SaveOf
    <3>4. CASE SaveFails(h)
      <4>1. /\ pc[h] \in {"create", "write"} /\ pc'[h] = "rollback"
            /\ pc[h] = "write" /\ h \in backed => Keeps(bak)
            /\ pc[h] = "create" /\ h \in backed => Keeps(bak)
        BY <1>t, <2>1, <3>4 DEF SaveFails, SaveOf
      <4>2. UNCHANGED <<accepted, careless, bak, backed>>
        BY <1>s, <3>4 DEF SaveFails, files
      <4>3. ~Idle'
        BY <4>1 DEF Idle
      <4> QED BY <4>1, <4>2, <4>3 DEF SaveOf, Keeps
    <3>5. CASE Rollback(h)
      <4>1. /\ pc[h] = "rollback" /\ pc'[h] = "idle"
            /\ h \in backed => Keeps(bak)
        BY <1>t, <2>1, <3>5 DEF Rollback, Answer, Goto, SaveOf
      <4>2. config' = bak /\ h \in backed
        <5>1. config' = bak /\ broken' = (broken \/ h \notin backed)
          BY <1>2, <3>5, Zenon DEF Rollback
        <5> QED BY <1>2, <5>1, Zenon
      <4>3. accepted' = accepted /\ careless' = careless
        BY <1>s, <3>5 DEF Rollback
      <4> QED BY <4>1, <4>2, <4>3 DEF SaveOf, Keeps
    <3> QED BY <3>1, <3>2, <3>3, <3>4, <3>5
  <2> QED BY <2>3, <2>4, <2>6
<1> QED BY <1>1, <1>2 DEF SaveInv

LEMMA SaveStep == TypeOK /\ SaveInv /\ [Next]_vars => SaveInv'
<1> SUFFICES ASSUME TypeOK, SaveInv, [Next]_vars PROVE SaveInv'
  OBVIOUS
<1>t. /\ pc \in [Pages -> Labels] /\ draft \in [Pages -> Configs] /\ backed \subseteq Pages
      /\ careless \in BOOLEAN /\ broken \in BOOLEAN
  BY DEF TypeOK, Labels
<1>b. \A g \in backed : pc[g] \in {"create", "write", "rollback"}
  BY DEF SaveInv
<1>1. ASSUME NEW i \in Instances, End(i) PROVE SaveInv'
  <2>0. UNCHANGED <<config, bak, accepted, careless>>
    BY <1>1 DEF End, files
  <2>1. CASE i = "a"
    <3>1. /\ pc' = [g \in Pages |-> "idle"] /\ backed' = {}
          /\ broken' = (broken \/ ~Idle)
      BY <1>1, <2>1 DEF End
    <3>2. ASSUME ~broken' PROVE Keeps(config)
      <4>1. ~broken /\ Idle
        BY <3>1, <3>2, Zenon
      <4> QED BY <4>1 DEF SaveInv
    <3>3. ~broken' => Keeps(config)'
      BY <2>0, <3>2 DEF Keeps
    <3> QED BY <3>1, <3>3 DEF SaveInv, OneSave, SaveOf
  <2>2. CASE i # "a"
    <3>1. UNCHANGED <<pc, draft, backed, broken>>
      BY <1>1, <2>2 DEF End
    <3> QED BY <2>0, <3>1 DEF SaveInv, OneSave, SaveOf, Keeps, Idle
  <2> QED BY <2>1, <2>2
<1>2. ASSUME NEW h \in Pages, Post(h) PROVE SaveInv'
  <2>1. /\ pc[h] = "idle" /\ pc' = [pc EXCEPT ![h] = "backup"]
        /\ UNCHANGED <<config, bak, accepted, backed>>
        /\ careless' = (careless \/ ~(accepted \subseteq form'[h]))
        /\ broken' = (broken \/ ~Idle)
    BY <1>2 DEF Post, Goto, files
  <2>2. draft'[h].edits = form'[h]
    <3>1. form'[h] \in SUBSET (0 .. MaxSaves)
      BY <1>2, InstallationAssumption DEF Post, TypeOK
    <3>2. PICK p \in Ports, t \in Typed :
            draft' = [draft EXCEPT ![h] = dtoToConfig([edits |-> form'[h], port |-> p, interval |-> t])]
      BY <1>2 DEF Post
    <3>3. [edits |-> form'[h], port |-> p, interval |-> t] \in Configs
      BY <3>1 DEF Configs
    <3>4. dtoToConfig([edits |-> form'[h], port |-> p, interval |-> t]).edits = form'[h]
      BY <3>3, Conversions
    <3> QED BY <1>t, <3>2, <3>4
  <2>3. \A g \in backed' : pc'[g] \in {"create", "write", "rollback"}
    BY <1>t, <1>b, <2>1
  <2>4. ASSUME ~broken' PROVE OneSave' /\ ~Idle' /\ \A g \in Pages : SaveOf(g)'
    <3>1. ~broken /\ Idle
      BY <2>1, <2>4, Zenon
    <3>2. Keeps(config)
      BY <3>1 DEF SaveInv
    <3>3. ~careless' => ~careless /\ accepted \subseteq form'[h]
      BY <2>1, Zenon
    <3>4. Keeps(config)'
      BY <2>1, <3>2, <3>3 DEF Keeps
    <3>5. \A g \in Pages \ {h} : pc'[g] = "idle"
      BY <1>t, <2>1, <3>1 DEF Idle
    <3>6. pc'[h] = "backup"
      BY <1>t, <2>1
    <3>7. SaveOf(h)'
      BY <2>1, <2>2, <3>3, <3>4, <3>6 DEF SaveOf
    <3>8. \A g \in Pages \ {h} : SaveOf(g)'
      BY <3>5 DEF SaveOf
    <3> QED BY <3>5, <3>6, <3>7, <3>8 DEF OneSave, Idle
  <2> QED BY <2>3, <2>4 DEF SaveInv
<1>3. CASE \/ \E i \in Instances :
                LoadConfig(i) \/ ReadToken(i) \/ NewToken(i) \/ CreateGuard(i) \/ WriteGuard(i)
           \/ \E h \in Pages : Get(h)
           \/ UNCHANGED vars
  <2>1. UNCHANGED <<config, bak, pc, draft, backed, accepted, careless, broken>>
    BY <1>3
    DEF LoadConfig, ReadToken, NewToken, CreateGuard, WriteGuard, Get, files, handling, vars
  <2> QED BY <2>1 DEF SaveInv, OneSave, SaveOf, Keeps, Idle
<1>4. \A k \in Instances : Crash(k) \/ GuardFails(k) => End(k)
  BY DEF Crash, GuardFails
<1>5. Panic => End("a") /\ "a" \in Instances
  BY DEF Panic, Instances
<1> QED BY <1>1, <1>2, <1>3, <1>4, <1>5, HandlerStep DEF Next

LEMMA SaveInvariant == Spec => []SaveInv
BY SaveInit, SaveStep, InstallationTypeCorrect, PTL DEF Spec

\* Saves that do not overlap, of forms that hold what was saved before, lose nothing.
THEOREM InstallationSaves == Spec => []SavedIsKept
<1>1. SaveInv => SavedIsKept
  BY DEF SaveInv, Keeps, SavedIsKept
<1> QED BY <1>1, SaveInvariant, PTL

\* One of config.yaml and its backup is complete at every step of a save that could
\* move the first to the second.
THEOREM InstallationOneCopy == Spec => []OneCopyIsWhole
<1>1. SaveInv /\ TypeOK => OneCopyIsWhole
  <2> SUFFICES ASSUME SaveInv, TypeOK, ~broken,
                      \A h \in Pages : pc[h] \in {"create", "write", "rollback"} => h \in backed
               PROVE  config.kind = "whole" \/ bak.kind = "whole"
    BY DEF OneCopyIsWhole
  <2>1. CASE Idle
    BY <2>1 DEF SaveInv, Keeps
  <2>2. CASE ~Idle
    <3>1. PICK h \in Pages : pc[h] # "idle"
      BY <2>2 DEF Idle
    <3>2. pc[h] \in {"backup", "create", "write", "rollback"} /\ SaveOf(h)
      BY <3>1 DEF TypeOK, SaveInv
    <3> QED BY <3>2 DEF SaveOf, Keeps
  <2> QED BY <2>1, <2>2
<1> QED BY <1>1, SaveInvariant, InstallationTypeCorrect, PTL
=============================================================================
