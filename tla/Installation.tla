---------------------------- MODULE Installation ----------------------------
(***************************************************************************)
(* The installation directory that instances A and B share: config.yaml,   *)
(* which both load when they boot (config.go, main.go) and A's console     *)
(* replaces (handleConfig in web/server.go), and the token file .guard,    *)
(* which the first instance to boot creates (auth/token.go).               *)
(*                                                                         *)
(* A configuration is what the properties tell apart: the edits made of it *)
(* so far (0 is the installer's, a blank one has none), the web port, and  *)
(* the check interval of a project.  A page of the console keeps its form; *)
(* handlers do not exclude each other.  As on Windows, a file that is open *)
(* for writing cannot be renamed, nor be replaced by a rename.             *)
(***************************************************************************)
EXTENDS Integers, FiniteSets

CONSTANTS
  Pages,     \* pages of the console; each sends one request at a time
  Ports,     \* valid web ports
  Typed,     \* check intervals that people type
  MaxSaves,  \* bound: forms sent
  MaxFaults, \* bound: renames and writes that fail
  MaxCrashes \* bound: times an instance ends

ASSUME InstallationAssumption ==
  /\ Ports \subseteq Nat \ {0} /\ Ports # {} /\ Typed \subseteq Int /\ Typed # {}
  /\ MaxSaves \in Nat /\ MaxFaults \in Nat /\ MaxCrashes \in Nat

Instances == {"a", "b"}
DefaultPort == CHOOSE p \in Ports : TRUE   \* 18080
DefaultInterval == 15

VARIABLES
  config,  \* config.yaml
  bak,     \* config.yaml.bak
  guard,   \* the token in .guard, 0 if there is no file or it is empty
  life,    \* how far each instance has booted
  mem,     \* the DaemonConfig of each instance
  token,   \* Manager.token of each instance
  minted,  \* tokens generated so far
  form,    \* the edits that the form on each page shows
  pc,      \* where the handler of each page's request is
  draft,   \* newCfg of that handler
  saves, faults, crashes,
  accepted, \* history: edits that the installer or an answered save put in
  backed,   \* history: handlers that moved config.yaml to .bak
  careless, \* history: a form was saved that lacks an edit saved before
  broken,   \* history: saves overlapped, were cut short, or failed unsaved
  clash     \* history: both instances created .guard at once

files    == <<config, bak>>
booting  == <<guard, life, mem, token, minted, clash>>
handling == <<form, pc, draft, saves, accepted, backed, careless, broken>>
vars == <<config, bak, guard, life, mem, token, minted, form, pc, draft, saves,
          faults, crashes, accepted, backed, careless, broken, clash>>

Configs == [edits : SUBSET (0 .. MaxSaves), port : Ports, interval : Typed \cup {DefaultInterval}]
Blank   == [edits |-> {}, port |-> DefaultPort, interval |-> DefaultInterval]

\* "mixed": parts of two texts.  What is not "whole" counts for no content.
Kinds    == {"absent", "empty", "mixed", "whole"}
Contents == [kind : Kinds, cfg : Configs]
File(k)  == [kind |-> k, cfg |-> Blank]
Whole(c) == [kind |-> "whole", cfg |-> c]

Init ==
  /\ \E c \in Configs : c.edits = {0} /\ config = Whole(c)
  /\ bak = File("absent") /\ guard = 0
  /\ life = [i \in Instances |-> "down"]
  /\ mem = [i \in Instances |-> Blank]
  /\ token = [i \in Instances |-> 0] /\ minted = 0
  /\ form = [h \in Pages |-> {}] /\ draft = [h \in Pages |-> Blank]
  /\ pc = [h \in Pages |-> "idle"]
  /\ saves = 0 /\ faults = 0 /\ crashes = 0
  /\ accepted = {0} /\ backed = {}
  /\ careless = FALSE /\ broken = FALSE /\ clash = FALSE

Idle  == \A h \in Pages : pc[h] = "idle"
Fault == faults < MaxFaults /\ faults' = faults + 1
-----------------------------------------------------------------------------
(* Boot: main loads config.yaml, then the token                            *)

Boot(i, from, to) == life[i] = from /\ life' = [life EXCEPT ![i] = to]

\* Variant: a missing interval stays 0.
applyDefaultsVariant(c) == c
applyDefaults(c) == [c EXCEPT !.interval = IF @ = 0 THEN DefaultInterval ELSE @]

\* B guards no project: no interval is of use to it.
Used(i, c) == IF i = "a" THEN c ELSE [c EXCEPT !.interval = DefaultInterval]

\* An absent or unreadable file ends the process; an empty one is a
\* configuration without projects.
LoadConfig(i) ==
  /\ config.kind \in {"empty", "whole"}
  /\ Boot(i, "down", "token")
  /\ mem' = [mem EXCEPT ![i] = Used(i, applyDefaults(config.cfg))]
  /\ UNCHANGED <<files, guard, token, minted, clash, handling, faults, crashes>>

\* Variant: a token that exists is not looked for.
ReadTokenVariant(i) ==
  /\ Boot(i, "token", "create")
  /\ minted' = minted + 1 /\ minted < 3
  /\ token' = [token EXCEPT ![i] = minted + 1]
  /\ UNCHANGED <<files, guard, mem, clash, handling, faults, crashes>>

ReadToken(i) ==
  /\ guard # 0
  /\ Boot(i, "token", "up")
  /\ token' = [token EXCEPT ![i] = guard]
  /\ UNCHANGED <<files, guard, mem, minted, clash, handling, faults, crashes>>

NewToken(i) ==
  /\ guard = 0
  /\ Boot(i, "token", "create")
  /\ minted' = minted + 1
  /\ token' = [token EXCEPT ![i] = minted + 1]
  /\ clash' = (clash \/ \E j \in Instances : life[j] \in {"create", "write"})
  /\ UNCHANGED <<files, guard, mem, handling, faults, crashes>>

CreateGuard(i) ==
  /\ Boot(i, "create", "write")
  /\ guard' = 0
  /\ UNCHANGED <<files, mem, token, minted, clash, handling, faults, crashes>>

WriteGuard(i) ==
  /\ Boot(i, "write", "up")
  /\ guard' = token[i]
  /\ UNCHANGED <<files, mem, token, minted, clash, handling, faults, crashes>>

\* The instance ends.  With A end the handlers of its console; pages stay.
End(i) ==
  /\ life[i] # "down" /\ life' = [life EXCEPT ![i] = "down"]
  /\ IF i = "a" THEN /\ pc' = [h \in Pages |-> "idle"]
                     /\ draft' = [h \in Pages |-> Blank] /\ backed' = {}
                     /\ broken' = (broken \/ ~Idle)
                ELSE UNCHANGED <<pc, draft, backed, broken>>
  /\ mem' = [mem EXCEPT ![i] = Blank] /\ token' = [token EXCEPT ![i] = 0]
  /\ UNCHANGED <<files, guard, minted, clash, form, saves, accepted, careless>>

Crash(i) == End(i) /\ crashes < MaxCrashes /\ crashes' = crashes + 1 /\ UNCHANGED faults

GuardFails(i) == life[i] \in {"create", "write"} /\ End(i) /\ Fault /\ UNCHANGED crashes

\* The guardian's NewTicker panics on a negative interval.  Only A guards.
Panic ==
  /\ life["a"] = "up" /\ mem["a"].edits # {} /\ mem["a"].interval < 0
  /\ End("a")
  /\ UNCHANGED <<faults, crashes>>
-----------------------------------------------------------------------------
(* handleConfig, for the request of page h                                 *)

Goto(h, from, to) == pc[h] = from /\ pc' = [pc EXCEPT ![h] = to]
Answer(h, from) == /\ Goto(h, from, "idle")
                   /\ draft' = [draft EXCEPT ![h] = Blank] /\ backed' = backed \ {h}
Serving == UNCHANGED <<booting, form, saves, crashes, careless>>

\* GET answers with what A has in memory, not with the file.
Get(h) ==
  /\ life["a"] = "up" /\ pc[h] = "idle"
  /\ form' = [form EXCEPT ![h] = mem["a"].edits]
  /\ UNCHANGED <<files, booting, pc, draft, saves, accepted, backed, careless, broken,
                 faults, crashes>>

\* Variant: as in applyDefaults, only 0 is replaced.
dtoToConfigVariant(dto) == [dto EXCEPT !.interval = IF @ = 0 THEN DefaultInterval ELSE @]

\* dtoToConfig and dtoToProject on a form whose ports are valid.
dtoToConfig(dto) == [dto EXCEPT !.interval = IF @ <= 0 THEN DefaultInterval ELSE @]

\* The user edits the form and sends it.  One with an invalid port is refused
\* before any file is touched, and stays on the page.
Post(h) ==
  /\ life["a"] = "up" /\ saves < MaxSaves /\ saves' = saves + 1
  /\ form' = [form EXCEPT ![h] = @ \cup {saves + 1}]
  /\ \E p \in Ports, t \in Typed :
       draft' = [draft EXCEPT ![h] = dtoToConfig([edits |-> form'[h], port |-> p, interval |-> t])]
  /\ Goto(h, "idle", "backup")
  /\ careless' = (careless \/ ~(accepted \subseteq form'[h]))
  /\ broken' = (broken \/ ~Idle)
  /\ UNCHANGED <<files, booting, accepted, backed, faults, crashes>>

OpenByOther(h) == \E g \in Pages \ {h} : pc[g] = "write"

\* The error of this rename is ignored.
Backup(h) ==
  /\ Goto(h, "backup", "create")
  /\ IF config.kind = "absent" \/ OpenByOther(h) THEN UNCHANGED <<files, backed, faults>>
     ELSE \/ /\ bak' = config /\ config' = File("absent")
             /\ backed' = backed \cup {h} /\ UNCHANGED faults
          \/ Fault /\ UNCHANGED <<files, backed>>
  /\ UNCHANGED <<draft, accepted, broken>> /\ Serving

\* Save is os.WriteFile: it creates or truncates ...
Create(h) ==
  /\ Goto(h, "create", "write")
  /\ config' = File("empty")
  /\ UNCHANGED <<bak, draft, accepted, backed, broken, faults>> /\ Serving

\* ... and then writes, over what another handler has written since.
Write(h) ==
  /\ Answer(h, "write")
  /\ config' \in {Whole(draft[h])} \cup
                 (IF config.kind = "empty" THEN {} ELSE {File("mixed")})
  /\ accepted' = accepted \cup draft[h].edits
  /\ UNCHANGED <<bak, broken, faults>> /\ Serving

\* Variant: the error of the write is not looked at.
SaveFailsVariant(h) ==
  /\ pc[h] \in {"create", "write"} /\ Answer(h, pc[h])
  /\ accepted' = accepted \cup draft[h].edits
  /\ Fault
  /\ UNCHANGED <<files, broken>> /\ Serving

SaveFails(h) ==
  /\ pc[h] \in {"create", "write"} /\ pc' = [pc EXCEPT ![h] = "rollback"]
  /\ Fault
  /\ UNCHANGED <<files, draft, accepted, backed, broken>> /\ Serving

\* Variant: the rename goes the other way.
RollbackVariant(h) ==
  /\ Answer(h, "rollback")
  /\ ~OpenByOther(h)
  /\ bak' = config /\ config' = File("absent")
  /\ UNCHANGED <<accepted, broken, faults>> /\ Serving

\* The backup is put back, be it of this save or of an earlier one.
Rollback(h) ==
  /\ Answer(h, "rollback")
  /\ \/ /\ bak.kind # "absent" /\ ~OpenByOther(h)
        /\ config' = bak /\ bak' = File("absent")
        /\ broken' = (broken \/ h \notin backed) /\ UNCHANGED faults
     \/ /\ bak.kind = "absent" \/ OpenByOther(h)
        /\ broken' = TRUE /\ UNCHANGED <<files, faults>>
     \/ Fault /\ broken' = TRUE /\ UNCHANGED files
  /\ UNCHANGED accepted /\ Serving
-----------------------------------------------------------------------------
Next ==
  \/ \E i \in Instances :
       \/ LoadConfig(i) \/ ReadToken(i) \/ NewToken(i) \/ CreateGuard(i) \/ WriteGuard(i)
       \/ Crash(i) \/ GuardFails(i)
  \/ Panic
  \/ \E h \in Pages :
       Get(h) \/ Post(h) \/ Backup(h) \/ Create(h) \/ Write(h) \/ SaveFails(h) \/ Rollback(h)

Spec == Init /\ [][Next]_vars
-----------------------------------------------------------------------------
(* Properties                                                              *)

TypeOK ==
  /\ config \in Contents /\ bak \in Contents
  /\ guard \in 0 .. minted /\ minted \in Nat
  /\ life \in [Instances -> {"down", "token", "create", "write", "up"}]
  /\ mem \in [Instances -> Configs] /\ \A i \in Instances : mem[i].interval # 0
  /\ token \in [Instances -> 0 .. minted]
  /\ form \in [Pages -> SUBSET (0 .. MaxSaves)] /\ draft \in [Pages -> Configs]
  /\ pc \in [Pages -> {"idle", "backup", "create", "write", "rollback"}]
  /\ saves \in 0 .. MaxSaves /\ faults \in 0 .. MaxFaults /\ crashes \in 0 .. MaxCrashes
  /\ accepted \subseteq 0 .. MaxSaves /\ backed \subseteq Pages
  /\ careless \in BOOLEAN /\ broken \in BOOLEAN /\ clash \in BOOLEAN

\* Saves that do not overlap, of forms that hold what was saved before, lose
\* nothing: when none is under way config.yaml is complete and has every edit
\* that was answered as saved, whatever writes and renames failed and were
\* rolled back, unless a save was cut short or failed without a backup.
SavedIsKept ==
  Idle /\ ~broken /\ ~careless => config.kind = "whole" /\ accepted \subseteq config.cfg.edits

\* While a save is under way that could move config.yaml to config.yaml.bak, one
\* of the two is complete at every step (README.md:268): a crash then loses
\* no configuration, though somebody has to rename the backup.
OneCopyIsWhole ==
  ~broken /\ (\A h \in Pages : pc[h] \in {"create", "write", "rollback"} => h \in backed) =>
    config.kind = "whole" \/ bak.kind = "whole"

\* The configuration that makes guardian.go:120 panic was never saved by the
\* console: forms may say what they like.
PanicIsByHand == mem["a"].interval < 0 => mem["a"].edits = {0}

\* The instances that are up hold the token that .guard does (README.md:395),
\* restarts and failing writes included, unless both created the file at once.
TokenIsInGuard == ~clash => \A i \in Instances : life[i] = "up" => token[i] = guard

\* Once A is back after a save the new configuration is in force (README.md:266,
\* server.go:262): B, which starts A, asks for its health at the port A serves.
\* A has answered saves in memory only when it booted after them; a B that has
\* no edit in memory booted on a file that was just being saved, and is excused.
WatcherKnowsPort ==
  LET saved == accepted \ {0}
  IN  /\ life["a"] = "up" /\ life["b"] = "up"
      /\ saved # {} /\ saved \subseteq mem["a"].edits
      /\ mem["b"].edits # {}
      => mem["a"].port = mem["b"].port
=============================================================================
