# ProcessGuard (daemon-go) in TLA+

ProcessGuard keeps business processes on a Windows machine running. It is one
binary installed as two services, `ProcessGuard-A` and `ProcessGuard-B`. A
watches the configured projects and serves a web console; A and B watch each
other. This directory holds TLA+ modules that model the daemon's control logic,
its files and its logs, TLC runs that check them on small instances, and proofs,
checked by TLAPS, that the most important properties hold for every value of the
constants.

All definitions are translated from the Go source (and from the one script
whose behaviour matters, `scripts/restart-service.bat`); `PROJECT.json` maps each
definition to the lines it stands for.

    tlc -workers 2 -config guardian_safety.cfg MCGuardian     # check one run
    tlapm GuardianProofs.tla                                   # check the proofs

## 1. Inventory

| Component | State it keeps | Operations | Modelled in |
|---|---|---|---|
| Project guardian `internal/project/guardian.go`, `pid.go` | `state`, `paused`, `pid`, `startTime`, `failCount`, `stopCh` | loop tick, `startProject`, `stopProject`, ManualStart/Stop/Restart, `ResetFailCount`, `SetPaused`, `Stop` | `Guardian`, `PauseGate` |
| Project manager `internal/project/manager.go` | map of guardians by name, `paused` | `Start`, `SetPaused`, `Stop`, lookup and dispatch by name | `DaemonControl` (Start, SetPaused), `Guardian` (dispatch) |
| Boot and state file `cmd/daemon/main.go`, `config.SaveState/LoadState` | `daemon.state` | main, `daemonHandler.Start` / `Stop` | `DaemonControl`, `Installation` |
| Web console `internal/web/server.go` | none of its own | pause, resume, project start/stop/restart/reset, restart, config, status, logs, events | `DaemonControl`, `Guardian`, `PeerWatch`, `Installation`, `EventStore` |
| Peer watcher `internal/watcher/watcher.go` | `lastAlive` | loop, `isPeerAlive`, `recoverPeer` | `PeerWatch`, `Installation` (the port it asks) |
| Windows services `internal/service`, `scripts/*.bat` | the service control manager's states | Execute, start, stop, restart script | `PeerWatch` |
| Actions `internal/actions` | command allow-list | `RunStartScript`, `StopProject`, actions, `splitCommand`, `isCommandAllowed` | scripts in `Guardian`; the rest: section 5 |
| Event store `internal/logger/event.go` | ring of 100 events, its file | Add, load, rewrite; the console's reader | `EventStore`, `EventHistory` |
| Log writer `internal/logger/logger.go` | open file, day, size, buffer of latest lines | Write, rotate, rotateBySize, open, cleanOld, New | `RotateWriter` |
| Configuration `internal/config`, `handleConfig` | `config.yaml`, `config.yaml.bak` | Load, defaults, Save, edit from the console | `Installation` |
| Access token `internal/auth/token.go` | `.guard` | load or create | `Installation` |
| Web page, packaging, CI | none | | no: presentation only |

How they interact. The console's handlers run in goroutines of A's web server and
call the manager, which calls guardians directly: a manual start runs the same
`startProject` as the guardian's own loop, in another goroutine, with nothing to
keep the two apart but the mutex that protects single fields (and not all of
them). Pausing goes through the state file, the manager's flag and the guardians'
flags, in that order, without a lock over the whole. The file is what a restarted
daemon goes by. A and B share nothing but the service control manager, which each
asks about the other, and A's health endpoint, which B asks; and they share the
directory that holds `config.yaml`, `.guard`, and the event files of both, which
the console merges.

What is hard here, and what makes each component correct:

* Guardian. Ticks, manual operations, pauses and resets interleave at every
  unlocked step, `failCount++` and the stores of `pid` and `startTime` are not
  locked at all, and the pause flag and the limit are each read once and acted on
  much later. Correct means: a pause lets at most the tick under way through; the
  limit on restarts is kept; a lockout ends by a person only; the console's view
  comes right; `Stop` returns.
* Manager, boot, state file. The console serves before the guardians exist;
  requests overlap; a save is truncate-then-write; the process may die anywhere;
  nothing makes project names distinct. Correct means: at rest the file, the
  manager and the guardians agree, and an answered pause is kept, by restarted
  daemons too.
* Peer watcher and services. Two machines of the same kind restart each other
  through an asynchronous service manager while operators and scripts stop
  them. Correct means: as long as one is left, both come back; what a watcher
  believes of its peer comes right.
* Event store. A ring is kept in step with a file that is appended to in two
  writes, now and then rewritten, reloaded after any of these was interrupted or
  failed, its error discarded, and read by the console meanwhile. Correct means: a
  restart recalls events in order, each once, and forgets none that an accident did
  not hit.
* Log writer. Every line asks the clock twice, and the file under it changes at
  midnight and at 10 MB. Correct means: lines stay in order under the day they
  belong to, none is overwritten, and those that are lost have a reason.
* Configuration and token. Files are replaced in two steps by handlers that do
  not exclude each other, rolled back on failure, and loaded by two processes that
  both create `.guard` when there is none. Correct means: a saved edit is kept, one
  complete copy is always left, both instances hold one token.

`PROJECT.json` lists the hazards at their lines, with the properties that cover
each or the reason that none does.

## 2. Modules

`PauseGate` (abstract) is what a guardian promises about pausing: a tick that
found the flag clear is *armed* and may launch once, whatever the flag does
meanwhile. `Guardian` implements it (refinement property `GateSpec`), and
`DaemonControl` uses it in place of the whole guardian (`Arm`, `Disarm`,
`Launch` per project), so that the daemon-wide model composes with the detailed
one through the abstraction that is proved of it. `EventHistory` (abstract) is what
an event store promises: it recalls events that it recorded, in order, each once,
and a bounded number of them. `EventStore`, with its files, implements it
(`ImplementsHistory`).

### Guardian

One project. The goroutines are `Loop` and the console's `Callers`; `pc` says where
each is, `reg` is a local value read and not yet stored. One action per step
between which another goroutine can interfere: `CanStart`, `SetStarting`,
`RunScript`, `WaitStartup`/`WaitMore`, `SetFailed`, `LoadCount`/`StoreCount` (the
two halves of `failCount++`), `MarkRunning`, `ResetCount`, `RecordStart`,
`StorePid` are `startProject`, run by the loop and by callers alike; `Tick`,
`CheckFailed`, `CheckAlive`, `SetRunning`, `Ensure`, `StoreEnsured`, `Exit` are the
loop; `ManualStart`, `ManualStop`, `ManualRestart`, `ConsoleReset`, `SetPaused`,
`Stop` come from outside. Steps that take `stateMu` are guarded by `MuFree`, because
`ensureStartInfo` keeps the mutex while it runs netstat. The watched process
(`proc`) belongs to the environment and comes and goes at any time, which also
stands for what pre- and postActions, the scripts and other programs do to it.
The ticker, `startupTimeout` and the two seconds between probes are choices: a tick
or a deadline may come at any moment. A tick of a paused or disabled project does
nothing and is a stutter (a disabled project has no guardian at all). The
monitor's kind, port and process-name parsing are the choice in `FindPid`.
`fails`, `pausedLaunches` and `overlapped` are history variables: they record what
happened for the properties and no action reads them.

### DaemonControl

Instance A as a whole. `life` follows the boot (`StartWeb`, `LoadState`,
`BootPaused`, or `AddGuardian` and `StartGuardian` per project, `BootDone`), a
handler's `pc` follows `handlePause`/`handleResume` (`Truncate`, `Write`,
`SaveFails`, `SetManager`, `SetGuardian` per guardian in any order, `Respond`).
`SetManager` takes the names to visit when the range begins; a name inserted during
the range may or may not be visited, as Go's specification says. Two writers of
the file may mix: `PAUSED` is written over `RUNNING` when both have truncated first,
which leaves a text that `LoadState` does not take for `PAUSED`. `Crash` forgets
everything but the file. `slot` is the map by name and `NameOf` the projects'
names. Names need not be distinct: the guardian that is started last takes the
name's place in the map, and the loops of the others run on where no pause, stop or
reset reaches them. `Reached` says which ones are left within reach, and the
properties are about those. The history variables say when a request has been
answered and whether it ran alone.

### PeerWatch

Both services in the service manager's states, A's web server (`serving`), both
watchers (`wpc`, `lastAlive`) and the `sc start` commands they have under way.
`ComeUp`, `StartFails`, `StartWatcher`, `Crash`, `Exit` are a service process;
`Query`, `Health`, `AskFails`, `Recover`, `Recovered` are `checkAndRecover`: a peer that
serves is found alive unless the question itself fails (an error of `sc query`, or of
the health request or its three seconds), which is one of the faults. `HandleRestart` and
`RestartStops` are the console's restart button; `RunScript` is
`restart-service.bat`, line by line, `wait_loop` included. The service manager is
modelled by what `sc` does for this program: start acts on a stopped service only,
stop on a running one only, and a start, once spawned, outlives its process.

### EventHistory and EventStore

An event is the instant of its `time.Now()`, taken under the store's lock, so a
number that grows. Of a file `EventStore` keeps what `load` can tell apart: `lines`,
the events on lines of their own, `junk`, what is on lines that do not parse, and
`tail`, what follows the last newline. `Add` puts an event in the ring, `WriteLine`
and `WriteNewline` are the two writes of `persistLocked`, `Count` is the estimate
(`persistedCount`: size of the file over the mean line of the ring) that decides on
`Truncate`, `FlushPart`, `Flush`, which are `rewriteLocked`. `Stop` may come between any two:
what was written stays, and the next process appends to an unfinished line (`Parses`
says that two objects on a line are no event). `Load` reads the file and rewrites it
if it is longer than the ring. `PersistFails`, `NewlineFails`, `RewriteFails`, `FlushFails`,
`LoadFails`, `ReadFails` are the errors that the code passes over or discards
(`event.go:92-95, 138-141, 159-163, 171-172, 176-180, 186-189`): of a line nothing or the
beginning is written, and the newline tried all the same; a newline is not; a size is not known; a file does not
open; of a rewrite that has emptied the file a part arrives, or nothing, and the store goes
on as if it were the ring. A blank line leaves no piece in `junk`. `failed` counts the
appends and rewrites that were not written in full, `torn` the processes that ended with
an unfinished line, and `dropped` holds the events of the rings whose rewrite failed; they
and `recorded` are history. `BeginRead` and
`ReadFile` are the console's `LoadAllRecentEvents`: one file after the other, in any
order, without the stores' locks. What it shows of the two rings are the `Shown` newest
by time (`recentEvents`); an event that it owes may be missing only when the answer has
`Shown` events and all of them are later.

### RotateWriter

One instance's detailed log. A file name is a day and a part; a line is a number and
sizes count lines. `Write` looks at the clock and decides on a turn, `Rotate` closes
the file and, if the day is still the same, sets it aside under the first free number
(`SetAside`) or leaves it in place when no number is free or the rename fails
(`LeaveInPlace`), `Open` asks the clock *again* and opens or creates that day's file,
`Put` writes the line to the file and then to the buffer, as `MultiWriter` does, which
stops at an error. `Midnight` may come between any two. `Boot` is `New`: open, then
`cleanOld`. Of the files last written exactly `MaxAge` days ago some may be on the near
side of the time of day: `Later` are the choices that agree with the order in which they
were written. A removal may fail. `BootFails` is an instance that logs to its buffer
only. `stored`, `cleaned`, `badDays`, `stuck`, `spared` are history.

### Installation

The directory that A and B share. A configuration is the set of edits made of it so
far, the web port, and one project's check interval, which are what the properties
tell apart; a file is absent, empty, whole, or a mix of two texts. `LoadConfig`,
`ReadToken`, `NewToken`, `CreateGuard`, `WriteGuard` are main's boot in either instance;
`Get`, `Post`, `Backup`, `Create`, `Write`, `SaveFails`, `Rollback` are `handleConfig` on
behalf of each page, `os.WriteFile` in two steps as everywhere. As on Windows, a file
that is open for writing can be neither renamed nor replaced by a rename
(`OpenByOther`). `applyDefaults` and `dtoToConfig` differ, as they do in the code: the first
replaces an interval of 0, the second one that is not positive. `Panic` is `NewTicker`
on a negative interval. `careless`, `broken`, `clash` record when an edit was made on a form
that lacked an earlier one, when saves overlapped or were cut short, and when both
instances were creating `.guard`.

`MCGuardian`, `MCDaemonControl`, `MCPeerWatch`, `MCEventStore`, `MCRotateWriter` and
`MCInstallation` give the constants values for TLC. Definitions marked "Variant" in a
module are slightly wrong versions of the definition below them; substituting one
must break the property it is listed with under "mutants" in `PROJECT.json`, which
shows that the property depends on that piece of code.

## 3. Runs

Runs that pass:

| Run | Properties | Question it answers |
|---|---|---|
| `guardian_safety` | `TypeOK`, `AtMostOneLaunchWhilePaused`, `PausedStateMeansPaused`, `SingleStarterBound`, `OvershootBound`, `LockoutStable`, `GateSpec` | With the loop and two console callers, what do pausing, the limit and the shown state guarantee under every interleaving, by how much can overlapping starts pass the limit; and is the guardian a `PauseGate`? |
| `guardian_liveness` | `StatusConverges`, `DeadProjectLocksOut`, `StopTerminates` | Does the shown status come right, does a project that stays down end locked out, does `Stop` return? |
| `control` | `TypeOK`, `SettledAgreement`, `PauseHolds`, `ComesToRest` | When do file, manager and guardians agree, does an answered pause hold over restarts, and does the daemon come to rest in agreement after the last request and crash, equal names included? |
| `peer_liveness` | `TypeOK`, `PairRecovers`, `LastAliveConverges` | Does a pair of which one is always left recover, from crashes, failed starts, stops, the restart button and the script? |
| `events_files` | `TypeOK`, `RingIsEndOfFile`, `LossIsBounded`, `FileIsBounded`, `ConsoleIsCurrent`, `ImplementsHistory` | Two stores: does a restart bring the ring back, what does a torn line or a discarded error cost, can a file grow for ever, is what they recall a history, and what does the console miss while both files change under it? |
| `log_files` | `TypeOK`, `NothingOverwritten`, `PartsInOrder`, `SizeIsBounded`, `CleansOldest`, `ConsoleLinesAreFiled`, `LossIsConfined`, `DatedByItsWrite` | Through rotations by size and day, restarts, cleaning, failing opens, renames and removals: where is a line, in which order, under which day, when is it lost, and is what cleaning leaves the end of the log? |
| `install_files` | `TypeOK`, `SavedIsKept`, `OneCopyIsWhole`, `PanicIsByHand`, `TokenIsInGuard` | What is kept of saved edits and of the token through overlapping saves, failed writes, rollbacks and crashes of both instances? |

Runs that TLC must find violated, each a statement of the repository that the
code does not keep (details under "findings" in `PROJECT.json`):

| Run | Statement | What the counterexample shows |
|---|---|---|
| `guardian_reset_doc` | a reset restores guarding | the unlocked `failCount++` loads, the reset stores 0, the old count plus one is stored over it |
| `control_resume_doc` | resume puts projects under guard again | a daemon that booted paused never runs `Manager.Start`; resume finds an empty map |
| `peer_script_doc` | the script restarts both services | an `sc start` spawned by A between the two stops brings B back, B brings A back, and the script waits for ever |
| `peer_health_doc` | a peer whose health check fails is recovered | recovery is `sc start`, which refuses a running service |
| `install_port_doc` | a saved configuration is in force once A was restarted | B boots on a whole configuration, a save with another port is answered, A ends and boots with it, and B asks for A's health at the port it loaded itself |

### Bounds

* `guardian_safety`: two callers beside the loop, three console requests (starts,
  stops, restarts, resets, pauses), limit 2, one pid, lookups that may fail, callers
  symmetric. Two callers and the loop give three overlapping starts, one more than
  the limit; three requests allow pause, resume and a manual operation around one
  tick. The process comes and goes, and ticks repeat, without bound: only requests
  are counted. `failCount` and the history counters need no bound, as the lockout
  stops the loop and requests are finite. A VIEW leaves out `fails`, which is
  written only, and which no property of this run (but its type invariant)
  mentions.
* `guardian_liveness`: one caller and two requests, lookups that succeed
  (`LookupMayFail` FALSE; with lookups that fail for ever no pid can be promised).
* `control`: three projects, the first and the last of one name (one name taken
  over and one left alone), two handlers, two requests that may overlap each other and
  the boot, two crashes (one during a save, one during the boot that follows).
  `launches` is counted up to 2: the properties tell 0, 1 and more apart.
* `peer_liveness`: two faults (crashes, starts or questions that fail) and two operator
  requests on top of one run of the script. Each fault or stop can meet every state of
  the other service.
* `events_files`: two stores, symmetric; a ring of 3 and a rewrite from 4 lines on, so that
  trimming, rewriting and trimming at load all happen within the 5 events, and an event is
  added after a rewrite; the ring is larger than what one fault or the torn lines may cost
  (2), and a failed rewrite takes all of it out of the file; lines of two widths
  (`LineSize`, up to `MaxLine` bytes), so that the estimate errs both ways; 2 events shown,
  so that an answer can be full of later ones; 2 ends of a process (two torn lines, or one
  and a rewrite cut short) and 1 fault. The constraint `ReadingIsOwed` follows a reading no
  further once a line is torn or a write failed: no property says anything of it then, and
  it changes nothing of the stores, which are followed without it. What a torn line and a fault cost together (4) exceeds
  this ring, and is left to the theorem. 1 618 000 states.
* `log_files`: 2 lines fill a file, 2 numbered names, 3 days, 7 lines (a day can use up
  its numbers and go on), a buffer of 2, files kept for 1 day, 1 restart and 2 faults.
  259 000 states.
* `install_files`: two pages, symmetric, two saves (overlapping or not), 2 faults (a
  write that fails and a rollback that fails too), 1 crash, intervals typed as negative
  or left out; one port, as no property of this run is about it. 5 353 000 states.
  `install_port_doc` has two ports. There B is excused when it has no edit in memory: it
  then booted on the empty file of a save under way, and asks the default port.
* The runs that show a violation use the smallest bounds that show it.

`CHECK_DEADLOCK FALSE` in the `control*`, `peer_*`, `log_files` and `install_*` runs: a
paused daemon without requests has nothing to do, two services down stay down, and
when the bounded lines, faults, saves and crashes are used up files are at rest. The
other runs check deadlock.

### Fairness

Fairness is stated per goroutine, and only of steps that the runtime or Windows
takes by themselves. `Guardian`: weak fairness of each goroutine's `startProject` and
`stopProject` steps (scripts and lookups return, deadlines pass, the Go scheduler is
fair) and of the loop; strong fairness of `Exit`, because the loop's `select` picks at
random between a tick and the closed channel, and cannot pick the tick for ever. No
fairness of requests, of the process, or of `Stop`. `DaemonControl`: the boot goes on
and a crashed daemon is started again (B's task, shown by `PeerWatch` under its own
condition), handlers that can run do. `PeerWatch`: services that come up or go down
get there, watchers keep ticking, spawned `sc start`s take effect, the goroutine of
the restart button wakes up, the script goes on. Faults and operators are not fair.
`EventStore`, `RotateWriter` and `Installation` state safety only: nothing in that code
waits for anything, and each operation ends when it ends.

## 4. Proofs

Seven modules hold proofs, checked by TLAPS to the last leaf. They hold for every value
of the constants that the named assumptions allow; TLC evaluates the assumptions on
every run. The bounds on requests, crashes, lines, faults and the like are constants
that the theorems leave arbitrary, so they do not depend on the size of an instance.

| Module | Assumes | Theorems |
|---|---|---|
| `GuardianProofs` | `GuardianAssumption`: the loop is not a caller, the limit is an integer (`applyDefaults` replaces 0 only, so it may be negative), pids are positive | `TypeCorrect`; `ImplementsPauseGate`: `Spec => GateSpec`; `PauseBound`: at most one automatic launch after a pause; `LimitRespected`: without overlapping starts the count keeps the limit; `OvershootLimited`: with them it passes the limit by two for each console request at most; `LockoutHolds`: a lockout ends only by a console request; `PausedShownRight`: PAUSED is shown of paused guardians only |
| `DaemonControlProofs` | `ControlAssumption`: every project has a name, bounds are naturals; names may be equal | `ControlTypeCorrect`; `ControlSettledAgreement`: file, manager and guardians within reach agree at rest; `ControlPauseHolds`: an answered pause holds, restarts included |
| `PeerWatchProofs` | `PeerAssumption`: bounds are naturals | `PeerTypeCorrect` |
| `EventStoreProofs` | `StoreAssumption`: `0 < MaxSize < RewriteAt` (100 and 1000 in the code), lines are not empty and no wider than `MaxLine` | `StoreTypeCorrect`; `StoreImplementsHistory`: `Spec => ImplementsHistory`; `StoreRingIsEndOfFile`: with no line torn and no write of the file failed the ring is its end |
| `EventFileProofs` | the same | `StoreLossIsBounded`; `StoreFileIsBounded`; `StoreConsoleIsCurrent`: the other properties of `events_files` |
| `RotateWriterProofs` | `WriterAssumption`: a file takes a line, files are kept for a day at least, the buffer is not empty; numbered names may be none | `WriterTypeCorrect`; `WriterPartsInOrder`; `WriterNothingOverwritten`; `WriterSizeIsBounded`; `WriterCleansOldest`: what cleaning leaves has no gap; `WriterConsoleLines`; `WriterLossIsConfined`; `WriterDatedByItsWrite`: all properties of `log_files` |
| `InstallationProofs` | `InstallationAssumption`: there is a valid port and something to type | `InstallationTypeCorrect`; `InstallationTokens`; `InstallationPanics`; `InstallationSaves`; `InstallationOneCopy`: all properties of `install_files` |

How they go.

*Guardian.* `PauseBound` follows from steps of `PauseGate` alone: the bound is not
inductive until one adds that a tick under way *while paused* has not launched yet
(`GateInv`), and then only the five abstract actions need to be looked at.
`LimitRespected` needs `StarterInv`: as long as no two starts have overlapped there
is one start at a time, and the count it read on entry, or loaded for its
increment, was below the limit and can since only have been reset.
`OvershootLimited` is about the starts that do overlap. A goroutine may store a count
as high as any it has read, over whatever happened since, so the bound is not
inductive; but a caller stores once for its request, and goes idle with that store.
`OvershootInv` therefore measures the room above the limit by the requests that have
been *answered* (made, less the callers that are busy): two for each. A start of the
loop, which passed the check below the limit, keeps one in reserve for its own
increment; a caller's store uses one of the two that its answer adds and leaves the
other as that reserve. TLC reaches an overshoot of one less than the bound allows.

*DaemonControl.* `ControlSettledAgreement` needs three parts. `MapInv`: a running guardian
that no later project of its name has displaced is found under that name. `SoloInv`:
how far a request that has met no other has brought file, manager and guardians.
`SettledInv`: a settled daemon serves one request at a time, boots with clear flags
on the branch its file calls for, and agrees with its file as soon as nothing is
half saved. `ControlPauseHolds` adds `PromiseInv`: what an answered pause leaves
behind (file, flags, no launch by an armed guardian yet).

*EventStore.* `HistoryInv`: ring and file hold recorded events in increasing order, and the
event that is being added is later than all in the file. That makes `Load` a recovery of the
abstract store, and `Add` its `Record`; all else is a stutter. `RingInv` says at each step
of `Add` and of the rewrite how much of the ring the file ends with: all of it, or all but
the event being added; with nothing torn, `tail` is not empty only between the two writes of
a line. The three results of `EventFileProofs` are about cardinalities. `LossInv` counts the
events of the ring that a reading of the file would not find, those of a failed rewrite
apart, and adds what an unfinished last line may still cost (`Pending`): two if it parses as
it is (its own event, and the next one glued to it), one if it is the beginning of a line.
The sum is what stays within the bound: an append that is glued to such a line turns what is
pending into what is missing, and a write that fails pays two for its own event and for the
unfinished line that it leaves. That torn lines are paid for once is `Load`'s doing, which
fills the ring from the file, and the rewrite's, which does the reverse. `GrowthInv` follows
the size of the file through an Add: the estimate divides by a mean that is at most
`MaxLine`, so a file that is not rewritten is below `RewriteAt` of such lines; an Add brings
it one line above the bound until its rewrite, and if that fails, or the process ends before
it, one of `faults + stops` has paid for the line. For this the bytes of a file are a set,
each byte known by its line and its place in it, and their number a cardinality, about which
there are lemmas (`BytesConcat`, `BytesAppend`, `BytesBounds`); the value of a fold would be
a fact by induction over data. `ReadInv` says where an event that a reading owes is, unless
the reading met an accident: seen already, or in a file it has yet to read and that is not
being rewritten. That the merge then shows it, or as many as it may show and all of them
later, are two facts about the newest of a finite set: what is not among them is older than
all of them (`NewestAreLatest`), and then they are as many as asked for (`NewestAreEnough`,
from the latest that is left out and the oldest that is not).

*RotateWriter.* `ClockInv` relates clock, `currentDay` and the local `today` at each step of
Write: `today <= currentDay <= day` once a file is open, and an instance without one has
a bad day behind it; the two action properties follow from it alone. `DirInv` is the
key to the order: no file is of a day to come, and the numbered parts of the current
day are the first numbers, because `rotateBySize` takes the least free one and `cleanOld`
never takes a file of that day. So when a full file gets its number none with a
higher number exists, and `OrderInv` (texts increase within and across files) is kept.
`NothingOverwritten` then is a corollary: texts that increase across all files hold no
line twice, and `LinesInv` says that each stored and not cleaned line is somewhere.
`SizeInv` carries `size = Len(text[file])` from `Open` to the next decision to turn.
`CleansOldest` compares lines, while `cleanOld` compares times of files: `AgeInv` says that of
two files with lines in them the earlier was last written no later. A write keeps it,
because nothing after the file it goes to has a line; so does a rename, which takes the
time along to the last number before. With `OrderInv` it follows that each file with an
older line than a removed file's is old enough too (`OldestExpire`).

*Installation.* `TokenInv`: without a clash the instance that creates `.guard` is the only one
that has come so far, and the file is empty until it writes. `IntervalInv`: every
configuration in a file, in memory or in a handler that has a negative interval is the
installer's own. `SaveInv`: there is one save at a time, and for each step of it which of
config.yaml and its backup keeps every accepted edit.

Each invariant was first checked by TLC as an invariant of its run.

Model-checked only: everything under fairness (`StatusConverges`,
`DeadProjectLocksOut`, `StopTerminates`, `ComesToRest`, `PairRecovers`,
`LastAliveConverges`), as liveness and ENABLED are out of the prover's reach, and the
violations. Every safety property of a passing run, and both refinements, have a theorem.

## 5. Not modelled, and known limits

Left out, with the reason:

* Windows itself beyond the service states and the rule on open files; the parsing of
  netstat, tasklist and sc output (a choice of outcomes); the wording and rendering of
  logs, events and JSON; installing and uninstalling services; the command line and
  the mutex against a second process; static files, status and the checks of address
  and token on each request, which change no state.
* `splitCommand` and `isCommandAllowed`: pure functions on strings with nothing
  concurrent or persistent about them; unit tests reach them. The actions (`killPort`,
  `killProcess`, `killWindow`, `wait`, `runCommand`) act on the watched process, which
  `Guardian` lets come and go at any time.
* `peer.startScript`, empty in the shipped `config.yaml`, in `recoverPeer`. `MarkFailed` and
  `Logger.Close`, which nothing but tests calls.
* `Manager.Stop` with its ten seconds: `Execute` returns without waiting for it, so the
  process may end at any point of it, which is `Crash` in `DaemonControl` and `Exit` in
  `PeerWatch`. The runtime's "concurrent map iteration and map write" is one of the
  reasons for `Crash`. The answer for an unknown project name changes nothing.
* In `PeerWatch` the port B asks at, which is in `Installation`: there B may ask the wrong
  one for ever, which `PairRecovers` and `LastAliveConverges` take for granted it does not.
* In `RotateWriter`: the error of a write to a file that is open (a full disk), a clock that
  is set back, files in the log directory that are not the instance's own. In `EventStore`:
  a read that fails in the middle of a file, and `bufio.Scanner`'s 64 KB limit on a line,
  far above what the code puts in an event. In `Installation`: the fields of a configuration
  but port and interval, and a `.guard` that an operator deletes while instances run (each
  keeps the token it has until it restarts).

Behaviour of the code that the properties had to make room for, each a limit of the
program rather than of the model:

* A tick that passed `isPaused` before a pause still runs the script after it; the
  documentation says that a paused daemon restarts nothing. `PauseGate` says what is true.
* Failures that are not consecutive add up to a lockout: a tick that finds the project
  alive does not clear the count, only a start that succeeds in time does.
* Overlapping starts take the count past the limit, which is checked on entry only: by two
  for each console request at most (`OvershootBound`).
* A project that reached its limit, is paused and resumed, is shown as INIT, not FAILED.
* A project replaced by another process between two ticks keeps showing the old pid:
  `ensureStartInfo` looks up only a pid that is 0 (`StatusConverges` asks for some pid).
* A pause answered while boot is still adding guardians does not reach the later ones,
  which start unpaused (`unsettled` in `DaemonControl`).
* A pause whose save is cut short between truncation and write leaves an empty file,
  which reads as RUNNING: an earlier, answered pause is lost with it.
* The guardians of projects whose name is used again are out of reach of every request.
* `restartDelay` is given a default and used nowhere: a failing project is started again
  at the next tick.
* A process that ends between the two writes of an event's line costs that event and the
  next one, glued to it on one line; so does each write whose error is discarded, and a
  rewrite that fails after it has emptied the file costs all that the ring held then, at the
  next restart (`LossIsBounded`).
* `cleanOld` runs at boot only: an instance that is never restarted keeps all its files.
  A file that another program holds open then is left without notice, and stands alone
  before a gap (`spared`).
* The console's GET shows the configuration in memory: a page loaded between a save and
  the restart of A lacks that save's edits, and saving it takes them back (`careless`).
* A save from the console writes the fields its form has; the others (`allowedCommands`,
  `peer.startScript`, paths, hosts) come out as their defaults.
* A crash between rename and save leaves `config.yaml.bak` only, and neither instance boots
  until somebody renames it (`OneCopyIsWhole`: nothing is lost).
* Both instances started at once on a fresh installation may each create `.guard`, and the one
  that wrote first then holds a token that is not in it (`clash`).

## 6. Plan

Done, in this order: `PauseGate`, `Guardian`, their runs and proofs; `DaemonControl`, its
runs and proofs, then with equal names; `PeerWatch`, its runs and type correctness;
`EventHistory` and `EventStore`; `RotateWriter`; `Installation`; the proofs of all three,
the last of them about what is counted (`EventFileProofs`, `OvershootLimited`), and what
cleaning leaves (`WriterCleansOldest`).

What is left, most important first:

1. A safety invariant below `PairRecovers`: a service that is down while the other
   watches has a start under way, or a watcher that is about to spawn one. With it the
   recovery would rest on fairness for its last step only.
2. `ServiceStop`: `Manager.Stop`, the guardians' `Stop` and the ten seconds against the
   end of the process, if `Execute` ever waits for it.
3. `splitCommand` against a reference definition over bounded inputs.
