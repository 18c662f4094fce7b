---------------------------- MODULE RotateWriter ----------------------------
(***************************************************************************)
(* The detailed log of one instance (internal/logger/logger.go): lines go  *)
(* through io.MultiWriter to a rotateWriter, which starts a file each day  *)
(* and sets a full one aside under a numbered name, and then to a buffer   *)
(* of the latest lines, which the console shows.                           *)
(*                                                                         *)
(* A file name is a day and a part: part 0 is daemon-a-<day>.log, part k   *)
(* daemon-a-<day>.00k.log.  A line is a number, and sizes count lines.     *)
(* logrus holds its lock through a Write; the clock runs all the while,    *)
(* and Write and open each ask it for the day.                             *)
(***************************************************************************)
EXTENDS Naturals, Sequences, FiniteSets, SequencesExt

CONSTANTS
  MaxSize,    \* lines that fill a file: maxSizeMB, 10 MB
  MaxParts,   \* numbered names that rotateBySize tries: 999
  MaxAge,     \* days that cleanOld keeps: 30
  BufferSize, \* lines in the buffer: 20
  MaxDays,    \* bound: days in one behaviour
  MaxLines,   \* bound: lines in one behaviour
  MaxStops,   \* bound: times the process ends
  MaxFaults   \* bound: opens, renames and removals that fail

ASSUME WriterAssumption ==
  /\ MaxSize \in Nat \ {0} /\ MaxParts \in Nat /\ MaxAge \in Nat \ {0}
  /\ BufferSize \in Nat \ {0} /\ MaxDays \in Nat \ {0} /\ MaxLines \in Nat
  /\ MaxStops \in Nat /\ MaxFaults \in Nat

Days  == 1 .. MaxDays
Names == Days \X (0 .. MaxParts)
None  == <<0, 0>>
Current(d) == <<d, 0>>

VARIABLES
  day,         \* the clock
  exists,      \* directory: names there are files under
  text, mtime, \* what they hold, and the day they were last written
  up,          \* the process runs
  writer,      \* New got its rotateWriter
  file,        \* rotateWriter.file: the name it was opened under, None if nil
  currentDay, size,
  pc,          \* where Write is
  today,       \* Write's local: the day it began
  next,        \* the number of the line to be written next
  buffer,      \* logBuffer.lines
  stops, faults,
  stored,      \* history: lines that a file took
  cleaned,     \* history: lines whose file cleanOld removed
  badDays,     \* history: days on which an open failed
  stuck,       \* history: days on which a full file could not be set aside
  spared       \* history: cleanOld failed to remove a file

dirVars  == <<exists, text, mtime>>
openVars == <<file, currentDay, size>>
vars == <<day, exists, text, mtime, up, writer, file, currentDay, size, pc, today,
          next, buffer, stops, faults, stored, cleaned, badDays, stuck, spared>>

Init ==
  /\ day = 1
  /\ exists = {}
  /\ text = [n \in Names |-> << >>] /\ mtime = [n \in Names |-> 1]
  /\ up = FALSE /\ writer = FALSE
  /\ file = None /\ currentDay = 1 /\ size = 0
  /\ pc = "idle" /\ today = 1 /\ next = 1 /\ buffer = << >>
  /\ stops = 0 /\ faults = 0
  /\ stored = {} /\ cleaned = {} /\ badDays = {} /\ stuck = {} /\ spared = FALSE

Goto(from, to) == pc = from /\ pc' = to
Fault == faults < MaxFaults /\ faults' = faults + 1

Midnight ==
  /\ day < MaxDays /\ day' = day + 1
  /\ UNCHANGED <<dirVars, up, writer, openVars, pc, today, next, buffer, stops, faults,
                 stored, cleaned, badDays, stuck, spared>>
-----------------------------------------------------------------------------
(* open                                                                    *)

\* Variant: the size of what the file held is not asked for.
OpenOKVariant ==
  /\ currentDay' = day
  /\ file' = Current(day)
  /\ size' = 0
  /\ mtime' = IF Current(day) \in exists THEN mtime ELSE [mtime EXCEPT ![Current(day)] = day]

\* O_CREATE | O_APPEND; the day is asked for again.
OpenOK ==
  /\ currentDay' = day
  /\ file' = Current(day)
  /\ size' = Len(text[Current(day)])
  /\ mtime' = IF Current(day) \in exists THEN mtime ELSE [mtime EXCEPT ![Current(day)] = day]

\* currentDay is set before OpenFile is tried, and stays.
OpenFails ==
  /\ Fault
  /\ currentDay' = day
  /\ badDays' = badDays \cup {day}
  /\ UNCHANGED <<dirVars, file, size>>
-----------------------------------------------------------------------------
(* Write                                                                   *)

\* Variant: a day is only turned with a file that is open.
NeedsRotationVariant == (day # currentDay /\ file # None) \/ size >= MaxSize
\* Variant: the day is not looked at.
NeedsRotationVariant2 == size >= MaxSize

NeedsRotation == day # currentDay \/ size >= MaxSize

Write ==
  /\ up /\ next <= MaxLines
  /\ Goto("idle", IF writer /\ NeedsRotation THEN "rotate" ELSE "put")
  /\ today' = day
  /\ UNCHANGED <<day, dirVars, up, writer, openVars, next, buffer, stops, faults,
                 stored, cleaned, badDays, stuck, spared>>

\* rotateBySize looks for the first numbered name that is free.
FreeParts == {p \in 1 .. MaxParts : <<currentDay, p>> \notin exists}
\* Variant: the first numbered name, free or not.
FirstFreeVariant == 1
\* Variant: the last free name.
FirstFreeVariant2 == CHOOSE p \in FreeParts : \A q \in FreeParts : p >= q
FirstFree == CHOOSE p \in FreeParts : \A q \in FreeParts : p <= q

SetAside(p) ==
  /\ exists' = (exists \ {Current(currentDay)}) \cup {<<currentDay, p>>}
  /\ text' = [text EXCEPT ![<<currentDay, p>>] = text[Current(currentDay)],
                          ![Current(currentDay)] = << >>]
  /\ mtime' = [mtime EXCEPT ![<<currentDay, p>>] = mtime[Current(currentDay)]]
  /\ UNCHANGED <<faults, stuck>>

\* All numbered names are taken, or the rename fails: its error is ignored.
LeaveInPlace ==
  /\ \/ FreeParts = {} /\ UNCHANGED faults
     \/ Fault
  /\ stuck' = stuck \cup {currentDay}
  /\ UNCHANGED dirVars

\* rotate closes the file, sets it aside unless the day is a new one, opens.
Rotate ==
  /\ Goto("rotate", "open")
  /\ file' = None
  /\ IF today = currentDay /\ Current(currentDay) \in exists
       THEN (FreeParts # {} /\ SetAside(FirstFree)) \/ LeaveInPlace
       ELSE UNCHANGED <<dirVars, faults, stuck>>
  /\ currentDay' = today
  /\ UNCHANGED <<day, up, writer, size, today, next, buffer, stops, stored, cleaned, badDays,
                 spared>>

Open ==
  /\ Goto("open", "put")
  /\ OpenOK
  /\ exists' = exists \cup {Current(day)}
  /\ UNCHANGED <<day, text, up, writer, today, next, buffer, stops, faults,
                 stored, cleaned, badDays, stuck, spared>>

\* Write returns the error, and MultiWriter stops at it.
WriteFails ==
  /\ Goto("open", "idle")
  /\ OpenFails
  /\ next' = next + 1
  /\ UNCHANGED <<day, up, writer, today, buffer, stops, stored, cleaned, stuck, spared>>

\* Variant: the buffer is not trimmed.
KeepVariant(line) == Append(buffer, line)
Keep(line) ==
  LET all == Append(buffer, line)
  IN  IF Len(all) > BufferSize THEN SubSeq(all, Len(all) - BufferSize + 1, Len(all)) ELSE all

\* Variant: the buffer first.
PutVariant ==
  /\ Goto("put", "idle")
  /\ next' = next + 1
  /\ IF writer /\ file # None
       THEN /\ text' = [text EXCEPT ![file] = Append(@, next)]
            /\ mtime' = [mtime EXCEPT ![file] = day]
            /\ size' = size + 1
            /\ stored' = stored \cup {next}
       ELSE UNCHANGED <<text, mtime, size, stored>>
  /\ buffer' = Keep(next)
  /\ UNCHANGED <<day, exists, up, writer, file, currentDay, today, stops, faults,
                 cleaned, badDays, stuck, spared>>

\* The file first, then the buffer.  Writing to a nil file is an error too.
Put ==
  /\ Goto("put", "idle")
  /\ next' = next + 1
  /\ IF writer /\ file # None
       THEN /\ text' = [text EXCEPT ![file] = Append(@, next)]
            /\ mtime' = [mtime EXCEPT ![file] = day]
            /\ size' = size + 1
            /\ stored' = stored \cup {next}
       ELSE UNCHANGED <<text, mtime, size, stored>>
  /\ buffer' = IF writer /\ file = None THEN buffer ELSE Keep(next)
  /\ UNCHANGED <<day, exists, up, writer, file, currentDay, today, stops, faults,
                 cleaned, badDays, stuck, spared>>
-----------------------------------------------------------------------------
(* New: the only caller of cleanOld                                        *)

\* Last written MaxAge days ago, and what of it was written after this time of day.
Tied == {n \in exists : mtime[n] + MaxAge = day}
Later == {keep \in SUBSET Tied : \A n \in keep, m \in Tied \ keep :
            \A k \in 1 .. Len(text[n]), l \in 1 .. Len(text[m]) : text[m][l] < text[n][k]}

\* Variant: the numbered names are not matched.
ExpiredVariant(keep) == {n \in exists : n[2] = 0 /\ mtime[n] + MaxAge <= day} \ keep

\* The files last written before this time of day, MaxAge days ago.
Expired(keep) == {n \in exists : mtime[n] + MaxAge <= day} \ keep

\* What cannot be removed is held by another program, and is left without a word.
Boot ==
  /\ ~up /\ up' = TRUE /\ writer' = TRUE
  /\ OpenOK
  /\ \E keep \in Later : \E held \in SUBSET Expired(keep) :
       LET old == Expired(keep) \ held
       IN  /\ exists' = (exists \ old) \cup {Current(day)}
           /\ text' = [n \in Names |-> IF n \in old THEN << >> ELSE text[n]]
           /\ cleaned' = cleaned \cup UNION {ToSet(text[n]) : n \in old}
           /\ \/ held = {} /\ UNCHANGED <<faults, spared>>
              \/ held # {} /\ Fault /\ spared' = TRUE
  /\ UNCHANGED <<day, pc, today, next, buffer, stops, stored, badDays, stuck>>

\* Without a file the instance logs to its buffer for as long as it lives.
BootFails ==
  /\ ~up /\ up' = TRUE /\ writer' = FALSE
  /\ OpenFails
  /\ UNCHANGED <<day, pc, today, next, buffer, stops, stored, cleaned, stuck, spared>>

Stop ==
  /\ up /\ up' = FALSE
  /\ stops < MaxStops /\ stops' = stops + 1
  /\ pc' = "idle" /\ file' = None /\ buffer' = << >>
  /\ next' = IF pc = "idle" THEN next ELSE next + 1
  /\ UNCHANGED <<day, dirVars, writer, currentDay, size, today, faults,
                 stored, cleaned, badDays, stuck, spared>>
-----------------------------------------------------------------------------
Next ==
  \/ Midnight
  \/ Write \/ Rotate \/ Open \/ WriteFails \/ Put
  \/ Boot \/ BootFails \/ Stop

Spec == Init /\ [][Next]_vars
-----------------------------------------------------------------------------
(* Properties                                                              *)

TypeOK ==
  /\ day \in Days /\ currentDay \in Days /\ today \in Days
  /\ exists \subseteq Names /\ file \in Names \cup {None}
  /\ text \in [Names -> Seq(1 .. MaxLines)] /\ mtime \in [Names -> Days]
  /\ up \in BOOLEAN /\ writer \in BOOLEAN /\ size \in Nat
  /\ pc \in {"idle", "rotate", "open", "put"}
  /\ next \in 1 .. MaxLines + 1
  /\ buffer \in Seq(1 .. MaxLines) /\ Len(buffer) <= BufferSize
  /\ stops \in 0 .. MaxStops /\ faults \in 0 .. MaxFaults
  /\ stored \subseteq 1 .. MaxLines /\ cleaned \subseteq 1 .. MaxLines
  /\ badDays \subseteq Days /\ stuck \subseteq Days /\ spared \in BOOLEAN

Places(line) == {p \in Names \X (1 .. MaxLines) :
                   p[2] <= Len(text[p[1]]) /\ text[p[1]][p[2]] = line}

\* A line that a file has taken is in exactly one file, once, until cleanOld
\* removes that file: no rotation overwrites or doubles a line.
NothingOverwritten == \A line \in stored \ cleaned : Cardinality(Places(line)) = 1

\* The parts of a day, in the order of their numbers and the current file
\* last, hold its lines in the order they were written, through size
\* rotations, restarts and failed renames.
PartsInOrder == \A n, m \in Names :
  /\ \A k, l \in 1 .. Len(text[n]) : k < l => text[n][k] < text[n][l]
  /\ n[1] = m[1] /\ n[2] # 0 /\ (m[2] = 0 \/ n[2] < m[2])
       => \A k \in 1 .. Len(text[n]), l \in 1 .. Len(text[m]) : text[n][k] < text[m][l]

\* A file stays within its size (README.md:337), over restarts too, except on
\* a day on which it could not be set aside.
SizeIsBounded == \A n \in Names : n[1] \notin stuck => Len(text[n]) <= MaxSize

\* cleanOld goes by the time of the last write, file by file, and yet removes
\* the oldest lines only: what is left of the log is its end, without a gap,
\* through numbered files, restarts and midnights, unless a removal failed.
CleansOldest == ~spared => \A line \in cleaned, older \in stored :
                             older < line => older \in cleaned

\* The console's lines are in the log files: the buffer never shows a line of
\* an instance that logs to files and that no file took.
ConsoleLinesAreFiled == up /\ writer => ToSet(buffer) \subseteq stored

\* A line is only lost, while the instance logs to files, by an open that
\* failed on a day of its Write or earlier that day: logging is back with the
\* first line of the next day.
LossIsConfined == [][
  (Put \/ WriteFails) /\ writer /\ next \notin stored' => (today .. day) \cap badDays' # {}]_vars

\* A line is filed under a day on which its Write was under way.
DatedByItsWrite == [][Put /\ next \in stored' => file[1] \in today .. day]_vars
=============================================================================
