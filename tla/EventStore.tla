----------------------------- MODULE EventStore -----------------------------
(***************************************************************************)
(* The key events: each instance's EventStore (internal/logger/event.go),  *)
(* a ring in memory and a file events-<instance>.jsonl that outlives it,   *)
(* and the console's reader of both files (LoadAllRecentEvents in          *)
(* logger.go), which takes no lock.                                        *)
(*                                                                         *)
(* An event is the instant of its time.Now().  Of a file the model keeps   *)
(* what load can tell apart: the events on lines of their own, what is on  *)
(* lines that do not parse, and what follows the last newline.  Any two    *)
(* writes, and any two readings, may be parted by the process ending.      *)
(***************************************************************************)
EXTENDS Naturals, Sequences, FiniteSets, SequencesExt

CONSTANTS
  Store,      \* the instances
  MaxSize,    \* NewEventStore's maxSize: 100
  RewriteAt,  \* lines at which Add rewrites the file: 1000
  Shown,      \* events the console asks for: 10
  MaxEvents,  \* bound: events in one behaviour
  MaxLine,    \* bytes of the widest line
  LineSize,   \* bytes of each event's line
  MaxStops,   \* bound: times an instance ends
  MaxFaults   \* bound: files that do not open, writes that fail

ASSUME StoreAssumption ==
  /\ MaxSize \in Nat \ {0} /\ RewriteAt \in Nat /\ MaxSize < RewriteAt
  /\ Shown \in Nat /\ MaxEvents \in Nat /\ MaxStops \in Nat /\ MaxFaults \in Nat
  /\ MaxLine \in Nat \ {0} /\ LineSize \in [1 .. MaxEvents -> 1 .. MaxLine]

VARIABLES
  events,    \* EventStore.events
  pc,        \* where each store is in Add or load; mu is free when "idle"
  lines,     \* file: events on lines of their own
  junk,      \* file: what is on lines that do not parse, as pieces of lines
  tail,      \* file: what follows the last newline, as pieces of lines
  now,       \* the clock: the time of the latest event
  unread,    \* files LoadAllRecentEvents has yet to read
  seen,      \* what it has read
  stops, faults,
  recorded,  \* history: the events each store was given
  torn,      \* history: times a process ended and left a line unfinished
  failed,    \* history: appends and rewrites that were not written in full
  dropped,   \* history: the events of rings whose rewrite was not written in full
  owed,      \* history: what a reading has to show
  partial    \* history: this reading met a rewrite or a file it cannot open

fileVars    == <<lines, junk, tail>>
storeVars   == <<events, pc>>
readerVars  == <<unread, seen, owed, partial>>
historyVars == <<recorded, torn, failed, dropped>>
vars == <<events, pc, lines, junk, tail, now, unread, seen, stops, faults,
          recorded, torn, failed, dropped, owed, partial>>

H == INSTANCE EventHistory WITH recall <- events
Trim(s, n) == H!Trim(s, n)

Labels == {"down", "idle", "write", "newline", "count", "truncate", "flush"}
Cut == 0   \* the beginning of a line

Init ==
  /\ events = [i \in Store |-> << >>]
  /\ pc = [i \in Store |-> "down"]
  /\ lines = [i \in Store |-> << >>]
  /\ junk = [i \in Store |-> << >>]
  /\ tail = [i \in Store |-> << >>]
  /\ now = 0 /\ stops = 0 /\ faults = 0
  /\ unread = {} /\ seen = {} /\ owed = {} /\ partial = FALSE
  /\ recorded = [i \in Store |-> {}]
  /\ torn = [i \in Store |-> 0]
  /\ failed = [i \in Store |-> 0]
  /\ dropped = [i \in Store |-> {}]

Goto(i, from, to) == pc[i] = from /\ pc' = [pc EXCEPT ![i] = to]
Fault == faults < MaxFaults /\ faults' = faults + 1
-----------------------------------------------------------------------------
(* Add                                                                     *)

\* The event takes its time under the lock, so times grow along the ring.
Add(i) ==
  /\ now < MaxEvents
  /\ Goto(i, "idle", "write")
  /\ now' = now + 1
  /\ events' = [events EXCEPT ![i] = Trim(Append(@, now + 1), MaxSize)]
  /\ recorded' = [recorded EXCEPT ![i] = @ \cup {now + 1}]
  /\ UNCHANGED <<fileVars, readerVars, stops, faults, torn, failed, dropped>>

\* Variant: the first of the ring is written, not the last.
WriteLineVariant(i) ==
  /\ Goto(i, "write", "newline")
  /\ tail' = [tail EXCEPT ![i] = Append(@, Head(events[i]))]
  /\ UNCHANGED <<events, lines, junk, now, readerVars, stops, faults, historyVars>>

\* persistLocked appends the line in two writes.  What a process that ended
\* in between left on the last line is glued to it.
WriteLine(i) ==
  /\ Goto(i, "write", "newline")
  /\ tail' = [tail EXCEPT ![i] = Append(@, Last(events[i]))]
  /\ UNCHANGED <<events, lines, junk, now, readerVars, stops, faults, historyVars>>

\* The file does not open, or nothing or the beginning of the line is written;
\* of an open file the newline is tried all the same.  Add goes on.
PersistFails(i) ==
  /\ \E to \in {"newline", "count"} : Goto(i, "write", to)
  /\ tail' \in {tail, [tail EXCEPT ![i] = Append(@, Cut)]}
  /\ Fault
  /\ failed' = [failed EXCEPT ![i] = @ + 1]
  /\ UNCHANGED <<events, lines, junk, now, readerVars, stops, recorded, torn, dropped>>

\* Variant: glued lines are taken for events.
ParsesVariant(t) == Len(t) > 0

\* Does what follows the last newline parse?  Two objects on a line do not.
Parses(t) == Len(t) = 1 /\ t[1] # Cut

Size(e) == IF e = Cut THEN 1 ELSE LineSize[e]

\* The bytes of a file, each known by its line and its place in it.
Bytes(s) == Cardinality({b \in (1 .. Len(s)) \X (1 .. MaxLine) : b[2] <= Size(s[b[1]])})

\* Variant: no newline is written.
WriteNewlineVariant(i) ==
  /\ Goto(i, "newline", "count")
  /\ UNCHANGED <<events, fileVars, now, readerVars, stops, faults, historyVars>>

\* A blank line leaves no piece.
WriteNewline(i) ==
  /\ Goto(i, "newline", "count")
  /\ IF Parses(tail[i])
       THEN lines' = [lines EXCEPT ![i] = @ \o tail[i]] /\ UNCHANGED junk
       ELSE junk' = [junk EXCEPT ![i] = @ \o tail[i]] /\ UNCHANGED lines
  /\ tail' = [tail EXCEPT ![i] = << >>]
  /\ UNCHANGED <<events, now, readerVars, stops, faults, historyVars>>

\* The line stays unfinished, and the next event is glued to it.
NewlineFails(i) ==
  /\ Goto(i, "newline", "count")
  /\ Fault
  /\ failed' = [failed EXCEPT ![i] = @ + 1]
  /\ UNCHANGED <<events, fileVars, now, readerVars, stops, recorded, torn, dropped>>

FileSize(i) == Bytes(lines[i]) + Bytes(junk[i]) + Bytes(tail[i])

\* Variant: the ring is counted, not the file.
persistedCountVariant(i) == Len(events[i])

\* An estimate: the size of the file over the mean line of the ring.
persistedCount(i) ==
  IF FileSize(i) = 0 THEN Len(events[i])
  ELSE FileSize(i) \div (Bytes(events[i]) \div Len(events[i]))

Count(i) ==
  /\ Goto(i, "count", IF persistedCount(i) >= RewriteAt THEN "truncate" ELSE "idle")
  /\ UNCHANGED <<events, fileVars, now, readerVars, stops, faults, historyVars>>
-----------------------------------------------------------------------------
(* rewriteLocked                                                           *)

\* O_TRUNC: the file is empty before a line of the ring is written to it.
Truncate(i) ==
  /\ Goto(i, "truncate", "flush")
  /\ lines' = [lines EXCEPT ![i] = << >>]
  /\ junk' = [junk EXCEPT ![i] = << >>]
  /\ tail' = [tail EXCEPT ![i] = << >>]
  /\ partial' = (partial \/ i \in unread)
  /\ UNCHANGED <<events, now, unread, seen, owed, stops, faults, historyVars>>

\* The file does not open, or its size is not known and the ring's taken for it.
RewriteFails(i) ==
  /\ \E from \in {"count", "truncate"} : Goto(i, from, "idle")
  /\ Fault
  /\ UNCHANGED <<events, fileVars, now, readerVars, stops, historyVars>>

\* The buffered writer puts out what fills its buffer, up to within a line or to
\* the newline it lacks.
FlushPart(i) ==
  /\ pc[i] = "flush" /\ lines[i] = << >> /\ tail[i] = << >>
  /\ \E n \in 0 .. Len(events[i]) - 1 :
       /\ lines' = [lines EXCEPT ![i] = SubSeq(events[i], 1, n)]
       /\ \/ UNCHANGED tail
          \/ \E piece \in {Cut, events[i][n + 1]} : tail' = [tail EXCEPT ![i] = <<piece>>]
  /\ UNCHANGED <<storeVars, junk, now, readerVars, stops, faults, historyVars>>

Flush(i) ==
  /\ Goto(i, "flush", "idle")
  /\ lines' = [lines EXCEPT ![i] = events[i]]
  /\ tail' = [tail EXCEPT ![i] = << >>]
  /\ UNCHANGED <<events, junk, now, readerVars, stops, faults, historyVars>>

\* After an error the writer puts out no more: the file keeps what it has got,
\* and Add and load return as if it were the ring.
FlushFails(i) ==
  /\ Goto(i, "flush", "idle")
  /\ Fault
  /\ failed' = [failed EXCEPT ![i] = @ + 1]
  /\ dropped' = [dropped EXCEPT ![i] = @ \cup ToSet(events[i])]
  /\ UNCHANGED <<events, fileVars, now, readerVars, stops, recorded, torn>>
-----------------------------------------------------------------------------
(* The process ends; it starts again and NewEventStore loads               *)

Stop(i) ==
  /\ stops < MaxStops /\ stops' = stops + 1
  /\ pc[i] # "down"
  /\ pc' = [pc EXCEPT ![i] = "down"]
  /\ events' = [events EXCEPT ![i] = << >>]
  /\ torn' = [torn EXCEPT ![i] = IF tail[i] # << >> THEN @ + 1 ELSE @]
  /\ UNCHANGED <<fileVars, now, readerVars, faults, recorded, failed, dropped>>

\* What a scan of the file yields: a last line needs no newline.
Parsed(i) == lines[i] \o (IF Parses(tail[i]) THEN tail[i] ELSE << >>)

\* Variant: the file is taken whole.
LoadVariant(i) ==
  /\ Goto(i, "down", IF Len(Parsed(i)) > MaxSize THEN "truncate" ELSE "idle")
  /\ events' = [events EXCEPT ![i] = Parsed(i)]
  /\ UNCHANGED <<fileVars, now, readerVars, stops, faults, historyVars>>

Load(i) ==
  /\ Goto(i, "down", IF Len(Parsed(i)) > MaxSize THEN "truncate" ELSE "idle")
  /\ events' = [events EXCEPT ![i] = Trim(Parsed(i), MaxSize)]
  /\ UNCHANGED <<fileVars, now, readerVars, stops, faults, historyVars>>

LoadFails(i) ==
  /\ Goto(i, "down", "idle")
  /\ Fault
  /\ UNCHANGED <<events, fileVars, now, readerVars, stops, historyVars>>
-----------------------------------------------------------------------------
(* LoadAllRecentEvents: the console reads the files of both instances      *)

Newest(n, S) == {e \in S : Cardinality({f \in S : f > e}) < n}

\* What an instance has recorded and is done writing.
Settled(i) == IF pc[i] = "idle" THEN ToSet(events[i]) ELSE {}

BeginRead ==
  /\ unread = {} /\ unread' = Store
  /\ seen' = {}
  /\ owed' = Newest(Shown, UNION {Settled(i) : i \in Store})
  /\ partial' = \E i \in Store : pc[i] = "flush"
  /\ UNCHANGED <<storeVars, fileVars, now, stops, faults, historyVars>>

\* Variant: sorted the other way round.
recentEventsVariant(i) ==
  LET all == seen \cup ToSet(Parsed(i))
  IN  {e \in all : Cardinality({f \in all : f < e}) < Shown}

\* What the console shows when file i is the last it reads: the last by time.
recentEvents(i) == Newest(Shown, seen \cup ToSet(Parsed(i)))

\* The answer to the last reading is sent, and forgotten.
Collect(i, found, missed) ==
  /\ i \in unread /\ unread' = unread \ {i}
  /\ seen' = IF unread = {i} THEN {} ELSE seen \cup found
  /\ owed' = IF unread = {i} THEN {} ELSE owed
  /\ partial' = (unread # {i} /\ (partial \/ missed))

ReadFile(i) ==
  /\ Collect(i, ToSet(Parsed(i)), FALSE)
  /\ UNCHANGED <<storeVars, fileVars, now, stops, faults, historyVars>>

ReadFails(i) ==
  /\ Collect(i, {}, TRUE)
  /\ Fault
  /\ UNCHANGED <<storeVars, fileVars, now, stops, historyVars>>
-----------------------------------------------------------------------------
Next ==
  \/ \E i \in Store :
       \/ Add(i) \/ WriteLine(i) \/ PersistFails(i) \/ WriteNewline(i) \/ NewlineFails(i)
       \/ Count(i) \/ Truncate(i) \/ RewriteFails(i) \/ FlushPart(i) \/ Flush(i) \/ FlushFails(i)
       \/ Stop(i) \/ Load(i) \/ LoadFails(i)
       \/ ReadFile(i) \/ ReadFails(i)
  \/ BeginRead

Spec == Init /\ [][Next]_vars
-----------------------------------------------------------------------------
(* Properties                                                              *)

TypeOK ==
  /\ events \in [Store -> Seq(1 .. MaxEvents)]
  /\ pc \in [Store -> Labels]
  /\ lines \in [Store -> Seq(1 .. MaxEvents)]
  /\ junk \in [Store -> Seq(0 .. MaxEvents)] /\ tail \in [Store -> Seq(0 .. MaxEvents)]
  /\ now \in 0 .. MaxEvents /\ stops \in 0 .. MaxStops /\ faults \in 0 .. MaxFaults
  /\ unread \subseteq Store /\ partial \in BOOLEAN
  /\ seen \subseteq 1 .. MaxEvents /\ owed \subseteq 1 .. MaxEvents
  /\ recorded \in [Store -> SUBSET (1 .. MaxEvents)]
  /\ torn \in [Store -> Nat] /\ failed \in [Store -> Nat]
  /\ dropped \in [Store -> SUBSET (1 .. MaxEvents)]

\* Whatever is torn, glued, truncated or fails to open, a store recalls only
\* events it recorded, in their order and none twice, and never more than
\* maxSize: the files are an implementation of EventHistory.
ImplementsHistory == H!Spec

\* As long as no line was torn and no write of the file failed, the ring is the
\* end of the file whenever no Add is under way: a restart then brings back at
\* least what Recent would return (event.go:137-173).
RingIsEndOfFile == \A i \in Store :
  pc[i] = "idle" /\ torn[i] = 0 /\ failed[i] = 0 => IsSuffix(events[i], Parsed(i))

\* What accidents cost: a process that ends in the middle of a line takes that
\* event and the next, glued to it, out of the file, but however often it ends
\* the ring never has more than these two that are on no line of their own.  A
\* write whose error the code discards (event.go:171-172, 186-189) takes two at
\* most as well; a rewrite that fails after O_TRUNC also takes those that were
\* in the ring then, and no others.
LossIsBounded == \A i \in Store :
  pc[i] = "idle" =>
    Cardinality(ToSet(events[i]) \ (dropped[i] \cup ToSet(Parsed(i))))
      <= (IF torn[i] = 0 THEN 0 ELSE 2) + 2 * failed[i]

\* The file does not grow without end (event.go:84): it stays below RewriteAt
\* lines of the widest kind, and one more for each rewrite that was missed
\* because the file did not open, a call failed or the process ended before it.
FileIsBounded == \A i \in Store :
  pc[i] = "idle" => FileSize(i) < (RewriteAt + faults + stops) * MaxLine

\* A reading that met no rewrite, of files without torn lines or failed writes,
\* shows each of the latest events that the instances had recorded before it
\* began, unless it shows Shown events that are all later: the merge of two
\* rings and two files that are read one after the other loses none
\* (README.md:354).
ConsoleIsCurrent == [][\A i \in Store :
  /\ ReadFile(i) /\ unread = {i} /\ ~partial
  /\ \A j \in Store : torn[j] = 0 /\ failed[j] = 0
  => \A e \in owed : \/ e \in recentEvents(i)
                     \/ /\ Cardinality(recentEvents(i)) = Shown
                        /\ \A f \in recentEvents(i) : f > e]_vars
=============================================================================
