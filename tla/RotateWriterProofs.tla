------------------------- MODULE RotateWriterProofs -------------------------
(***************************************************************************)
(* Proofs about RotateWriter, for every size and number of files, age,     *)
(* buffer, and number of days, lines, stops and faults: the types, where a *)
(* line is, in which order, under which day, when one is lost, and what    *)
(* cleaning leaves.                                                        *)
(***************************************************************************)
EXTENDS RotateWriter, SequenceTheorems, FiniteSetTheorems, WellFoundedInduction, TLAPS

Line   == 1 .. MaxLines
Labels == {"idle", "rotate", "open", "put"}

\* What the fields and the clock have to do with each other at each step of Write.
ClockInv ==
  /\ currentDay <= day
  /\ pc # "idle" => up /\ next <= MaxLines /\ today <= day
  /\ pc = "rotate" => writer /\ currentDay <= today
  /\ pc = "open" => writer /\ currentDay = today /\ file = None
  /\ pc = "put" /\ writer => today <= currentDay
  /\ file # None => file = Current(currentDay) /\ file \in exists
  /\ up /\ ~writer => file = None
  /\ ~up => pc = "idle" /\ file = None /\ buffer = << >>
  /\ up /\ writer /\ pc \in {"idle", "put"} /\ file = None => currentDay \in badDays

\* The files there are: none of a day to come, and the parts of the current day
\* have the first numbers.
DirInv ==
  /\ \A n \in exists : n[1] <= mtime[n] /\ mtime[n] <= day /\ n[1] <= currentDay
  /\ \A n \in Names \ exists : text[n] = << >>
  /\ \A n \in exists, q \in 1 .. MaxParts :
       n[1] = currentDay /\ q < n[2] => <<currentDay, q>> \in exists

\* The order in which files are filled.
Before(n, m) == n[1] < m[1] \/ (n[1] = m[1] /\ n[2] # 0 /\ (m[2] = 0 \/ n[2] < m[2]))

OrderInv == \A n, m \in Names :
  /\ \A k, l \in 1 .. Len(text[n]) : k < l => text[n][k] < text[n][l]
  /\ Before(n, m) => \A k \in 1 .. Len(text[n]), l \in 1 .. Len(text[m]) : text[n][k] < text[m][l]

\* Files hold what was stored, and all of it that was not cleaned.
Holds(n, line) == \E k \in 1 .. Len(text[n]) : text[n][k] = line

LinesInv ==
  /\ \A line \in stored : line < next
  /\ \A n \in Names : \A k \in 1 .. Len(text[n]) : text[n][k] \in stored
  /\ \A line \in stored \ cleaned : \E n \in Names : Holds(n, line)

SizeInv ==
  /\ SizeIsBounded
  /\ file # None => size = Len(text[file])
  /\ pc = "open" => today \in stuck \/ text[Current(today)] = << >>
  /\ pc = "put" /\ file # None /\ file[1] \notin stuck => Len(text[file]) < MaxSize

\* Of two files that hold lines the earlier was last written no later: what
\* the clock says of a file agrees with the order of the lines.
AgeInv == \A n, m \in Names :
  Before(n, m) /\ text[n] # << >> /\ text[m] # << >> => mtime[n] <= mtime[m]

CleanInv == cleaned \subseteq stored /\ CleansOldest

WriterInv ==
  /\ TypeOK /\ ClockInv /\ DirInv /\ OrderInv /\ LinesInv /\ SizeInv /\ ConsoleLinesAreFiled
  /\ AgeInv /\ CleanInv
-----------------------------------------------------------------------------
(* Names, numbers and sequences                                            *)

LEMMA NameFacts ==
  /\ \A d \in Days : d \in Nat /\ d # 0 /\ Current(d) \in Names /\ Current(d) # None
                     /\ Current(d)[1] = d /\ Current(d)[2] = 0
  /\ \A d \in Days, p \in 1 .. MaxParts :
       <<d, p>> \in Names /\ <<d, p>> # Current(d) /\ <<d, p>>[1] = d /\ <<d, p>>[2] = p
  /\ \A n \in Names : n[1] \in Days /\ n[2] \in 0 .. MaxParts /\ n = <<n[1], n[2]>>
  /\ \A n, m \in Names : n[1] = m[1] /\ n[2] = m[2] => n = m
BY WriterAssumption DEF Days, Names, None, Current

LEMMA LeastNatural ==
  ASSUME NEW S, S \subseteq Nat, S # {}
  PROVE  \E p \in S : \A q \in S : p <= q
<1> DEFINE R == OpToRel(<, Nat)
<1>1. IsWellFoundedOn(R, Nat)
  BY NatLessThanWellFounded
<1>2. \A p \in Nat, q \in Nat : q < p => <<q, p>> \in R
  BY DEF OpToRel
<1> HIDE DEF R
<1>3. PICK p \in S : \A q \in S : ~(<<q, p>> \in R)
  BY <1>1, WFMin
<1>4. ASSUME NEW q \in S PROVE p <= q
  <2>1. p \in Nat /\ q \in Nat /\ ~(q < p)
    BY <1>2, <1>3
  <2> QED BY <2>1
<1> QED BY <1>3, <1>4

\* rotateBySize takes the free name of the least number.
LEMMA FirstFreeIsLeast ==
  ASSUME FreeParts # {}
  PROVE  FirstFree \in FreeParts /\ \A q \in FreeParts : FirstFree <= q
<1>1. FreeParts \subseteq Nat
  BY DEF FreeParts
<1>2. \E p \in FreeParts : \A q \in FreeParts : p <= q
  BY <1>1, LeastNatural
<1> QED BY <1>2 DEF FirstFree

\* The buffer keeps the last lines.
LEMMA KeepType ==
  ASSUME NEW line \in Line, buffer \in Seq(Line)
  PROVE  /\ Keep(line) \in Seq(Line) /\ Len(Keep(line)) <= BufferSize
         /\ ToSet(Keep(line)) \subseteq ToSet(buffer) \cup {line}
<1> DEFINE all == Append(buffer, line)
<1>1. /\ all \in Seq(Line) /\ Len(all) = Len(buffer) + 1 /\ Len(buffer) \in Nat
      /\ BufferSize \in Nat \ {0}
  BY WriterAssumption, AppendProperties, LenProperties
<1>2. \A k \in 1 .. Len(all) : all[k] \in ToSet(buffer) \cup {line}
  BY <1>1, AppendProperties DEF ToSet
<1> HIDE DEF all
<1>3. CASE Len(all) > BufferSize
  <2> DEFINE kept == SubSeq(all, Len(all) - BufferSize + 1, Len(all))
  <2>1. \A k \in Len(all) - BufferSize + 1 .. Len(all) : all[k] \in Line
    BY <1>1, <1>3, ElementOfSeq
  <2>2. /\ kept \in Seq(Line) /\ Len(kept) = BufferSize
        /\ \A k \in 1 .. Len(kept) : kept[k] = all[Len(all) - BufferSize + 1 + k - 1]
    BY <1>1, <1>3, <2>1, SubSeqProperties
  <2>3. Keep(line) = kept
    BY <1>3 DEF Keep, all
  <2> HIDE DEF kept
  <2>4. \A k \in 1 .. Len(kept) : kept[k] \in ToSet(buffer) \cup {line}
    BY <1>1, <1>2, <1>3, <2>2
  <2>5. ToSet(kept) \subseteq ToSet(buffer) \cup {line}
    BY <2>2, <2>4 DEF ToSet
  <2> QED BY <1>1, <2>2, <2>3, <2>5
<1>4. CASE ~(Len(all) > BufferSize)
  <2>1. Keep(line) = all
    BY <1>4 DEF Keep, all
  <2>2. ToSet(all) \subseteq ToSet(buffer) \cup {line}
    BY <1>1, <1>2 DEF ToSet
  <2> QED BY <1>1, <1>4, <2>1, <2>2
<1> QED BY <1>3, <1>4
-----------------------------------------------------------------------------
(* Types                                                                   *)

\* The directory after a full file was set aside.
LEMMA AsideFiles ==
  ASSUME TypeOK, Current(currentDay) \in exists, FreeParts # {}, SetAside(FirstFree)
  PROVE  \E p \in FreeParts :
           /\ \A q \in FreeParts : p <= q
           /\ exists' = (exists \ {Current(currentDay)}) \cup {<<currentDay, p>>}
           /\ text' \in [Names -> Seq(Line)] /\ mtime' \in [Names -> Days]
           /\ text'[Current(currentDay)] = << >>
           /\ text'[<<currentDay, p>>] = text[Current(currentDay)]
           /\ mtime'[<<currentDay, p>>] = mtime[Current(currentDay)]
           /\ \A n \in Names \ {Current(currentDay), <<currentDay, p>>} : text'[n] = text[n]
           /\ \A n \in Names \ {<<currentDay, p>>} : mtime'[n] = mtime[n]
           /\ stuck' = stuck /\ faults' = faults
<1> DEFINE p == FirstFree
           c == Current(currentDay)
           a == <<currentDay, p>>
<1>1. p \in FreeParts /\ (\A q \in FreeParts : p <= q) /\ p \in 1 .. MaxParts
  BY FirstFreeIsLeast DEF FreeParts
<1>2. a \in Names /\ c \in Names /\ a # c
  BY <1>1, NameFacts DEF TypeOK
<1>3. /\ exists' = (exists \ {c}) \cup {a}
      /\ text' = [text EXCEPT ![a] = text[c], ![c] = << >>]
      /\ mtime' = [mtime EXCEPT ![a] = mtime[c]]
      /\ stuck' = stuck /\ faults' = faults
  BY DEF SetAside
<1>4. text \in [Names -> Seq(Line)] /\ mtime \in [Names -> Days] /\ << >> \in Seq(Line)
  BY DEF TypeOK, Line
<1> HIDE DEF p, c, a
<1>5. /\ text' \in [Names -> Seq(Line)] /\ mtime' \in [Names -> Days]
      /\ text'[c] = << >> /\ text'[a] = text[c] /\ mtime'[a] = mtime[c]
      /\ \A n \in Names \ {c, a} : text'[n] = text[n]
      /\ \A n \in Names \ {a} : mtime'[n] = mtime[n]
  BY <1>2, <1>3, <1>4
<1> QED BY <1>1, <1>3, <1>5 DEF p, c, a

\* What a turn of the file does to the directory.
LEMMA RotateFiles ==
  ASSUME TypeOK, Rotate
  PROVE  \/ /\ today = currentDay /\ Current(currentDay) \in exists
            /\ FreeParts # {} /\ SetAside(FirstFree)
         \/ /\ today = currentDay /\ Current(currentDay) \in exists
            /\ UNCHANGED dirVars /\ stuck' = stuck \cup {currentDay} /\ faults' \in 0 .. MaxFaults
         \/ /\ today # currentDay \/ Current(currentDay) \notin exists
            /\ UNCHANGED <<dirVars, stuck, faults>>
BY WriterAssumption DEF Rotate, LeaveInPlace, Fault, TypeOK

LEMMA WriterInitType == Init => TypeOK
<1> SUFFICES ASSUME Init PROVE TypeOK
  OBVIOUS
<1> USE WriterAssumption
<1>1. << >> \in Seq(1 .. MaxLines) /\ Len(<< >>) = 0
  OBVIOUS
<1>2. /\ 1 \in Days /\ exists \subseteq Names /\ file \in Names \cup {None}
      /\ text \in [Names -> Seq(1 .. MaxLines)] /\ mtime \in [Names -> Days]
  BY <1>1 DEF Init, Days
<1>3. /\ buffer \in Seq(1 .. MaxLines) /\ Len(buffer) <= BufferSize
      /\ next \in 1 .. MaxLines + 1 /\ stops \in 0 .. MaxStops /\ faults \in 0 .. MaxFaults
  BY <1>1 DEF Init
<1> QED BY <1>2, <1>3 DEF Init, TypeOK

\* Each step keeps the variables' types.
LEMMA WriterNextType == TypeOK /\ ClockInv /\ [Next]_vars => TypeOK'
<1> SUFFICES ASSUME TypeOK, ClockInv, [Next]_vars PROVE TypeOK'
  OBVIOUS
<1> USE WriterAssumption
<1>t. /\ day \in Days /\ currentDay \in Days /\ today \in Days /\ Current(day) \in Names
      /\ exists \subseteq Names /\ file \in Names \cup {None}
      /\ text \in [Names -> Seq(Line)] /\ mtime \in [Names -> Days]
  BY NameFacts DEF TypeOK, Line
<1>f. Fault => faults' \in 0 .. MaxFaults
  BY DEF Fault, TypeOK
<1>n. next \in 1 .. MaxLines => next + 1 \in 1 .. MaxLines + 1
  OBVIOUS
<1>o. ASSUME OpenOK
      PROVE  /\ currentDay' \in Days /\ file' \in Names \cup {None} /\ size' \in Nat
             /\ mtime' \in [Names -> Days]
  <2>1. Len(text[Current(day)]) \in Nat
    BY <1>t, LenProperties
  <2> QED BY <1>o, <1>t, <2>1 DEF OpenOK
<1>1. CASE Midnight
  <2>1. day' \in Days
    BY <1>1, <1>t DEF Midnight, Days
  <2> QED BY <1>1, <2>1 DEF Midnight, TypeOK, dirVars, openVars
<1>2. CASE Write
  BY <1>2, <1>t DEF Write, Goto, TypeOK, dirVars, openVars
<1>3. CASE Rotate
  <2>1. /\ exists' \subseteq Names /\ text' \in [Names -> Seq(Line)] /\ mtime' \in [Names -> Days]
        /\ stuck' \subseteq Days /\ faults' \in 0 .. MaxFaults
    <3>1. CASE /\ today = currentDay /\ Current(currentDay) \in exists
               /\ FreeParts # {} /\ SetAside(FirstFree)
      <4>1. PICK p \in FreeParts :
              /\ exists' = (exists \ {Current(currentDay)}) \cup {<<currentDay, p>>}
              /\ text' \in [Names -> Seq(Line)] /\ mtime' \in [Names -> Days]
              /\ stuck' = stuck /\ faults' = faults
        BY <3>1, AsideFiles
      <4>2. <<currentDay, p>> \in Names
        BY <1>t, NameFacts DEF FreeParts
      <4> QED BY <1>t, <4>1, <4>2 DEF TypeOK
    <3>2. CASE UNCHANGED dirVars
      BY <1>3, <1>t, <3>2, RotateFiles DEF dirVars, TypeOK, SetAside
    <3> QED BY <1>3, <3>1, <3>2, RotateFiles
  <2>2. /\ pc' \in Labels /\ file' = None /\ currentDay' \in Days
        /\ UNCHANGED <<day, up, writer, size, today, next, buffer, stops, stored, cleaned, badDays,
                       spared>>
    BY <1>3, <1>t DEF Rotate, Goto, Labels
  <2> QED BY <2>1, <2>2 DEF TypeOK, Line, Labels
<1>4. CASE Open
  <2>1. exists' \subseteq Names /\ pc' \in Labels
    BY <1>4, <1>t DEF Open, Goto, Labels
  <2> QED BY <1>4, <1>o, <2>1 DEF Open, TypeOK, Labels
<1>5. CASE WriteFails
  <2>1. /\ next' \in 1 .. MaxLines + 1 /\ faults' \in 0 .. MaxFaults /\ badDays' \subseteq Days
        /\ currentDay' \in Days /\ pc' \in Labels
    BY <1>5, <1>t, <1>f, <1>n DEF WriteFails, OpenFails, Goto, ClockInv, TypeOK, Labels
  <2> QED BY <1>5, <2>1 DEF WriteFails, OpenFails, TypeOK, Labels, dirVars
<1>6. CASE Put
  <2>0. pc = "put" /\ pc' = "idle" /\ next' = next + 1 /\ next \in 1 .. MaxLines + 1
    BY <1>6 DEF Put, Goto, TypeOK
  <2>1. next \in Line /\ next' \in 1 .. MaxLines + 1 /\ pc' \in Labels
    <3>1. next <= MaxLines
      BY <2>0 DEF ClockInv
    <3> QED BY <2>0, <3>1 DEF Line, Labels
  <2>2. buffer \in Seq(Line) /\ Len(buffer) <= BufferSize
    BY DEF TypeOK, Line
  <2>3. buffer' \in Seq(Line) /\ Len(buffer') <= BufferSize
    BY <1>6, <2>1, <2>2, KeepType DEF Put
  <2>4. /\ text' \in [Names -> Seq(Line)] /\ mtime' \in [Names -> Days]
        /\ size' \in Nat /\ stored' \subseteq Line
    <3>1. \A n \in Names : Append(text[n], next) \in Seq(Line)
      BY <1>t, <2>1, AppendProperties
    <3>2. CASE writer /\ file # None
      <4>1. file \in Names /\ size \in Nat /\ stored \subseteq Line
        BY <1>t, <3>2 DEF TypeOK, Line
      <4>2. /\ text' = [text EXCEPT ![file] = Append(text[file], next)]
            /\ mtime' = [mtime EXCEPT ![file] = day]
            /\ size' = size + 1 /\ stored' = stored \cup {next}
        BY <1>6, <3>2 DEF Put
      <4> QED BY <1>t, <2>1, <3>1, <4>1, <4>2
    <3>3. CASE ~(writer /\ file # None)
      BY <1>6, <3>3 DEF Put, TypeOK, Line
    <3> QED BY <3>2, <3>3
  <2> QED BY <1>6, <2>1, <2>3, <2>4 DEF Put, TypeOK, Line, Labels
<1>7. CASE Boot
  <2>1. PICK keep \in Later : \E held \in SUBSET Expired(keep) :
          /\ exists' = (exists \ (Expired(keep) \ held)) \cup {Current(day)}
          /\ text' = [n \in Names |-> IF n \in Expired(keep) \ held THEN << >> ELSE text[n]]
          /\ cleaned' = cleaned \cup UNION {ToSet(text[n]) : n \in Expired(keep) \ held}
          /\ \/ UNCHANGED <<faults, spared>>
             \/ Fault /\ spared' = TRUE
    BY <1>7 DEF Boot
  <2>h. PICK held \in SUBSET Expired(keep) :
          /\ exists' = (exists \ (Expired(keep) \ held)) \cup {Current(day)}
          /\ text' = [n \in Names |-> IF n \in Expired(keep) \ held THEN << >> ELSE text[n]]
          /\ cleaned' = cleaned \cup UNION {ToSet(text[n]) : n \in Expired(keep) \ held}
    BY <2>1
  <2>2. /\ exists' \subseteq Names /\ text' \in [Names -> Seq(Line)]
    BY <1>t, <2>h
  <2>3. cleaned' \subseteq Line
    <3>1. \A n \in Expired(keep) : ToSet(text[n]) \subseteq Line
      BY <1>t DEF Expired, ToSet
    <3> QED BY <2>h, <3>1 DEF TypeOK, Line
  <2>4. faults' \in 0 .. MaxFaults /\ spared' \in BOOLEAN
    BY <1>f, <2>1 DEF TypeOK
  <2> QED BY <1>7, <1>o, <2>2, <2>3, <2>4 DEF Boot, TypeOK, Line
<1>8. CASE BootFails
  <2>1. faults' \in 0 .. MaxFaults /\ badDays' \subseteq Days /\ currentDay' \in Days
    BY <1>8, <1>t, <1>f DEF BootFails, OpenFails, TypeOK
  <2> QED BY <1>8, <2>1 DEF BootFails, OpenFails, TypeOK, dirVars
<1>9. CASE Stop
  <2>1. next' \in 1 .. MaxLines + 1 /\ stops' \in 0 .. MaxStops /\ pc' \in Labels
    BY <1>9, <1>n DEF Stop, ClockInv, TypeOK, Labels
  <2>2. buffer' \in Seq(Line) /\ Len(buffer') <= BufferSize
    BY <1>9 DEF Stop
  <2> QED BY <1>9, <2>1, <2>2 DEF Stop, TypeOK, dirVars, Labels, Line
<1>10. CASE UNCHANGED vars
  BY <1>10 DEF vars, TypeOK, dirVars, openVars
<1> QED BY <1>1, <1>2, <1>3, <1>4, <1>5, <1>6, <1>7, <1>8, <1>9, <1>10 DEF Next
-----------------------------------------------------------------------------
(* Fields and clock                                                        *)

LEMMA WriterInitRest ==
  Init => /\ ClockInv /\ DirInv /\ OrderInv /\ LinesInv /\ SizeInv /\ ConsoleLinesAreFiled
          /\ AgeInv /\ CleanInv
<1> SUFFICES ASSUME Init
             PROVE  /\ ClockInv /\ DirInv /\ OrderInv /\ LinesInv /\ SizeInv
                    /\ ConsoleLinesAreFiled /\ AgeInv /\ CleanInv
  OBVIOUS
<1> USE WriterAssumption
<1>1. \A n \in Names : text[n] = << >> /\ Len(text[n]) = 0
  BY DEF Init
<1>2. file = None /\ pc = "idle" /\ exists = {} /\ stored = {} /\ ~up /\ buffer = << >>
      /\ currentDay = 1 /\ day = 1
  BY DEF Init
<1>3. ClockInv /\ DirInv /\ ConsoleLinesAreFiled
  BY <1>1, <1>2 DEF ClockInv, DirInv, ConsoleLinesAreFiled
<1>4. OrderInv /\ LinesInv
  BY <1>1, <1>2 DEF OrderInv, LinesInv
<1>5. SizeInv
  BY <1>1, <1>2 DEF SizeInv, SizeIsBounded
<1>6. AgeInv /\ CleanInv
  BY <1>1 DEF Init, AgeInv, CleanInv, CleansOldest
<1> QED BY <1>3, <1>4, <1>5, <1>6

LEMMA WriterNextClock == TypeOK /\ ClockInv /\ [Next]_vars => ClockInv'
<1> SUFFICES ASSUME TypeOK, ClockInv, [Next]_vars PROVE ClockInv'
  OBVIOUS
<1>t. /\ day \in Nat /\ currentDay \in Nat /\ today \in Nat /\ next \in Nat /\ MaxLines \in Nat
      /\ pc \in Labels /\ up \in BOOLEAN /\ writer \in BOOLEAN
      /\ day \in Days /\ Current(day) # None
  <2>1. day \in Days /\ currentDay \in Days /\ today \in Days
    BY DEF TypeOK
  <2>2. next \in Nat /\ MaxLines \in Nat /\ pc \in Labels /\ up \in BOOLEAN /\ writer \in BOOLEAN
    BY WriterAssumption DEF TypeOK, Labels
  <2> QED BY <2>1, <2>2, NameFacts
<1>1. CASE Midnight
  BY <1>1, <1>t DEF Midnight, ClockInv, dirVars, openVars
<1>2. CASE Write
  <2>1. ~NeedsRotation => day = currentDay
    BY DEF NeedsRotation
  <2> QED BY <1>2, <1>t, <2>1 DEF Write, Goto, ClockInv, dirVars, openVars
<1>3. CASE Rotate
  BY <1>3, <1>t DEF Rotate, Goto, ClockInv
<1>4. CASE Open
  BY <1>4, <1>t DEF Open, OpenOK, Goto, ClockInv
<1>5. CASE WriteFails
  BY <1>5, <1>t DEF WriteFails, OpenFails, Goto, ClockInv, dirVars
<1>6. CASE Put
  BY <1>6, <1>t DEF Put, Goto, ClockInv
<1>7. CASE Boot
  BY <1>7, <1>t DEF Boot, OpenOK, ClockInv
<1>8. CASE BootFails
  BY <1>8, <1>t DEF BootFails, OpenFails, ClockInv, dirVars
<1>9. CASE Stop
  BY <1>9, <1>t DEF Stop, ClockInv, dirVars
<1>10. CASE UNCHANGED vars
  BY <1>10 DEF vars, ClockInv, dirVars, openVars
<1> QED BY <1>1, <1>2, <1>3, <1>4, <1>5, <1>6, <1>7, <1>8, <1>9, <1>10 DEF Next
-----------------------------------------------------------------------------
(* What the steps that change files do to them                             *)

\* A line that a file takes.
LEMMA PutFiles ==
  ASSUME TypeOK, ClockInv, Put, writer, file # None
  PROVE  /\ file \in Names /\ file = Current(currentDay) /\ file \in exists /\ next \in Line
         /\ text' = [text EXCEPT ![file] = Append(text[file], next)]
         /\ \A n \in Names : n # file => text'[n] = text[n]
         /\ Len(text'[file]) = Len(text[file]) + 1 /\ Len(text[file]) \in Nat
         /\ \A k \in 1 .. Len(text[file]) : text'[file][k] = text[file][k]
         /\ text'[file][Len(text[file]) + 1] = next
         /\ mtime' = [mtime EXCEPT ![file] = day] /\ size' = size + 1
         /\ stored' = stored \cup {next} /\ next' = next + 1
         /\ UNCHANGED <<exists, cleaned, stuck, currentDay, file, day>>
<1>1. pc = "put" /\ next \in 1 .. MaxLines + 1 /\ next <= MaxLines /\ MaxLines \in Nat
  BY WriterAssumption DEF Put, Goto, TypeOK, ClockInv
<1>2. file \in Names /\ file = Current(currentDay) /\ file \in exists /\ next \in Line
  BY <1>1 DEF TypeOK, ClockInv, Line
<1>3. text \in [Names -> Seq(Line)]
  BY DEF TypeOK, Line
<1>4. /\ text' = [text EXCEPT ![file] = Append(text[file], next)]
      /\ mtime' = [mtime EXCEPT ![file] = day] /\ size' = size + 1
      /\ stored' = stored \cup {next} /\ next' = next + 1
      /\ UNCHANGED <<exists, cleaned, stuck, currentDay, file, day>>
  BY DEF Put
<1>5. text[file] \in Seq(Line) /\ Len(text[file]) \in Nat
  BY <1>2, <1>3, LenProperties
<1>6. text'[file] = Append(text[file], next) /\ \A n \in Names : n # file => text'[n] = text[n]
  BY <1>2, <1>3, <1>4
<1>7. /\ Len(text'[file]) = Len(text[file]) + 1
      /\ \A k \in 1 .. Len(text[file]) : text'[file][k] = text[file][k]
      /\ text'[file][Len(text[file]) + 1] = next
  BY <1>2, <1>5, <1>6, AppendProperties
<1> QED BY <1>2, <1>4, <1>5, <1>6, <1>7

\* A boot empties the files that are too old, and notes their lines.
LEMMA BootFiles ==
  ASSUME TypeOK, DirInv, Boot
  PROVE  \E old \in SUBSET exists :
           /\ \A n \in old : mtime[n] + MaxAge <= day
           /\ \A n \in old : n[1] # day
           /\ exists' = (exists \ old) \cup {Current(day)}
           /\ \A n \in old : text'[n] = << >>
           /\ \A n \in Names \ old : text'[n] = text[n]
           /\ \A n \in old : \A k \in 1 .. Len(text[n]) : text[n][k] \in cleaned'
           /\ cleaned \subseteq cleaned'
           /\ \A line \in cleaned' : line \in cleaned \/ \E n \in old : Holds(n, line)
           /\ ~spared' => ~spared /\ \E keep \in Later : old = Expired(keep)
           /\ UNCHANGED <<stored, next, stuck, day>>
<1>0. PICK keep \in Later : \E held \in SUBSET Expired(keep) :
        /\ exists' = (exists \ (Expired(keep) \ held)) \cup {Current(day)}
        /\ text' = [n \in Names |-> IF n \in Expired(keep) \ held THEN << >> ELSE text[n]]
        /\ cleaned' = cleaned \cup UNION {ToSet(text[n]) : n \in Expired(keep) \ held}
        /\ \/ held = {} /\ spared' = spared
           \/ spared' = TRUE
  BY DEF Boot
<1>1. PICK held \in SUBSET Expired(keep) :
        /\ exists' = (exists \ (Expired(keep) \ held)) \cup {Current(day)}
        /\ text' = [n \in Names |-> IF n \in Expired(keep) \ held THEN << >> ELSE text[n]]
        /\ cleaned' = cleaned \cup UNION {ToSet(text[n]) : n \in Expired(keep) \ held}
        /\ \/ held = {} /\ spared' = spared
           \/ spared' = TRUE
  BY <1>0
<1> DEFINE old == Expired(keep) \ held
<1>2. old \in SUBSET exists /\ (\A n \in old : mtime[n] + MaxAge <= day) /\ old \subseteq Names
  BY DEF Expired, TypeOK
<1>3. \A n \in old : n[1] # day
  <2>1. \A n \in old : n[1] \in Nat /\ mtime[n] \in Nat /\ n[1] <= mtime[n]
    BY <1>2, NameFacts DEF DirInv, TypeOK
  <2>2. day \in Nat /\ MaxAge \in Nat \ {0}
    BY WriterAssumption, NameFacts DEF TypeOK
  <2> QED BY <1>2, <2>1, <2>2
<1>4. \A n \in old : ToSet(text[n]) \subseteq cleaned'
  BY <1>1
<1>5. \A n \in old : \A k \in 1 .. Len(text[n]) : text[n][k] \in cleaned'
  BY <1>4 DEF ToSet
<1>6. UNCHANGED <<stored, next, stuck, day>>
  BY DEF Boot
<1>7. (\A n \in old : text'[n] = << >>) /\ (\A n \in Names \ old : text'[n] = text[n])
  BY <1>1, <1>2
<1>8. exists' = (exists \ old) \cup {Current(day)} /\ cleaned \subseteq cleaned'
  BY <1>1
<1>9. ASSUME NEW line \in cleaned', line \notin cleaned PROVE \E n \in old : Holds(n, line)
  <2>1. PICK n \in old : line \in ToSet(text[n])
    BY <1>1, <1>9
  <2> QED BY <2>1 DEF ToSet, Holds
<1>10. ~spared' => ~spared /\ old = Expired(keep)
  BY <1>1
<1> HIDE DEF old
<1> QED BY <1>2, <1>3, <1>5, <1>6, <1>7, <1>8, <1>9, <1>10

\* Every step but these three leaves the lines where they are.
LEMMA FileSteps ==
  ASSUME TypeOK, ClockInv, [Next]_vars
  PROVE  \/ UNCHANGED <<text, stored, cleaned>> /\ next' \in {next, next + 1}
         \/ Put /\ writer /\ file # None
         \/ /\ Rotate /\ today = currentDay /\ Current(currentDay) \in exists
            /\ FreeParts # {} /\ SetAside(FirstFree)
         \/ Boot
<1>1. CASE Midnight
  BY <1>1 DEF Midnight, dirVars
<1>2. CASE Write
  BY <1>2 DEF Write, dirVars
<1>3. CASE Rotate
  BY <1>3, RotateFiles DEF Rotate, dirVars
<1>4. CASE Open
  BY <1>4 DEF Open
<1>5. CASE WriteFails
  BY <1>5 DEF WriteFails, OpenFails, dirVars
<1>6. CASE Put
  BY <1>6 DEF Put
<1>7. CASE BootFails
  BY <1>7 DEF BootFails, OpenFails, dirVars
<1>8. CASE Stop
  BY <1>8 DEF Stop, dirVars
<1>9. CASE UNCHANGED vars
  BY <1>9 DEF vars, dirVars
<1> QED BY <1>1, <1>2, <1>3, <1>4, <1>5, <1>6, <1>7, <1>8, <1>9 DEF Next
-----------------------------------------------------------------------------
(* The files there are                                                     *)

\* Of the current day, the numbers before a free one's are taken, those after it free.
LEMMA PartsAreFirst ==
  ASSUME TypeOK, DirInv, NEW p \in FreeParts, \A q \in FreeParts : p <= q
  PROVE  /\ p \in 1 .. MaxParts
         /\ \A q \in 1 .. MaxParts : q < p => <<currentDay, q>> \in exists
         /\ \A q \in 1 .. MaxParts : p <= q => <<currentDay, q>> \notin exists
<1>1. p \in 1 .. MaxParts /\ <<currentDay, p>> \notin exists
  BY DEF FreeParts
<1>2. ASSUME NEW q \in 1 .. MaxParts, q < p PROVE <<currentDay, q>> \in exists
  <2>1. q \notin FreeParts
    BY <1>1, <1>2
  <2> QED BY <2>1 DEF FreeParts
<1>3. ASSUME NEW q \in 1 .. MaxParts, p <= q PROVE <<currentDay, q>> \notin exists
  <2>1. CASE p = q
    BY <1>1, <2>1
  <2>2. CASE p < q
    BY <1>1, <2>2, NameFacts DEF DirInv, TypeOK
  <2> QED BY <1>1, <1>3, <2>1, <2>2
<1> QED BY <1>1, <1>2, <1>3

LEMMA WriterNextDir == TypeOK /\ ClockInv /\ DirInv /\ [Next]_vars => DirInv'
<1> SUFFICES ASSUME TypeOK, ClockInv, DirInv, [Next]_vars PROVE DirInv'
  OBVIOUS
<1>t. /\ day \in Days /\ day \in Nat /\ currentDay \in Days /\ currentDay \in Nat
      /\ today \in Days /\ today \in Nat /\ currentDay <= day
      /\ exists \subseteq Names /\ mtime \in [Names -> Days] /\ text \in [Names -> Seq(Line)]
  BY NameFacts DEF TypeOK, ClockInv, Line
<1>m. \A n \in exists : n[1] \in Nat /\ n[2] \in Nat /\ mtime[n] \in Nat
  <2>1. \A d \in Days : d \in Nat
    BY NameFacts
  <2>2. \A n \in exists : n[1] \in Days /\ n[2] \in 0 .. MaxParts /\ mtime[n] \in Days
    BY <1>t, NameFacts
  <2> QED BY <2>1, <2>2
<1>c. Current(day) \in Names /\ Current(day)[1] = day /\ Current(day)[2] = 0
  BY <1>t, NameFacts
\* The current day may move on over an unchanged directory.
<1>a. ASSUME UNCHANGED <<exists, text, mtime>>, day' \in Nat, day <= day',
             currentDay' \in Nat, currentDay <= currentDay'
      PROVE  DirInv'
  BY <1>a, <1>t, <1>m DEF DirInv
<1>1. CASE Midnight
  BY <1>1, <1>a, <1>t DEF Midnight, dirVars, openVars
<1>2. CASE Write
  BY <1>2, <1>a, <1>t DEF Write, dirVars, openVars
<1>3. CASE Rotate
  <2>1. currentDay <= today /\ currentDay' = today /\ day' = day
    BY <1>3 DEF Rotate, Goto, ClockInv
  <2>2. CASE /\ today = currentDay /\ Current(currentDay) \in exists
             /\ FreeParts # {} /\ SetAside(FirstFree)
    <3> DEFINE c == Current(currentDay)
    <3>1. PICK p \in FreeParts :
            /\ \A q \in FreeParts : p <= q
            /\ exists' = (exists \ {c}) \cup {<<currentDay, p>>}
            /\ text'[c] = << >>
            /\ mtime'[<<currentDay, p>>] = mtime[c]
            /\ \A n \in Names \ {c, <<currentDay, p>>} : text'[n] = text[n]
            /\ \A n \in Names \ {<<currentDay, p>>} : mtime'[n] = mtime[n]
      BY <2>2, AsideFiles
    <3>2. /\ p \in 1 .. MaxParts
          /\ \A q \in 1 .. MaxParts : q < p => <<currentDay, q>> \in exists
      BY <3>1, PartsAreFirst
    <3> DEFINE a == <<currentDay, p>>
    <3>3. /\ a \in Names /\ a[1] = currentDay /\ a[2] = p /\ c \in Names /\ c[1] = currentDay
          /\ \A q \in 1 .. MaxParts : <<currentDay, q>> # c
      BY <1>t, <3>2, NameFacts
    <3>4. currentDay <= mtime[c] /\ mtime[c] <= day
      BY <2>2, <3>3 DEF DirInv
    <3> HIDE DEF c, a
    <3>5. \A n \in exists' : n[1] <= mtime'[n] /\ mtime'[n] <= day' /\ n[1] <= currentDay'
      <4>1. \A n \in exists : n[1] <= mtime[n] /\ mtime[n] <= day /\ n[1] <= currentDay
        BY DEF DirInv
      <4> QED BY <1>t, <2>1, <2>2, <3>1, <3>3, <3>4, <4>1 DEF a
    <3>6. \A n \in Names \ exists' : text'[n] = << >>
      <4>1. \A n \in Names \ exists : text[n] = << >>
        BY DEF DirInv
      <4> QED BY <3>1, <4>1 DEF a
    <3>7. ASSUME NEW n \in exists', NEW q \in 1 .. MaxParts, n[1] = currentDay', q < n[2]
          PROVE  <<currentDay', q>> \in exists'
      <4>1. <<currentDay, q>> \in exists
        <5>1. CASE n = a
          BY <3>2, <3>3, <3>7, <5>1
        <5>2. CASE n # a
          BY <2>1, <2>2, <3>1, <3>7, <5>2 DEF DirInv, a
        <5> QED BY <5>1, <5>2
      <4> QED BY <2>1, <2>2, <3>1, <3>3, <4>1
    <3> QED BY <3>5, <3>6, <3>7 DEF DirInv
  <2>3. CASE UNCHANGED dirVars
    BY <1>a, <1>t, <2>1, <2>3 DEF dirVars
  <2> QED BY <1>3, <2>2, <2>3, RotateFiles DEF dirVars
<1>4. CASE Open
  <2>1. /\ exists' = exists \cup {Current(day)} /\ currentDay' = day /\ day' = day /\ text' = text
        /\ mtime' = IF Current(day) \in exists THEN mtime ELSE [mtime EXCEPT ![Current(day)] = day]
    BY <1>4 DEF Open, OpenOK
  <2>2. \A n \in exists' : n[1] <= mtime'[n] /\ mtime'[n] <= day' /\ n[1] <= currentDay'
    BY <1>t, <1>m, <1>c, <2>1 DEF DirInv
  <2>3. \A n \in exists', q \in 1 .. MaxParts :
          n[1] = currentDay' /\ q < n[2] => <<currentDay', q>> \in exists'
    BY <1>t, <1>m, <1>c, <2>1 DEF DirInv
  <2> QED BY <2>1, <2>2, <2>3 DEF DirInv
<1>5. CASE WriteFails
  BY <1>5, <1>a, <1>t DEF WriteFails, OpenFails, dirVars
<1>6. CASE Put
  <2>1. CASE writer /\ file # None
    <3>1. /\ file \in Names /\ file \in exists
          /\ \A n \in Names : n # file => text'[n] = text[n]
          /\ mtime' = [mtime EXCEPT ![file] = day] /\ UNCHANGED <<exists, currentDay, day>>
      BY <1>6, <2>1, PutFiles
    <3> QED BY <1>t, <1>m, <3>1 DEF DirInv
  <2>2. CASE ~(writer /\ file # None)
    BY <1>6, <1>a, <1>t, <2>2 DEF Put
  <2> QED BY <2>1, <2>2
<1>7. CASE Boot
  <2>1. PICK old \in SUBSET exists :
          /\ \A n \in old : n[1] # day
          /\ exists' = (exists \ old) \cup {Current(day)}
          /\ \A n \in old : text'[n] = << >>
          /\ \A n \in Names \ old : text'[n] = text[n]
    BY <1>7, BootFiles
  <2>2. /\ currentDay' = day /\ day' = day
        /\ mtime' = IF Current(day) \in exists THEN mtime ELSE [mtime EXCEPT ![Current(day)] = day]
    BY <1>7 DEF Boot, OpenOK
  <2>3. \A n \in exists' : n[1] <= mtime'[n] /\ mtime'[n] <= day' /\ n[1] <= currentDay'
    BY <1>t, <1>m, <1>c, <2>1, <2>2 DEF DirInv
  <2>4. ASSUME NEW n \in exists', NEW q \in 1 .. MaxParts, n[1] = currentDay', q < n[2]
        PROVE  <<currentDay', q>> \in exists'
    <3>1. n \in exists /\ n[1] = day
      BY <1>c, <2>1, <2>2, <2>4
    <3>2. day = currentDay
      BY <1>t, <1>m, <3>1 DEF DirInv
    <3>3. <<day, q>> \in exists /\ <<day, q>>[1] = day
      BY <2>4, <3>1, <3>2 DEF DirInv
    <3> QED BY <2>1, <2>2, <3>3
  <2>5. \A n \in Names \ exists' : text'[n] = << >>
    BY <2>1 DEF DirInv
  <2> QED BY <2>3, <2>4, <2>5 DEF DirInv
<1>8. CASE BootFails
  BY <1>8, <1>a, <1>t DEF BootFails, OpenFails, dirVars
<1>9. CASE Stop
  BY <1>9, <1>a, <1>t DEF Stop, dirVars
<1>10. CASE UNCHANGED vars
  BY <1>10, <1>a, <1>t DEF vars, dirVars, openVars
<1> QED BY <1>1, <1>2, <1>3, <1>4, <1>5, <1>6, <1>7, <1>8, <1>9, <1>10 DEF Next
-----------------------------------------------------------------------------
(* Where the lines are, and in which order                                 *)

LEMMA WriterNextLines == TypeOK /\ ClockInv /\ DirInv /\ LinesInv /\ [Next]_vars => LinesInv'
<1> SUFFICES ASSUME TypeOK, ClockInv, DirInv, LinesInv, [Next]_vars PROVE LinesInv'
  OBVIOUS
<1>t. /\ text \in [Names -> Seq(Line)] /\ stored \subseteq Nat /\ next \in Nat
      /\ \A n \in Names : Len(text[n]) \in Nat
  <2>1. text \in [Names -> Seq(Line)] /\ stored \subseteq Nat /\ next \in Nat
    BY DEF TypeOK, Line
  <2> QED BY <2>1, LenProperties
<1>1. CASE UNCHANGED <<text, stored, cleaned>> /\ next' \in {next, next + 1}
  BY <1>1, <1>t DEF LinesInv, Holds
<1>2. CASE Put /\ writer /\ file # None
  <2>1. /\ file \in Names /\ next \in Line
        /\ \A n \in Names : n # file => text'[n] = text[n]
        /\ Len(text'[file]) = Len(text[file]) + 1 /\ Len(text[file]) \in Nat
        /\ \A k \in 1 .. Len(text[file]) : text'[file][k] = text[file][k]
        /\ text'[file][Len(text[file]) + 1] = next
        /\ stored' = stored \cup {next} /\ next' = next + 1 /\ cleaned' = cleaned
    BY <1>2, PutFiles
  <2>2. ASSUME NEW line \in stored' PROVE line < next'
    <3>1. CASE line = next
      BY <1>t, <2>1, <3>1
    <3>2. CASE line \in stored
      <4>1. line < next /\ line \in Nat
        BY <1>t, <3>2 DEF LinesInv
      <4> QED BY <1>t, <2>1, <4>1
    <3> QED BY <2>1, <2>2, <3>1, <3>2
  <2>3. \A n \in Names : \A k \in 1 .. Len(text'[n]) : text'[n][k] \in stored'
    BY <2>1 DEF LinesInv
  <2>4. ASSUME NEW line \in stored' \ cleaned' PROVE \E n \in Names : Holds(n, line)'
    <3>1. CASE line = next
      BY <2>1, <3>1 DEF Holds
    <3>2. CASE line # next
      <4>1. PICK n \in Names : Holds(n, line)
        BY <2>1, <2>4, <3>2 DEF LinesInv
      <4>2. CASE n = file
        BY <2>1, <4>1, <4>2 DEF Holds
      <4>3. CASE n # file
        BY <2>1, <4>1, <4>3 DEF Holds
      <4> QED BY <4>2, <4>3
    <3> QED BY <3>1, <3>2
  <2> QED BY <2>2, <2>3, <2>4 DEF LinesInv
<1>3. CASE /\ Rotate /\ today = currentDay /\ Current(currentDay) \in exists
           /\ FreeParts # {} /\ SetAside(FirstFree)
  <2> DEFINE c == Current(currentDay)
  <2>1. PICK p \in FreeParts :
          /\ text'[c] = << >> /\ text'[<<currentDay, p>>] = text[c]
          /\ \A n \in Names \ {c, <<currentDay, p>>} : text'[n] = text[n]
    BY <1>3, AsideFiles
  <2> DEFINE a == <<currentDay, p>>
  <2>2. a \in Names /\ c \in Names /\ a # c /\ text[a] = << >>
    BY NameFacts DEF TypeOK, FreeParts, DirInv
  <2>3. UNCHANGED <<stored, cleaned, next>>
    BY <1>3 DEF Rotate
  <2> HIDE DEF c, a
  <2>4. /\ text'[c] = << >> /\ text'[a] = text[c] /\ text[a] = << >>
        /\ \A n \in Names \ {c, a} : text'[n] = text[n]
    BY <2>1, <2>2 DEF a
  <2>5. \A n \in Names : \A k \in 1 .. Len(text'[n]) : text'[n][k] \in stored'
    BY <2>2, <2>3, <2>4 DEF LinesInv
  <2>6. ASSUME NEW line \in stored' \ cleaned' PROVE \E n \in Names : Holds(n, line)'
    <3>1. PICK n \in Names : Holds(n, line)
      BY <2>3, <2>6 DEF LinesInv
    <3>2. CASE n = c
      BY <2>2, <2>4, <3>1, <3>2 DEF Holds
    <3>3. CASE n # c
      <4>1. n # a
        BY <2>4, <3>1 DEF Holds
      <4> QED BY <2>4, <3>1, <3>3, <4>1 DEF Holds
    <3> QED BY <3>2, <3>3
  <2> QED BY <2>3, <2>5, <2>6 DEF LinesInv
<1>4. CASE Boot
  <2>1. PICK old \in SUBSET exists :
          /\ \A n \in old : text'[n] = << >>
          /\ \A n \in Names \ old : text'[n] = text[n]
          /\ \A n \in old : \A k \in 1 .. Len(text[n]) : text[n][k] \in cleaned'
          /\ cleaned \subseteq cleaned' /\ UNCHANGED <<stored, next>>
    BY <1>4, BootFiles
  <2>2. \A n \in Names : \A k \in 1 .. Len(text'[n]) : text'[n][k] \in stored'
    BY <2>1 DEF LinesInv
  <2>3. ASSUME NEW line \in stored' \ cleaned' PROVE \E n \in Names : Holds(n, line)'
    <3>1. PICK n \in Names : Holds(n, line)
      BY <2>1, <2>3 DEF LinesInv
    <3>2. n \notin old
      BY <2>1, <2>3, <3>1 DEF Holds
    <3> QED BY <2>1, <3>1, <3>2 DEF Holds
  <2> QED BY <2>1, <2>2, <2>3 DEF LinesInv
<1> QED BY <1>1, <1>2, <1>3, <1>4, FileSteps

LEMMA WriterNextOrder ==
  TypeOK /\ ClockInv /\ DirInv /\ LinesInv /\ OrderInv /\ [Next]_vars => OrderInv'
<1> SUFFICES ASSUME TypeOK, ClockInv, DirInv, LinesInv, OrderInv, [Next]_vars PROVE OrderInv'
  OBVIOUS
<1>t. /\ text \in [Names -> Seq(Line)] /\ next \in Nat /\ currentDay \in Days /\ currentDay \in Nat
      /\ \A n \in Names : Len(text[n]) \in Nat /\ n[1] \in Nat /\ n[2] \in Nat
  <2>1. text \in [Names -> Seq(Line)] /\ next \in Nat /\ currentDay \in Days
    BY DEF TypeOK, Line
  <2> QED BY <2>1, LenProperties, NameFacts
\* What there is no file of is empty.
<1>e. \A n \in Names : n \notin exists => Len(text[n]) = 0
  BY DEF DirInv
<1>1. CASE UNCHANGED <<text, stored, cleaned>> /\ next' \in {next, next + 1}
  BY <1>1 DEF OrderInv
<1>2. CASE Put /\ writer /\ file # None
  <2>1. /\ file \in Names /\ file = Current(currentDay) /\ file[1] = currentDay /\ file[2] = 0
        /\ \A n \in Names : n # file => text'[n] = text[n]
        /\ Len(text'[file]) = Len(text[file]) + 1 /\ Len(text[file]) \in Nat
        /\ \A k \in 1 .. Len(text[file]) : text'[file][k] = text[file][k]
        /\ text'[file][Len(text[file]) + 1] = next
    BY <1>2, <1>t, PutFiles, NameFacts
  <2>2. \A n \in Names : \A k \in 1 .. Len(text[n]) : text[n][k] < next
    BY DEF LinesInv
  <2>3. ASSUME NEW n \in Names, NEW k \in 1 .. Len(text'[n]), NEW l \in 1 .. Len(text'[n]), k < l
        PROVE  text'[n][k] < text'[n][l]
    <3>1. CASE n # file
      BY <2>1, <2>3, <3>1 DEF OrderInv
    <3>2. CASE n = file /\ l = Len(text[file]) + 1
      BY <2>1, <2>2, <2>3, <3>2
    <3>3. CASE n = file /\ l # Len(text[file]) + 1
      <4>1. k \in 1 .. Len(text[file]) /\ l \in 1 .. Len(text[file])
        BY <2>1, <2>3, <3>3
      <4> QED BY <2>1, <2>3, <3>3, <4>1 DEF OrderInv
    <3> QED BY <3>1, <3>2, <3>3
  <2>4. ASSUME NEW n \in Names, NEW m \in Names, Before(n, m),
               NEW k \in 1 .. Len(text'[n]), NEW l \in 1 .. Len(text'[m])
        PROVE  text'[n][k] < text'[m][l]
    <3>1. n # file
      <4>1. ASSUME n = file PROVE FALSE
        <5>1. currentDay < m[1]
          BY <2>1, <2>4, <4>1 DEF Before
        <5>2. m \notin exists /\ m # file
          BY <1>t, <2>1, <5>1 DEF DirInv
        <5>3. Len(text'[m]) = 0
          BY <1>e, <2>1, <5>2
        <5> QED BY <5>3
      <4> QED BY <4>1
    <3>2. CASE m = file /\ l = Len(text[file]) + 1
      BY <2>1, <2>2, <3>1, <3>2
    <3>3. CASE m = file /\ l # Len(text[file]) + 1
      <4>1. l \in 1 .. Len(text[file])
        BY <2>1, <3>3
      <4> QED BY <2>1, <2>4, <3>1, <3>3, <4>1 DEF OrderInv
    <3>4. CASE m # file
      BY <2>1, <2>4, <3>1, <3>4 DEF OrderInv
    <3> QED BY <3>2, <3>3, <3>4
  <2> QED BY <2>3, <2>4 DEF OrderInv
<1>3. CASE /\ Rotate /\ today = currentDay /\ Current(currentDay) \in exists
           /\ FreeParts # {} /\ SetAside(FirstFree)
  <2> DEFINE c == Current(currentDay)
  <2>1. PICK p \in FreeParts :
          /\ \A q \in FreeParts : p <= q
          /\ text'[c] = << >> /\ text'[<<currentDay, p>>] = text[c]
          /\ \A n \in Names \ {c, <<currentDay, p>>} : text'[n] = text[n]
    BY <1>3, AsideFiles
  <2> DEFINE a == <<currentDay, p>>
  <2>2. /\ p \in 1 .. MaxParts
        /\ \A q \in 1 .. MaxParts : p <= q => <<currentDay, q>> \notin exists
    BY <2>1, PartsAreFirst
  <2>3. /\ a \in Names /\ a[1] = currentDay /\ a[2] = p
        /\ c \in Names /\ c[1] = currentDay /\ c[2] = 0 /\ a # c
    BY <1>t, <2>2, NameFacts
  \* A later file than the new one is empty.
  <2>4. ASSUME NEW m \in Names, Before(a, m) PROVE Len(text'[m]) = 0
    <3>1. CASE m = c
      BY <2>1, <3>1
    <3>2. CASE m # c
      <4>1. m # a
        BY <1>t, <2>2, <2>3, <2>4, WriterAssumption DEF Before
      <4>2. m \notin exists
        <5>1. CASE currentDay < m[1]
          BY <1>t, <5>1 DEF DirInv
        <5>2. CASE m[1] = currentDay
          <6>1. m[2] # 0
            BY <2>3, <3>2, <5>2, NameFacts
          <6>2. p < m[2]
            BY <2>3, <2>4, <5>2, <6>1, <1>t DEF Before
          <6>3. m = <<currentDay, m[2]>> /\ m[2] \in 1 .. MaxParts
            BY <1>t, <5>2, <6>1, NameFacts, WriterAssumption
          <6> QED BY <2>2, <6>2, <6>3
        <5> QED BY <1>t, <2>3, <2>4, <5>1, <5>2 DEF Before
      <4> QED BY <1>e, <2>1, <3>2, <4>1, <4>2
    <3> QED BY <3>1, <3>2
  <2>5. ASSUME NEW n \in Names, Before(n, a), n # a PROVE Before(n, c)
    BY <2>2, <2>3, <2>5 DEF Before
  <2> HIDE DEF c, a
  <2>6. /\ text'[c] = << >> /\ text'[a] = text[c]
        /\ \A n \in Names \ {c, a} : text'[n] = text[n]
    BY <2>1 DEF a
  <2>7. \A n \in Names : \A k, l \in 1 .. Len(text'[n]) : k < l => text'[n][k] < text'[n][l]
    BY <2>3, <2>6 DEF OrderInv
  <2>8. ASSUME NEW n \in Names, NEW m \in Names, Before(n, m),
               NEW k \in 1 .. Len(text'[n]), NEW l \in 1 .. Len(text'[m])
        PROVE  text'[n][k] < text'[m][l]
    <3>1. n # c /\ m # c /\ n # a
      BY <2>4, <2>6, <2>8
    <3>2. CASE m = a
      BY <2>3, <2>5, <2>6, <2>8, <3>1, <3>2 DEF OrderInv
    <3>3. CASE m # a
      BY <2>6, <2>8, <3>1, <3>3 DEF OrderInv
    <3> QED BY <3>2, <3>3
  <2> QED BY <2>7, <2>8 DEF OrderInv
<1>4. CASE Boot
  <2>1. PICK old \in SUBSET exists :
          /\ \A n \in old : text'[n] = << >>
          /\ \A n \in Names \ old : text'[n] = text[n]
    BY <1>4, BootFiles
  <2>2. \A n \in Names : Len(text'[n]) = 0 \/ text'[n] = text[n]
    BY <2>1
  <2> QED BY <2>2 DEF OrderInv
<1> QED BY <1>1, <1>2, <1>3, <1>4, FileSteps
-----------------------------------------------------------------------------
(* Sizes and the console's lines                                           *)

\* A file is only as full as MaxSize, but on a day on which it could not be set aside.
LEMMA WriterNextSize == TypeOK /\ ClockInv /\ DirInv /\ SizeInv /\ [Next]_vars => SizeInv'
<1> SUFFICES ASSUME TypeOK, ClockInv, DirInv, SizeInv, [Next]_vars PROVE SizeInv'
  OBVIOUS
<1>t. /\ text \in [Names -> Seq(Line)] /\ day \in Days /\ today \in Days /\ currentDay \in Days
      /\ day \in Nat /\ today \in Nat /\ currentDay \in Nat /\ size \in Nat /\ MaxSize \in Nat \ {0}
      /\ file \in Names \cup {None}
      /\ \A n \in Names : Len(text[n]) \in Nat
  <2>1. /\ text \in [Names -> Seq(Line)] /\ day \in Days /\ today \in Days /\ currentDay \in Days
        /\ size \in Nat /\ file \in Names \cup {None}
    BY DEF TypeOK, Line
  <2> QED BY <2>1, LenProperties, NameFacts, WriterAssumption
<1>e. \A d \in Days : currentDay < d => text[Current(d)] = << >>
  BY <1>t, NameFacts DEF DirInv
<1>z. Len(<< >>) = 0
  OBVIOUS
\* Nothing that the invariant is about changes, or Write ends, or there is no file.
<1>q. ASSUME UNCHANGED <<text, stuck>>,
             \/ UNCHANGED <<file, size>>
             \/ file' = None,
             pc' = "open" => pc = "open" /\ UNCHANGED today,
             pc' = "put" => pc = "put" \/ file' = None
      PROVE  SizeInv'
  BY <1>q DEF SizeInv, SizeIsBounded
<1>1. CASE Midnight
  BY <1>1, <1>q DEF Midnight, dirVars, openVars
<1>2. CASE Write
  <2>1. UNCHANGED <<text, stuck, file, size>> /\ pc' \in {"rotate", "put"}
    BY <1>2 DEF Write, Goto, dirVars, openVars
  <2>2. ASSUME pc' = "put", file # None, file[1] \notin stuck PROVE Len(text[file]) < MaxSize
    <3>1. writer /\ ~NeedsRotation
      BY <1>2, <2>2 DEF Write, Goto, ClockInv
    <3>2. size = Len(text[file])
      BY <2>2 DEF SizeInv
    <3> QED BY <1>t, <3>1, <3>2 DEF NeedsRotation
  <2> QED BY <2>1, <2>2 DEF SizeInv, SizeIsBounded
<1>3. CASE Rotate
  <2>1. /\ pc' = "open" /\ file' = None /\ today' = today /\ currentDay <= today
    BY <1>3 DEF Rotate, Goto, ClockInv
  <2>2. CASE /\ today = currentDay /\ Current(currentDay) \in exists
             /\ FreeParts # {} /\ SetAside(FirstFree)
    <3> DEFINE c == Current(currentDay)
    <3>1. PICK p \in FreeParts :
            /\ text'[c] = << >> /\ text'[<<currentDay, p>>] = text[c]
            /\ \A n \in Names \ {c, <<currentDay, p>>} : text'[n] = text[n]
            /\ stuck' = stuck
      BY <2>2, AsideFiles
    <3> DEFINE a == <<currentDay, p>>
    <3>2. c \in Names /\ c[1] = currentDay /\ a[1] = currentDay
      BY <1>t, NameFacts
    <3> HIDE DEF a, c
    <3>3. /\ text'[c] = << >> /\ text'[a] = text[c]
          /\ \A n \in Names \ {c, a} : text'[n] = text[n]
      BY <3>1 DEF a
    <3>4. SizeIsBounded'
      BY <1>t, <1>z, <3>1, <3>2, <3>3 DEF SizeInv, SizeIsBounded
    <3>5. text'[Current(today')] = << >>
      BY <2>1, <2>2, <3>3 DEF c
    <3> QED BY <2>1, <3>4, <3>5 DEF SizeInv
  <2>3. CASE /\ today = currentDay /\ UNCHANGED dirVars /\ stuck' = stuck \cup {currentDay}
    BY <2>1, <2>3 DEF SizeInv, SizeIsBounded, dirVars
  <2>4. CASE /\ today # currentDay \/ Current(currentDay) \notin exists
             /\ UNCHANGED <<dirVars, stuck>>
    <3>1. text[Current(today)] = << >>
      <4>1. CASE today # currentDay
        BY <1>t, <1>e, <2>1, <4>1
      <4>2. CASE today = currentDay
        BY <1>t, <2>4, <4>2, NameFacts DEF DirInv
      <4> QED BY <4>1, <4>2
    <3> QED BY <2>1, <2>4, <3>1 DEF SizeInv, SizeIsBounded, dirVars
  <2> QED BY <1>3, <2>2, <2>3, <2>4, RotateFiles
<1>4. CASE Open
  <2>1. /\ pc = "open" /\ pc' = "put" /\ text' = text /\ stuck' = stuck
        /\ file' = Current(day) /\ size' = Len(text[Current(day)])
    BY <1>4 DEF Open, OpenOK, Goto
  <2>2. day \in stuck \/ text[Current(day)] = << >>
    <3>1. currentDay = today /\ currentDay <= day
      BY <2>1 DEF ClockInv
    <3>2. CASE currentDay < day
      BY <1>t, <1>e, <3>2
    <3>3. CASE currentDay = day
      BY <2>1, <3>1, <3>3 DEF SizeInv
    <3> QED BY <1>t, <3>1, <3>2, <3>3
  <2>3. Current(day)[1] = day
    BY <1>t, NameFacts
  <2> QED BY <1>t, <1>z, <2>1, <2>2, <2>3 DEF SizeInv, SizeIsBounded
<1>5. CASE WriteFails
  <2>1. file' = file /\ file = None
    BY <1>5 DEF WriteFails, OpenFails, Goto, ClockInv
  <2> QED BY <1>5, <1>q, <2>1 DEF WriteFails, OpenFails, Goto, dirVars
<1>6. CASE Put
  <2>1. pc = "put" /\ pc' = "idle"
    BY <1>6 DEF Put, Goto
  <2>2. CASE writer /\ file # None
    <3>1. /\ file \in Names
          /\ \A n \in Names : n # file => text'[n] = text[n]
          /\ Len(text'[file]) = Len(text[file]) + 1
          /\ size' = size + 1 /\ UNCHANGED <<stuck, file>>
      BY <1>6, <2>2, PutFiles
    <3>2. file[1] \notin stuck => Len(text'[file]) <= MaxSize
      BY <1>t, <2>1, <2>2, <3>1 DEF SizeInv
    <3> QED BY <2>1, <2>2, <3>1, <3>2 DEF SizeInv, SizeIsBounded
  <2>3. CASE ~(writer /\ file # None)
    BY <1>6, <1>q, <2>1, <2>3 DEF Put
  <2> QED BY <2>2, <2>3
<1>7. CASE Boot
  <2>1. PICK old \in SUBSET exists :
          /\ \A n \in old : n[1] # day
          /\ \A n \in old : text'[n] = << >>
          /\ \A n \in Names \ old : text'[n] = text[n]
          /\ stuck' = stuck
    BY <1>7, BootFiles
  <2>2. pc' = "idle" /\ file' = Current(day) /\ size' = Len(text[Current(day)])
    BY <1>7 DEF Boot, OpenOK, ClockInv
  <2>3. Current(day) \in Names \ old
    BY <1>t, <2>1, NameFacts
  <2> QED BY <1>t, <1>z, <2>1, <2>2, <2>3 DEF SizeInv, SizeIsBounded
<1>8. CASE BootFails
  <2>1. file' = file /\ file = None /\ pc' = "idle"
    BY <1>8 DEF BootFails, OpenFails, ClockInv
  <2> QED BY <1>8, <1>q, <2>1 DEF BootFails, OpenFails, dirVars
<1>9. CASE Stop
  BY <1>9, <1>q DEF Stop, dirVars
<1>10. CASE UNCHANGED vars
  BY <1>10, <1>q DEF vars, dirVars, openVars
<1> QED BY <1>1, <1>2, <1>3, <1>4, <1>5, <1>6, <1>7, <1>8, <1>9, <1>10 DEF Next

LEMMA WriterNextConsole ==
  TypeOK /\ ClockInv /\ ConsoleLinesAreFiled /\ [Next]_vars => ConsoleLinesAreFiled'
<1> SUFFICES ASSUME TypeOK, ClockInv, ConsoleLinesAreFiled, [Next]_vars
             PROVE  ConsoleLinesAreFiled'
  OBVIOUS
<1>1. CASE UNCHANGED <<up, writer, buffer, stored>>
  BY <1>1 DEF ConsoleLinesAreFiled
<1>2. CASE Put
  <2>1. CASE writer /\ file # None
    <3>1. next \in Line /\ stored' = stored \cup {next}
      BY <1>2, <2>1, PutFiles
    <3>2. buffer \in Seq(Line)
      BY DEF TypeOK, Line
    <3>3. ToSet(Keep(next)) \subseteq ToSet(buffer) \cup {next}
      BY <3>1, <3>2, KeepType
    <3> QED BY <1>2, <2>1, <3>1, <3>3 DEF Put, ConsoleLinesAreFiled
  <2>2. CASE ~(writer /\ file # None)
    BY <1>2, <2>2 DEF Put, ConsoleLinesAreFiled
  <2> QED BY <2>1, <2>2
<1>3. CASE Boot
  <2>1. buffer' = << >> /\ ToSet(<< >>) = {}
    BY <1>3 DEF Boot, ClockInv, ToSet
  <2> QED BY <2>1 DEF ConsoleLinesAreFiled
<1>4. CASE BootFails \/ Stop
  BY <1>4 DEF BootFails, Stop, ConsoleLinesAreFiled
<1>5. CASE Midnight \/ Write \/ Rotate \/ Open \/ WriteFails \/ UNCHANGED vars
  BY <1>1, <1>5 DEF Midnight, Write, Rotate, Open, WriteFails, vars
<1> QED BY <1>2, <1>3, <1>4, <1>5 DEF Next
-----------------------------------------------------------------------------
(* The oldest lines                                                        *)

\* What happens to the times: a write is the latest there is, and a new name
\* keeps the file's own.
LEMMA TimeSteps ==
  ASSUME TypeOK, ClockInv, DirInv, [Next]_vars
  PROVE  \/ \A n \in Names : text'[n] # << >> => text'[n] = text[n] /\ mtime'[n] = mtime[n]
         \/ Put /\ writer /\ file # None
         \/ /\ Rotate /\ today = currentDay /\ Current(currentDay) \in exists
            /\ FreeParts # {} /\ SetAside(FirstFree)
<1> DEFINE Same == \A n \in Names : text'[n] # << >> => text'[n] = text[n] /\ mtime'[n] = mtime[n]
<1>1. UNCHANGED <<text, mtime>> => Same
  OBVIOUS
<1>2. ASSUME OpenOK, NEW n \in Names, text[n] # << >> PROVE mtime'[n] = mtime[n]
  <2>1. n \in exists
    BY <1>2 DEF DirInv
  <2> QED BY <1>2, <2>1 DEF OpenOK, TypeOK
<1>3. CASE Open
  BY <1>2, <1>3 DEF Open
<1>4. CASE Boot
  <2>1. PICK old \in SUBSET exists :
          /\ \A n \in old : text'[n] = << >>
          /\ \A n \in Names \ old : text'[n] = text[n]
    BY <1>4, BootFiles
  <2> QED BY <1>2, <1>4, <2>1 DEF Boot
<1>5. CASE Rotate
  BY <1>1, <1>5, RotateFiles DEF dirVars
<1>6. CASE Put
  BY <1>1, <1>6 DEF Put
<1>7. CASE Midnight \/ Write \/ WriteFails \/ BootFails \/ Stop \/ UNCHANGED vars
  BY <1>1, <1>7 DEF Midnight, Write, WriteFails, BootFails, OpenFails, Stop, dirVars, vars
<1> QED BY <1>3, <1>4, <1>5, <1>6, <1>7 DEF Next

\* A write is the latest there is, and nothing after the file it goes to holds
\* a line; a file set aside takes its time to the place before it.
LEMMA WriterNextAge == TypeOK /\ ClockInv /\ DirInv /\ AgeInv /\ [Next]_vars => AgeInv'
<1> SUFFICES ASSUME TypeOK, ClockInv, DirInv, AgeInv, [Next]_vars,
                    NEW n \in Names, NEW m \in Names, Before(n, m),
                    text'[n] # << >>, text'[m] # << >>
             PROVE  mtime'[n] <= mtime'[m]
  BY DEF AgeInv, Before
<1>t. /\ currentDay \in Days /\ currentDay \in Nat /\ day \in Nat
      /\ mtime \in [Names -> Days]
      /\ \A i \in Names : i[1] \in Nat /\ i[2] \in 0 .. MaxParts /\ mtime[i] \in Nat
  <2>1. currentDay \in Days /\ day \in Days /\ mtime \in [Names -> Days]
    BY DEF TypeOK
  <2>2. \A d \in Days : d \in Nat
    BY NameFacts
  <2>3. \A i \in Names : i[1] \in Days /\ i[2] \in 0 .. MaxParts /\ mtime[i] \in Days
    BY <2>1, NameFacts
  <2> QED BY <2>1, <2>2, <2>3
\* What holds a line is a file of a day that has come.
<1>e. \A i \in Names : text[i] # << >> => i \in exists /\ mtime[i] <= day /\ i[1] <= currentDay
  BY DEF DirInv
<1>1. CASE \A i \in Names : text'[i] # << >> => text'[i] = text[i] /\ mtime'[i] = mtime[i]
  <2>1. text[n] # << >> /\ text[m] # << >>
    BY <1>1
  <2> QED BY <1>1, <2>1 DEF AgeInv
<1>2. CASE Put /\ writer /\ file # None
  <2>0. /\ file \in Names /\ file = Current(currentDay)
        /\ \A i \in Names : i # file => text'[i] = text[i]
        /\ mtime' = [mtime EXCEPT ![file] = day]
    BY <1>2, PutFiles
  <2>1. /\ file \in Names /\ file[1] = currentDay /\ file[2] = 0
        /\ \A i \in Names : i # file => text'[i] = text[i]
        /\ mtime' = [mtime EXCEPT ![file] = day]
    BY <1>t, <2>0, NameFacts
  <2>2. m = file \/ text[m] # << >>
    BY <2>1
  <2>3. n # file
    <3>1. m[1] <= currentDay
      BY <1>t, <1>e, <2>1, <2>2
    <3> QED BY <1>t, <2>1, <3>1 DEF Before
  <2>4. text[n] # << >>
    BY <2>1, <2>3
  <2>5. CASE m = file
    BY <1>t, <1>e, <2>1, <2>3, <2>4, <2>5
  <2>6. CASE m # file
    BY <1>t, <2>1, <2>2, <2>3, <2>4, <2>6 DEF AgeInv
  <2> QED BY <2>5, <2>6
<1>3. CASE /\ Rotate /\ today = currentDay /\ Current(currentDay) \in exists
           /\ FreeParts # {} /\ SetAside(FirstFree)
  <2> DEFINE c == Current(currentDay)
  <2>1. PICK p \in FreeParts :
          /\ \A q \in FreeParts : p <= q
          /\ text'[c] = << >> /\ text'[<<currentDay, p>>] = text[c]
          /\ mtime'[<<currentDay, p>>] = mtime[c]
          /\ \A i \in Names \ {c, <<currentDay, p>>} : text'[i] = text[i]
          /\ \A i \in Names \ {<<currentDay, p>>} : mtime'[i] = mtime[i]
    BY <1>3, AsideFiles
  <2> DEFINE a == <<currentDay, p>>
  <2>2. /\ p \in 1 .. MaxParts
        /\ \A q \in 1 .. MaxParts : p <= q => <<currentDay, q>> \notin exists
    BY <2>1, PartsAreFirst
  <2>3. /\ a \in Names /\ a[1] = currentDay /\ a[2] = p
        /\ c \in Names /\ c[1] = currentDay /\ c[2] = 0 /\ a # c
    BY <1>t, <2>2, NameFacts
  <2>4. n # c /\ m # c
    BY <2>1
  <2>5. m # a => text[m] # << >>
    BY <2>1, <2>4
  \* Nothing comes after the new name.
  <2>6. n # a
    <3>1. ASSUME n = a PROVE FALSE
      <4>1. m # a
        BY <1>t, <2>2, <2>3, <3>1, WriterAssumption DEF Before
      <4>2. m \in exists /\ m[1] <= currentDay
        BY <1>e, <2>5, <4>1
      <4>3. m[1] = currentDay
        BY <1>t, <2>3, <3>1, <4>2 DEF Before
      <4>4. m[2] # 0
        BY <2>3, <2>4, <4>3, NameFacts
      <4>5. p < m[2]
        BY <1>t, <2>3, <3>1, <4>3, <4>4 DEF Before
      <4>6. m = <<currentDay, m[2]>> /\ m[2] \in 1 .. MaxParts
        <5>1. m[2] \in 1 .. MaxParts
          BY <1>t, <4>4, WriterAssumption
        <5> QED BY <4>3, <5>1, NameFacts
      <4> QED BY <2>2, <4>2, <4>5, <4>6
    <3> QED BY <3>1
  <2>7. text[n] # << >> /\ mtime'[n] = mtime[n]
    BY <2>1, <2>4, <2>6
  <2>8. CASE m = a
    <3>1. Before(n, c)
      BY <2>2, <2>3, <2>6, <2>8 DEF Before
    <3>2. text[c] # << >>
      BY <2>1, <2>8
    <3> QED BY <2>1, <2>3, <2>7, <2>8, <3>1, <3>2 DEF AgeInv
  <2>9. CASE m # a
    BY <2>1, <2>5, <2>7, <2>9 DEF AgeInv
  <2> QED BY <2>8, <2>9
<1> QED BY <1>1, <1>2, <1>3, TimeSteps

\* With a file that is removed, so is every file with lines before its own.
LEMMA OldestExpire ==
  ASSUME TypeOK, DirInv, OrderInv, AgeInv, NEW keep \in Later,
         NEW n \in Expired(keep), NEW q \in Names,
         NEW k \in 1 .. Len(text[n]), NEW l \in 1 .. Len(text[q]), text[q][l] < text[n][k]
  PROVE  q \in Expired(keep)
<1>t. /\ n \in Names /\ n \in exists /\ n \notin keep /\ mtime[n] + MaxAge <= day
      /\ text[n][k] \in Nat /\ text[q][l] \in Nat
      /\ mtime[n] \in Nat /\ mtime[q] \in Nat /\ day \in Nat /\ MaxAge \in Nat
  <2>1. n \in Names /\ n \in exists /\ n \notin keep /\ mtime[n] + MaxAge <= day
    BY DEF Expired, TypeOK
  <2>2. text[n] \in Seq(Line) /\ text[q] \in Seq(Line) /\ Line \subseteq Nat
    BY <2>1 DEF TypeOK, Line
  <2>3. mtime[n] \in Days /\ mtime[q] \in Days /\ day \in Days
    BY <2>1 DEF TypeOK
  <2> QED BY <2>1, <2>2, <2>3, ElementOfSeq, NameFacts, WriterAssumption
<1>n. ~(text[n][k] < text[q][l])
  <2> DEFINE x == text[n][k]
             y == text[q][l]
  <2>1. x \in Nat /\ y \in Nat /\ y < x
    BY <1>t
  <2> HIDE DEF x, y
  <2>2. ~(x < y)
    BY <2>1
  <2> QED BY <2>2 DEF x, y
<1>1. text[n] # << >> /\ text[q] # << >> /\ q \in exists
  <2>1. text[n] # << >> /\ text[q] # << >>
    OBVIOUS
  <2> QED BY <2>1 DEF DirInv
<1>2. mtime[q] <= mtime[n]
  <2>1. ~Before(n, q)
    <3>1. Before(n, q) => text[n][k] < text[q][l]
      BY <1>t DEF OrderInv
    <3> QED BY <1>n, <3>1
  <2>2. q = n \/ Before(q, n)
    <3>1. n[1] \in Nat /\ n[2] \in Nat /\ q[1] \in Nat /\ q[2] \in Nat
      BY <1>t, NameFacts, WriterAssumption DEF Days
    <3>2. Before(q, n) \/ (n[1] = q[1] /\ n[2] = q[2])
      BY <2>1, <3>1 DEF Before
    <3> QED BY <1>t, <3>2, NameFacts
  <2> QED BY <1>t, <1>1, <2>2 DEF AgeInv
<1>3. q \notin keep
  <2>1. ASSUME q \in keep PROVE FALSE
    <3>1. q \in Tied /\ keep \subseteq Tied
      BY <2>1 DEF Later
    <3>2. n \in Tied \ keep
      BY <1>t, <1>2, <3>1 DEF Tied
    <3>3. text[n][k] < text[q][l]
      BY <2>1, <3>2 DEF Later
    <3> QED BY <1>n, <3>3
  <2> QED BY <2>1
<1> QED BY <1>t, <1>1, <1>2, <1>3 DEF Expired

LEMMA WriterNextClean ==
  /\ TypeOK /\ ClockInv /\ DirInv /\ LinesInv /\ OrderInv /\ AgeInv /\ CleanInv
  /\ [Next]_vars
  => CleanInv'
<1> SUFFICES ASSUME TypeOK, ClockInv, DirInv, LinesInv, OrderInv, AgeInv, CleanInv, [Next]_vars
             PROVE  CleanInv'
  OBVIOUS
<1>1. CASE UNCHANGED <<stored, cleaned, spared>>
  BY <1>1 DEF CleanInv, CleansOldest
<1>2. CASE Put
  <2>1. UNCHANGED <<cleaned, spared>> /\ stored' \subseteq stored \cup {next}
    BY <1>2 DEF Put
  <2>2. \A line \in stored : line < next /\ line \in Nat
    BY DEF LinesInv, TypeOK
  <2>3. stored \subseteq stored' /\ next \in Nat
    BY <1>2 DEF Put, TypeOK
  <2>4. \A line \in cleaned' : line \in stored /\ ~(next < line)
    BY <2>1, <2>2, <2>3 DEF CleanInv
  <2> QED BY <2>1, <2>3, <2>4 DEF CleanInv, CleansOldest
<1>3. CASE Boot
  <2>1. PICK old \in SUBSET exists :
          /\ \A n \in old : \A k \in 1 .. Len(text[n]) : text[n][k] \in cleaned'
          /\ cleaned \subseteq cleaned'
          /\ \A line \in cleaned' : line \in cleaned \/ \E n \in old : Holds(n, line)
          /\ ~spared' => ~spared /\ \E keep \in Later : old = Expired(keep)
          /\ stored' = stored
    BY <1>3, BootFiles
  <2>2. old \subseteq Names
    BY DEF TypeOK
  <2>3. cleaned' \subseteq stored'
    BY <2>1, <2>2 DEF CleanInv, LinesInv, Holds
  <2>4. ASSUME ~spared', NEW line \in cleaned', NEW older \in stored, older < line
        PROVE  older \in cleaned'
    <3>1. PICK keep \in Later : old = Expired(keep)
      BY <2>1, <2>4
    <3>2. CASE older \in cleaned
      BY <2>1, <3>2
    <3>3. CASE older \notin cleaned
      <4>1. line \notin cleaned
        BY <2>1, <2>4, <3>3 DEF CleanInv, CleansOldest
      <4>2. PICK n \in old : Holds(n, line)
        BY <2>1, <4>1
      <4>3. PICK q \in Names : Holds(q, older)
        BY <3>3 DEF LinesInv
      <4>4. q \in old
        BY <2>4, <3>1, <4>2, <4>3, OldestExpire DEF Holds
      <4> QED BY <2>1, <4>3, <4>4 DEF Holds
    <3> QED BY <3>2, <3>3
  <2> QED BY <2>1, <2>3, <2>4 DEF CleanInv, CleansOldest
<1>4. CASE \/ Midnight \/ Write \/ Rotate \/ Open \/ WriteFails \/ BootFails \/ Stop
           \/ UNCHANGED vars
  BY <1>1, <1>4 DEF Midnight, Write, Rotate, Open, WriteFails, BootFails, Stop, vars
<1> QED BY <1>2, <1>3, <1>4 DEF Next
-----------------------------------------------------------------------------
(* Theorems                                                                *)

LEMMA WriterInvariant == Spec => []WriterInv
<1>1. Init => WriterInv
  BY WriterInitType, WriterInitRest DEF WriterInv
<1>2. WriterInv /\ [Next]_vars => WriterInv'
  BY WriterNextType, WriterNextClock, WriterNextDir, WriterNextLines, WriterNextOrder,
     WriterNextSize, WriterNextConsole, WriterNextAge, WriterNextClean DEF WriterInv
<1> QED BY <1>1, <1>2, PTL DEF Spec

\* Every variable keeps to its type, and the buffer to its size.
THEOREM WriterTypeCorrect == Spec => []TypeOK
<1>1. WriterInv => TypeOK
  BY DEF WriterInv
<1> QED BY <1>1, WriterInvariant, PTL

\* The files of a day hold its lines in the order they were written, part
\* after part and the current file last, through rotations, restarts and faults.
THEOREM WriterPartsInOrder == Spec => []PartsInOrder
<1>1. WriterInv => PartsInOrder
  BY DEF WriterInv, OrderInv, PartsInOrder, Before
<1> QED BY <1>1, WriterInvariant, PTL

\* A line once in a file stays in exactly one, once, until cleanOld removes it.
THEOREM WriterNothingOverwritten == Spec => []NothingOverwritten
<1>1. ASSUME WriterInv PROVE NothingOverwritten
  <2>t. /\ text \in [Names -> Seq(Line)]
        /\ \A n \in Names : Len(text[n]) \in Nat /\ \A k \in 1 .. Len(text[n]) : text[n][k] \in Nat
    <3>1. text \in [Names -> Seq(Line)]
      BY <1>1 DEF WriterInv, TypeOK, Line
    <3>2. ASSUME NEW n \in Names
          PROVE  Len(text[n]) \in Nat /\ \A k \in 1 .. Len(text[n]) : text[n][k] \in Nat
      <4>1. text[n] \in Seq(Line) /\ Line \subseteq Nat
        BY <3>1 DEF Line
      <4> QED BY <4>1, LenProperties, ElementOfSeq
    <3> QED BY <3>1, <3>2
  <2>r. \A i \in Names : \A k \in 1 .. Len(text[i]) : text[i][k] \in Line
    BY <1>1 DEF WriterInv, LinesInv, TypeOK, Line
  \* No two files and no two places hold one line.
  <2>1. ASSUME NEW n \in Names, NEW m \in Names, NEW k \in 1 .. Len(text[n]),
               NEW l \in 1 .. Len(text[m]), text[n][k] = text[m][l]
        PROVE  n = m /\ k = l
    <3>0. n[1] \in Nat /\ n[2] \in Nat /\ m[1] \in Nat /\ m[2] \in Nat
      BY NameFacts, WriterAssumption
    <3>1. ~Before(n, m) /\ ~Before(m, n)
      BY <1>1, <2>t, <2>1 DEF WriterInv, OrderInv
    <3>2. n = m
      <4>1. n[1] = m[1] /\ n[2] = m[2]
        BY <3>0, <3>1 DEF Before
      <4> QED BY <4>1, NameFacts
    <3>3. k = l
      BY <1>1, <2>t, <2>1, <3>2 DEF WriterInv, OrderInv
    <3> QED BY <3>2, <3>3
  <2>2. ASSUME NEW line \in stored \ cleaned PROVE Cardinality(Places(line)) = 1
    <3>1. PICK n \in Names : \E k \in 1 .. Len(text[n]) : text[n][k] = line
      BY <1>1, <2>2 DEF WriterInv, LinesInv, Holds
    <3>2. PICK k \in 1 .. Len(text[n]) : text[n][k] = line
      BY <3>1
    <3>3. <<n, k>> \in Places(line)
      \* Lines increase, so place k holds a line of number k at least.
      <4>1. ASSUME NEW j \in 1 .. Len(text[n]) PROVE j <= text[n][j]
        <5> DEFINE Low == {i \in 1 .. Len(text[n]) : text[n][i] < i}
        <5>1. CASE Low # {}
          <6>1. PICK i \in Low : \A q \in Low : i <= q
            <7>1. Low \subseteq Nat
              OBVIOUS
            <7> QED BY <5>1, <7>1, LeastNatural
          <6>2. i \in 1 .. Len(text[n]) /\ text[n][i] < i /\ text[n][i] \in Line
            BY <2>r, <6>1
          <6>3. i - 1 \in 1 .. Len(text[n]) /\ i - 1 \notin Low /\ text[n][i - 1] \in Line
            BY <2>r, <2>t, <6>1, <6>2 DEF Line
          <6>4. i - 1 <= text[n][i - 1] /\ text[n][i - 1] < text[n][i]
            <7>1. i - 1 < i /\ i - 1 \in Nat /\ text[n][i - 1] \in Nat
              BY <6>2, <6>3 DEF Line
            <7>2. text[n][i - 1] < text[n][i]
              BY <1>1, <6>2, <6>3, <7>1 DEF WriterInv, OrderInv
            <7>3. i - 1 <= text[n][i - 1]
              BY <6>2, <6>3, <7>1
            <7> QED BY <7>2, <7>3
          <6> QED BY <6>2, <6>3, <6>4 DEF Line
        <5>2. CASE Low = {}
          BY <2>r, <2>t, <5>2 DEF Line
        <5> QED BY <5>1, <5>2
      <4>2. k \in 1 .. MaxLines
        <5>1. k <= text[n][k] /\ text[n][k] \in Line
          BY <2>r, <4>1
        <5> QED BY <2>t, <5>1, WriterAssumption DEF Line
      <4> QED BY <2>t, <3>2, <4>2 DEF Places
    <3>4. \A p \in Places(line) : p = <<n, k>>
      BY <2>1, <2>t, <3>2 DEF Places
    <3>5. Places(line) = {<<n, k>>}
      BY <3>3, <3>4
    <3> QED BY <3>5, FS_Singleton
  <2> QED BY <2>2 DEF NothingOverwritten
<1> QED BY <1>1, WriterInvariant, PTL

\* A file is full at MaxSize, but on a day on which it could not be set aside.
THEOREM WriterSizeIsBounded == Spec => []SizeIsBounded
<1>1. WriterInv => SizeIsBounded
  BY DEF WriterInv, SizeInv
<1> QED BY <1>1, WriterInvariant, PTL

\* cleanOld takes the log from its old end: what it leaves has no gap, unless a
\* file could not be removed.
THEOREM WriterCleansOldest == Spec => []CleansOldest
<1>1. WriterInv => CleansOldest
  BY DEF WriterInv, CleanInv
<1> QED BY <1>1, WriterInvariant, PTL

\* The console shows no line of an instance with log files that is not in one.
THEOREM WriterConsoleLines == Spec => []ConsoleLinesAreFiled
<1>1. WriterInv => ConsoleLinesAreFiled
  BY DEF WriterInv
<1> QED BY <1>1, WriterInvariant, PTL

\* A line is lost only over an open that failed on a day of its Write or earlier that day.
THEOREM WriterLossIsConfined == Spec => LossIsConfined
<1> DEFINE Loss == (Put \/ WriteFails) /\ writer /\ next \notin stored'
                     => (today .. day) \cap badDays' # {}
<1>1. ASSUME WriterInv, [Next]_vars PROVE [Loss]_vars
  <2>t. /\ today \in Nat /\ day \in Nat /\ currentDay \in Nat /\ badDays \subseteq Days
        /\ TypeOK /\ ClockInv
    BY <1>1, NameFacts DEF WriterInv, TypeOK
  <2>1. ASSUME Put, writer, next \notin stored' PROVE (today .. day) \cap badDays' # {}
    <3>1. file = None /\ pc = "put" /\ badDays' = badDays /\ up
      BY <2>t, <2>1 DEF Put, Goto, ClockInv
    <3>2. currentDay \in badDays /\ today <= currentDay /\ currentDay <= day
      BY <2>t, <2>1, <3>1 DEF ClockInv
    <3> QED BY <2>t, <3>1, <3>2
  <2>2. ASSUME WriteFails PROVE (today .. day) \cap badDays' # {}
    <3>1. day \in badDays' /\ today <= day
      BY <2>t, <2>2 DEF WriteFails, OpenFails, Goto, ClockInv
    <3> QED BY <2>t, <3>1
  <2> QED BY <2>1, <2>2
<1>2. WriterInv /\ [Next]_vars => [Loss]_vars
  BY <1>1
<1> HIDE DEF Loss
<1>3. Spec => [][Loss]_vars
  BY <1>2, WriterInvariant, PTL DEF Spec
<1> QED BY <1>3 DEF LossIsConfined, Loss

\* A line is filed under a day on which its Write was under way.
THEOREM WriterDatedByItsWrite == Spec => DatedByItsWrite
<1> DEFINE Dated == Put /\ next \in stored' => file[1] \in today .. day
<1>1. ASSUME WriterInv, [Next]_vars PROVE [Dated]_vars
  <2>t. /\ today \in Nat /\ day \in Nat /\ currentDay \in Days /\ currentDay \in Nat
        /\ next \in Nat /\ TypeOK /\ ClockInv
    <3>1. TypeOK /\ ClockInv
      BY <1>1 DEF WriterInv
    <3>2. today \in Days /\ day \in Days /\ currentDay \in Days /\ next \in Nat
      BY <3>1 DEF TypeOK
    <3> QED BY <3>1, <3>2, NameFacts
  <2>1. ASSUME Put, next \in stored' PROVE file[1] \in today .. day
    <3>1. next \notin stored
      BY <1>1, <2>t DEF WriterInv, LinesInv
    <3>2. writer /\ file # None /\ pc = "put"
      BY <2>1, <3>1 DEF Put, Goto
    <3>3. file[1] = currentDay
      BY <2>t, <3>2, NameFacts DEF ClockInv
    <3>4. today <= currentDay /\ currentDay <= day
      BY <2>t, <3>2 DEF ClockInv
    <3> QED BY <2>t, <3>3, <3>4
  <2> QED BY <2>1
<1>2. WriterInv /\ [Next]_vars => [Dated]_vars
  BY <1>1
<1> HIDE DEF Dated
<1>3. Spec => [][Dated]_vars
  BY <1>2, WriterInvariant, PTL DEF Spec
<1> QED BY <1>3 DEF DatedByItsWrite, Dated
=============================================================================
