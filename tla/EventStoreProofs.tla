-------------------------- MODULE EventStoreProofs --------------------------
(***************************************************************************)
(* Proofs about EventStore, for every number of stores, size of the ring,  *)
(* threshold of the rewrite, and number of events, stops and faults: the   *)
(* types, the refinement of EventHistory, and what a restart recalls.      *)
(***************************************************************************)
EXTENDS EventStore, SequenceTheorems, TLAPS

Event == 1 .. MaxEvents

LEMMA EventFacts == Event \subseteq Nat /\ Cut \notin Event /\ 0 .. MaxEvents = Event \cup {Cut}
BY StoreAssumption DEF Event, Cut
-----------------------------------------------------------------------------
(* Sequences                                                               *)

LEMMA TrimType ==
  ASSUME NEW S, NEW s \in Seq(S), NEW n \in Nat
  PROVE  /\ Trim(s, n) \in Seq(S)
         /\ Len(Trim(s, n)) = IF Len(s) > n THEN n ELSE Len(s)
         /\ \A k \in 1 .. Len(Trim(s, n)) : Trim(s, n)[k] = s[Len(s) - Len(Trim(s, n)) + k]
<1>1. Len(s) \in Nat /\ \A k \in 1 .. Len(s) : s[k] \in S
  BY LenProperties, ElementOfSeq
<1>2. CASE Len(s) > n
  <2>1. Trim(s, n) = SubSeq(s, Len(s) - n + 1, Len(s))
    BY <1>2 DEF Trim, H!Trim
  <2>2. \A k \in Len(s) - n + 1 .. Len(s) : s[k] \in S
    BY <1>1, <1>2
  <2> QED BY <1>1, <1>2, <2>1, <2>2, SubSeqProperties
<1>3. CASE ~(Len(s) > n)
  <2>1. Trim(s, n) = s
    BY <1>3 DEF Trim, H!Trim
  <2> QED BY <1>1, <1>3, <2>1
<1> QED BY <1>2, <1>3

LEMMA TrimIncreasing ==
  ASSUME NEW S, S \subseteq Nat, NEW s \in Seq(S), NEW n \in Nat, H!Increasing(s)
  PROVE  H!Increasing(Trim(s, n))
<1> DEFINE d == Len(s) - Len(Trim(s, n))
<1>1. Len(s) \in Nat /\ Len(Trim(s, n)) \in Nat /\ Len(Trim(s, n)) <= Len(s)
  BY TrimType, LenProperties
<1>2. ASSUME NEW k \in 1 .. Len(Trim(s, n)), NEW l \in 1 .. Len(Trim(s, n)), k < l
      PROVE  Trim(s, n)[k] < Trim(s, n)[l]
  <2>1. d + k \in 1 .. Len(s) /\ d + l \in 1 .. Len(s) /\ d + k < d + l
    BY <1>1, <1>2
  <2>2. s[d + k] < s[d + l]
    BY <2>1 DEF H!Increasing
  <2> QED BY <2>2, TrimType
<1> QED BY <1>2 DEF H!Increasing

LEMMA AppendIncreasing ==
  ASSUME NEW S, S \subseteq Nat, NEW s \in Seq(S), NEW e \in S, H!Increasing(s),
         \A k \in 1 .. Len(s) : s[k] < e
  PROVE  H!Increasing(Append(s, e))
<1>1. Len(s) \in Nat
  BY LenProperties
<1>2. ASSUME NEW k \in 1 .. Len(s) + 1, NEW l \in 1 .. Len(s) + 1, k < l
      PROVE  Append(s, e)[k] < Append(s, e)[l]
  <2>1. k \in 1 .. Len(s) /\ Append(s, e)[k] = s[k]
    BY <1>1, <1>2, AppendProperties
  <2>2. CASE l = Len(s) + 1
    BY <2>1, <2>2, AppendProperties
  <2>3. CASE l # Len(s) + 1
    <3>1. l \in 1 .. Len(s) /\ Append(s, e)[l] = s[l]
      BY <1>1, <2>3, AppendProperties
    <3> QED BY <1>2, <2>1, <3>1 DEF H!Increasing
  <2> QED BY <2>2, <2>3
<1> QED BY <1>2, AppendProperties DEF H!Increasing

LEMMA PrefixIncreasing ==
  ASSUME NEW S, S \subseteq Nat, NEW s \in Seq(S), NEW n \in 0 .. Len(s), H!Increasing(s)
  PROVE  SubSeq(s, 1, n) \in Seq(S) /\ H!Increasing(SubSeq(s, 1, n))
<1>1. Len(s) \in Nat /\ \A k \in 1 .. Len(s) : s[k] \in S
  BY LenProperties, ElementOfSeq
<1>2. /\ SubSeq(s, 1, n) \in Seq(S) /\ Len(SubSeq(s, 1, n)) = n
      /\ \A k \in 1 .. n : SubSeq(s, 1, n)[k] = s[k]
  BY <1>1, SubSeqProperties
<1> QED BY <1>1, <1>2 DEF H!Increasing

LEMMA PrefixValues ==
  ASSUME NEW S, NEW s \in Seq(S), NEW n \in 0 .. Len(s)
  PROVE  Len(SubSeq(s, 1, n)) = n /\ \A k \in 1 .. n : SubSeq(s, 1, n)[k] = s[k]
<1>1. Len(s) \in Nat /\ n \in Nat /\ n <= Len(s)
  BY LenProperties
<1>2. ASSUME NEW k \in 1 .. n PROVE s[k] \in S
  <2>1. k \in 1 .. Len(s)
    BY <1>1
  <2> QED BY <2>1, ElementOfSeq
<1> QED BY <1>1, <1>2, SubSeqProperties

\* A scan yields the events on lines of their own and a last line that parses.
Scan(l, t) == l \o (IF Parses(t) THEN t ELSE << >>)

LEMMA ScanType ==
  ASSUME NEW S, NEW l \in Seq(S), NEW t \in Seq(S \cup {Cut})
  PROVE  /\ Scan(l, t) \in Seq(S)
         /\ Parses(t) => /\ t[1] \in S /\ t = <<t[1]>>
                         /\ Scan(l, t) = l \o t /\ Scan(l, t) = Append(l, t[1])
         /\ ~Parses(t) => Scan(l, t) = l
<1>1. CASE Parses(t)
  <2>0. Len(t) = 1 /\ t[1] # Cut
    BY <1>1 DEF Parses
  <2>1. t[1] \in S \cup {Cut}
    BY <2>0, ElementOfSeq
  <2>2. t = <<t[1]>> /\ t[1] \in S
    BY <2>0, <2>1
  <2>3. Scan(l, t) = l \o t
    BY <1>1 DEF Scan
  <2>4. Append(l, t[1]) = l \o <<t[1]>> /\ Append(l, t[1]) \in Seq(S)
    BY <2>2, AppendIsConcat, AppendProperties
  <2>5. Scan(l, t) = Append(l, t[1])
    BY <2>2, <2>3, <2>4
  <2> QED BY <1>1, <2>2, <2>3, <2>4, <2>5
<1>2. CASE ~Parses(t)
  <2>1. Scan(l, t) = l
    BY <1>2, ConcatEmptySeq DEF Scan
  <2> QED BY <1>2, <2>1
<1> QED BY <1>1, <1>2

LEMMA ParsedType ==
  ASSUME NEW S, NEW i \in Store, lines[i] \in Seq(S), tail[i] \in Seq(S \cup {Cut})
  PROVE  /\ Parsed(i) \in Seq(S)
         /\ Parses(tail[i]) => Parsed(i) = lines[i] \o tail[i]
<1>1. Parsed(i) = Scan(lines[i], tail[i])
  BY DEF Parsed, Scan
<1>2. \A l \in Seq(S), t \in Seq(S \cup {Cut}) :
        Scan(l, t) \in Seq(S) /\ (Parses(t) => Scan(l, t) = l \o t)
  <2>1. ASSUME NEW l \in Seq(S), NEW t \in Seq(S \cup {Cut}) PROVE Scan(l, t) \in Seq(S)
    BY ScanType
  <2>2. ASSUME NEW l, NEW t, Parses(t) PROVE Scan(l, t) = l \o t
    BY <2>2 DEF Scan
  <2> QED BY <2>1, <2>2
<1> QED BY <1>1, <1>2

\* What does not parse: nothing, the beginning of a line, two lines glued.
LEMMA NotParsed ==
  /\ ~Parses(<< >>) /\ ~Parses(<<Cut>>)
  /\ \A S : \A t \in Seq(S), e \in S : t # << >> => ~Parses(Append(t, e))
<1>1. ASSUME NEW S, NEW t \in Seq(S), NEW e \in S, t # << >> PROVE Len(Append(t, e)) # 1
  BY <1>1, AppendProperties, EmptySeq
<1> QED BY <1>1 DEF Parses
\* Nor does a line whose end is missing, whatever it is glued to.
LEMMA CutNotParsed ==
  ASSUME NEW S, NEW t \in Seq(S \cup {Cut})
  PROVE  Append(t, Cut) \in Seq(S \cup {Cut}) /\ ~Parses(Append(t, Cut))
<1>1. /\ Append(t, Cut) \in Seq(S \cup {Cut}) /\ Len(Append(t, Cut)) = Len(t) + 1
      /\ Len(t) \in Nat /\ Append(t, Cut)[Len(t) + 1] = Cut
  BY AppendProperties, LenProperties
<1>2. Len(Append(t, Cut)) = 1 => Append(t, Cut)[1] = Cut
  BY <1>1
<1> QED BY <1>1, <1>2 DEF Parses
-----------------------------------------------------------------------------
(* Types                                                                   *)

\* Add holds the lock with the new event in the ring.
Adding == \A i \in Store : pc[i] = "write" => events[i] # << >>

TypeInv == TypeOK /\ Adding

LEMMA StoreInitType == Init => TypeInv
<1> SUFFICES ASSUME Init PROVE TypeInv
  OBVIOUS
<1> USE StoreAssumption DEF Init
<1>1. \A S : << >> \in Seq(S)
  BY EmptySeq
<1>2. /\ events \in [Store -> Seq(1 .. MaxEvents)] /\ lines \in [Store -> Seq(1 .. MaxEvents)]
      /\ junk \in [Store -> Seq(0 .. MaxEvents)] /\ tail \in [Store -> Seq(0 .. MaxEvents)]
      /\ pc \in [Store -> Labels] /\ \A i \in Store : pc[i] = "down"
  BY <1>1 DEF Labels
<1>3. /\ now \in 0 .. MaxEvents /\ stops \in 0 .. MaxStops /\ faults \in 0 .. MaxFaults
      /\ recorded \in [Store -> SUBSET (1 .. MaxEvents)]
      /\ torn \in [Store -> Nat] /\ failed \in [Store -> Nat]
      /\ dropped \in [Store -> SUBSET (1 .. MaxEvents)]
  OBVIOUS
<1> QED BY <1>2, <1>3 DEF TypeInv, TypeOK, Adding

\* What the console reads are events.
LEMMA ReadType ==
  ASSUME TypeOK, NEW i \in Store
  PROVE  /\ ToSet(Parsed(i)) \subseteq 1 .. MaxEvents
         /\ ToSet(events[i]) \subseteq 1 .. MaxEvents
<1>1. lines[i] \in Seq(Event) /\ tail[i] \in Seq(Event \cup {Cut}) /\ events[i] \in Seq(Event)
  BY EventFacts DEF TypeOK, Event
<1>2. Parsed(i) \in Seq(Event)
  BY <1>1, ParsedType
<1>3. \A s \in Seq(Event) : ToSet(s) \subseteq Event
  BY DEF ToSet
<1> QED BY <1>1, <1>2, <1>3 DEF Event

\* Each step keeps the variables' types.
LEMMA StoreNextType == TypeInv /\ [Next]_vars => TypeInv'
<1> SUFFICES ASSUME TypeInv, [Next]_vars PROVE TypeInv'
  OBVIOUS
<1> USE StoreAssumption
<1>t. TypeOK /\ Adding
  BY DEF TypeInv
<1>f. Fault => faults' \in 0 .. MaxFaults
  BY <1>t DEF Fault, TypeOK
<1>1. ASSUME NEW i \in Store, Add(i) PROVE TypeInv'
  <2>1. now' \in Event /\ now' = now + 1
    BY <1>1, <1>t DEF Add, TypeOK, Event
  <2>2. Append(events[i], now') \in Seq(Event) /\ Append(events[i], now') # << >>
    <3>1. events[i] \in Seq(Event)
      BY <1>t DEF TypeOK, Event
    <3> QED BY <2>1, <3>1, AppendProperties
  <2>3. Trim(Append(events[i], now'), MaxSize) \in Seq(Event) \ {<< >>}
    <3>1. /\ Trim(Append(events[i], now'), MaxSize) \in Seq(Event)
          /\ Len(Trim(Append(events[i], now'), MaxSize)) # 0
      <4>1. /\ Len(Append(events[i], now')) \in Nat \ {0}
            /\ MaxSize \in Nat \ {0}
        BY <2>2, EmptySeq
      <4> QED BY <2>2, <4>1, TrimType
    <3> QED BY <3>1
  <2>4. events' = [events EXCEPT ![i] = Trim(Append(events[i], now'), MaxSize)]
    BY <1>1, <2>1 DEF Add
  <2>5. events' \in [Store -> Seq(Event)] /\ \A j \in Store : j # i => events'[j] = events[j]
    BY <1>t, <2>3, <2>4 DEF TypeOK, Event
  <2>6. recorded' \in [Store -> SUBSET Event]
    BY <1>1, <1>t, <2>1 DEF Add, TypeOK, Event
  <2>7. pc' \in [Store -> Labels] /\ \A j \in Store : j # i => pc'[j] = pc[j]
    BY <1>1, <1>t DEF Add, Goto, TypeOK, Labels
  <2>8. Adding'
    BY <1>t, <2>3, <2>4, <2>5, <2>7 DEF Adding, TypeOK
  <2>9. now' \in 0 .. MaxEvents
    BY <1>t, <2>1 DEF TypeOK, Event
  <2> QED
    BY <1>1, <1>t, <2>5, <2>6, <2>7, <2>8, <2>9
    DEF Add, TypeInv, TypeOK, Event, fileVars, readerVars
<1>2. ASSUME NEW i \in Store,
             \/ WriteLine(i) \/ PersistFails(i) \/ WriteNewline(i) \/ NewlineFails(i)
             \/ Count(i) \/ Truncate(i) \/ RewriteFails(i) \/ FlushPart(i) \/ Flush(i) \/ FlushFails(i)
      PROVE  TypeInv'
  <2>1. events' = events
    BY <1>2
    DEF WriteLine, PersistFails, WriteNewline, NewlineFails, Count, Truncate, RewriteFails,
        FlushPart, Flush, FlushFails, storeVars
  <2>2. pc' \in [Store -> Labels] /\ \A j \in Store : pc'[j] = "write" => pc[j] = "write"
    BY <1>2, <1>t
    DEF WriteLine, PersistFails, WriteNewline, NewlineFails, Count, Truncate, RewriteFails,
        FlushPart, Flush, FlushFails, storeVars, Goto, TypeOK, Labels
  <2>3. Adding'
    BY <1>t, <2>1, <2>2 DEF Adding
  <2>s. events[i] \in Seq(Event) /\ lines[i] \in Seq(Event)
    BY <1>t DEF TypeOK, Event
  <2>t. tail[i] \in Seq(Event \cup {Cut}) /\ junk[i] \in Seq(Event \cup {Cut})
    BY <1>t, EventFacts DEF TypeOK
  <2>4. /\ lines' \in [Store -> Seq(Event)]
        /\ junk' \in [Store -> Seq(Event \cup {Cut})] /\ tail' \in [Store -> Seq(Event \cup {Cut})]
    <3>0. /\ lines \in [Store -> Seq(Event)]
          /\ junk \in [Store -> Seq(Event \cup {Cut})] /\ tail \in [Store -> Seq(Event \cup {Cut})]
      BY <1>t, EventFacts DEF TypeOK, Event
    <3>e. << >> \in Seq(Event) /\ << >> \in Seq(Event \cup {Cut}) /\ <<Cut>> \in Seq(Event \cup {Cut})
      OBVIOUS
    <3>1. CASE WriteLine(i)
      <4>1. pc[i] = "write" /\ events[i] # << >>
        BY <1>t, <3>1 DEF WriteLine, Goto, Adding
      <4>2. Last(events[i]) \in Event
        BY <2>s, <4>1, LenProperties, ElementOfSeq, EmptySeq DEF Last
      <4>3. Append(tail[i], Last(events[i])) \in Seq(Event \cup {Cut})
        BY <2>t, <4>2, AppendProperties
      <4> QED BY <3>0, <3>1, <4>3 DEF WriteLine
    <3>2. CASE WriteNewline(i)
      <4>1. Parses(tail[i]) => lines[i] \o tail[i] \in Seq(Event)
        <5>1. /\ Parsed(i) \in Seq(Event)
              /\ Parses(tail[i]) => Parsed(i) = lines[i] \o tail[i]
          BY <2>s, <2>t, ParsedType
        <5> QED BY <5>1
      <4>2. junk[i] \o tail[i] \in Seq(Event \cup {Cut})
        BY <2>t, ConcatProperties
      <4> QED BY <3>0, <3>2, <3>e, <4>1, <4>2 DEF WriteNewline
    <3>3. CASE Truncate(i)
      BY <3>0, <3>3, <3>e DEF Truncate
    <3>4. CASE FlushPart(i)
      <4>1. \A n \in 0 .. Len(events[i]) - 1 : SubSeq(events[i], 1, n) \in Seq(Event)
        BY <2>s, LenProperties, ElementOfSeq, SubSeqProperties
      <4>2. PICK n \in 0 .. Len(events[i]) - 1 :
              /\ lines' = [lines EXCEPT ![i] = SubSeq(events[i], 1, n)]
              /\ \/ tail' = tail
                 \/ \E piece \in {Cut, events[i][n + 1]} : tail' = [tail EXCEPT ![i] = <<piece>>]
        BY <3>4 DEF FlushPart
      <4>3. junk' = junk
        BY <3>4 DEF FlushPart
      <4>4. events[i][n + 1] \in Event
        <5>1. n + 1 \in 1 .. Len(events[i])
          BY <2>s, LenProperties
        <5> QED BY <2>s, <5>1, ElementOfSeq
      <4>5. \A piece \in {Cut, events[i][n + 1]} : <<piece>> \in Seq(Event \cup {Cut})
        BY <4>4
      <4> QED BY <3>0, <4>1, <4>2, <4>3, <4>5
    <3>5. CASE Flush(i)
      BY <2>s, <3>0, <3>5, <3>e DEF Flush
    <3>6. CASE PersistFails(i)
      <4>1. Append(tail[i], Cut) \in Seq(Event \cup {Cut})
        BY <2>t, AppendProperties
      <4> QED BY <3>0, <3>6, <4>1 DEF PersistFails
    <3>7. CASE NewlineFails(i) \/ Count(i) \/ RewriteFails(i) \/ FlushFails(i)
      BY <3>0, <3>7 DEF NewlineFails, Count, RewriteFails, FlushFails, fileVars
    <3> QED BY <1>2, <3>1, <3>2, <3>3, <3>4, <3>5, <3>6, <3>7
  <2>5. /\ faults' \in 0 .. MaxFaults /\ failed' \in [Store -> Nat] /\ partial' \in BOOLEAN
    <3>1. PersistFails(i) \/ NewlineFails(i) \/ FlushFails(i) => failed' = [failed EXCEPT ![i] = @ + 1]
      BY DEF PersistFails, NewlineFails, FlushFails
    <3>2. ~(PersistFails(i) \/ NewlineFails(i) \/ FlushFails(i)) => failed' = failed
      BY <1>2
      DEF WriteLine, WriteNewline, Count, Truncate, RewriteFails, FlushPart, Flush, historyVars
    <3>3. failed' \in [Store -> Nat]
      <4>1. failed \in [Store -> Nat]
        BY <1>t DEF TypeOK
      <4> QED BY <3>1, <3>2, <4>1
    <3>4. partial' \in BOOLEAN
      BY <1>2, <1>t, Zenon
      DEF WriteLine, PersistFails, WriteNewline, NewlineFails, Count, Truncate, RewriteFails,
          FlushPart, Flush, FlushFails, readerVars, TypeOK
    <3>5. faults' \in 0 .. MaxFaults
      BY <1>2, <1>f, <1>t
      DEF WriteLine, PersistFails, WriteNewline, NewlineFails, Count, Truncate, RewriteFails,
          FlushPart, Flush, FlushFails, TypeOK
    <3> QED BY <3>3, <3>4, <3>5
  <2>6. UNCHANGED <<now, unread, seen, owed, stops, recorded, torn>>
    BY <1>2
    DEF WriteLine, PersistFails, WriteNewline, NewlineFails, Count, Truncate, RewriteFails,
        FlushPart, Flush, FlushFails, readerVars, historyVars
  <2>7. dropped' \in [Store -> SUBSET Event]
    <3>1. dropped \in [Store -> SUBSET Event] /\ ToSet(events[i]) \subseteq Event
      BY <1>t, ReadType DEF TypeOK, Event
    <3>2. FlushFails(i) => dropped' = [dropped EXCEPT ![i] = @ \cup ToSet(events[i])]
      BY DEF FlushFails
    <3>3. ~FlushFails(i) => dropped' = dropped
      BY <1>2
      DEF WriteLine, PersistFails, WriteNewline, NewlineFails, Count, Truncate, RewriteFails,
          FlushPart, Flush, historyVars
    <3> QED BY <3>1, <3>2, <3>3
  <2> QED
    BY <1>t, <2>1, <2>2, <2>3, <2>4, <2>5, <2>6, <2>7, EventFacts DEF TypeInv, TypeOK, Event
<1>3. ASSUME NEW i \in Store, Stop(i) \/ Load(i) \/ LoadFails(i) PROVE TypeInv'
  <2>1. /\ pc' \in [Store -> Labels] /\ \A j \in Store : pc'[j] = "write" => j # i /\ pc[j] = "write"
    BY <1>3, <1>t DEF Stop, Load, LoadFails, Goto, TypeOK, Labels
  <2>2. /\ events' \in [Store -> Seq(Event)] /\ \A j \in Store \ {i} : events'[j] = events[j]
    <3>1. CASE Stop(i)
      BY <1>t, <3>1, EmptySeq DEF Stop, TypeOK, Event
    <3>2. CASE Load(i)
      <4>1. Parsed(i) \in Seq(Event)
        BY <1>t, EventFacts, ParsedType DEF TypeOK, Event
      <4>2. Trim(Parsed(i), MaxSize) \in Seq(Event)
        BY <4>1, TrimType
      <4> QED BY <1>t, <3>2, <4>2 DEF Load, TypeOK, Event
    <3>3. CASE LoadFails(i)
      BY <1>t, <3>3 DEF LoadFails, TypeOK, Event
    <3> QED BY <1>3, <3>1, <3>2, <3>3
  <2>3. Adding'
    BY <1>t, <2>1, <2>2 DEF Adding
  <2>4. torn' \in [Store -> Nat]
    <3>0. torn \in [Store -> Nat]
      BY <1>t DEF TypeOK
    <3>1. Stop(i) => torn' = torn \/ torn' = [torn EXCEPT ![i] = @ + 1]
      BY <3>0 DEF Stop
    <3>2. ~Stop(i) => torn' = torn
      BY <1>3 DEF Load, LoadFails, historyVars
    <3> QED BY <3>0, <3>1, <3>2
  <2>5. stops' \in 0 .. MaxStops /\ faults' \in 0 .. MaxFaults
    <3>1. stops \in 0 .. MaxStops /\ faults \in 0 .. MaxFaults
      BY <1>t DEF TypeOK
    <3>2. CASE Stop(i)
      BY <3>1, <3>2 DEF Stop
    <3>3. CASE Load(i) \/ LoadFails(i)
      BY <1>f, <3>1, <3>3 DEF Load, LoadFails
    <3> QED BY <1>3, <3>2, <3>3
  <2>6. UNCHANGED <<lines, junk, tail, now, unread, seen, owed, partial, recorded, failed, dropped>>
    BY <1>3 DEF Stop, Load, LoadFails, fileVars, readerVars, historyVars
  <2> QED
    BY <1>t, <2>1, <2>2, <2>3, <2>4, <2>5, <2>6 DEF TypeInv, TypeOK, Event
<1>4. ASSUME BeginRead \/ \E i \in Store : ReadFile(i) \/ ReadFails(i) PROVE TypeInv'
  <2>1. UNCHANGED <<events, pc, lines, junk, tail, now, stops, recorded, torn, failed, dropped>>
    BY <1>4 DEF BeginRead, ReadFile, ReadFails, storeVars, fileVars, historyVars
  <2>2. faults' \in 0 .. MaxFaults
    BY <1>4, <1>f, <1>t DEF BeginRead, ReadFile, ReadFails, TypeOK
  <2>3. unread' \subseteq Store /\ seen' \subseteq 1 .. MaxEvents /\ owed' \subseteq 1 .. MaxEvents
    <3>1. CASE BeginRead
      <4>1. \A i \in Store : Settled(i) \subseteq 1 .. MaxEvents
        BY <1>t, ReadType DEF Settled
      <4> QED BY <3>1, <4>1 DEF BeginRead, Newest
    <3>2. ASSUME NEW i \in Store, ReadFile(i) \/ ReadFails(i)
          PROVE  unread' \subseteq Store /\ seen' \subseteq 1 .. MaxEvents /\ owed' \subseteq 1 .. MaxEvents
      BY <1>t, <3>2, ReadType DEF ReadFile, ReadFails, Collect, TypeOK
    <3> QED BY <1>4, <3>1, <3>2
  <2>4. partial' \in BOOLEAN
    BY <1>4, <1>t, Zenon DEF BeginRead, ReadFile, ReadFails, Collect, TypeOK
  <2>5. Adding'
    BY <1>t, <2>1 DEF Adding
  <2> QED
    BY <1>t, <2>1, <2>2, <2>3, <2>4, <2>5 DEF TypeInv, TypeOK
<1>5. CASE UNCHANGED vars
  BY <1>5 DEF vars, TypeInv, TypeOK, Adding
<1> QED BY <1>1, <1>2, <1>3, <1>4, <1>5 DEF Next

\* The types of the store, its file and its reader, whatever ends or fails.
THEOREM StoreTypeCorrect == Spec => []TypeOK
<1>1. TypeInv => TypeOK
  BY DEF TypeInv
<1> QED BY <1>1, StoreInitType, StoreNextType, PTL DEF Spec
-----------------------------------------------------------------------------
(* The refinement of EventHistory                                          *)

\* Ring and file hold recorded events in the order they happened; the event that
\* is being added is later than all that the file holds.
HistoryOf(i) ==
  /\ \A e \in recorded[i] : e <= now
  /\ events[i] \in Seq(recorded[i]) /\ H!Increasing(events[i]) /\ Len(events[i]) <= MaxSize
  /\ pc[i] = "down" => events[i] = << >>
  /\ pc[i] = "write" => \A k \in 1 .. Len(lines[i]) : lines[i][k] < Last(events[i])
  /\ lines[i] \in Seq(recorded[i]) /\ tail[i] \in Seq(recorded[i] \cup {Cut})
  /\ H!Increasing(lines[i]) /\ H!Increasing(Parsed(i))

HistoryInv == \A i \in Store : HistoryOf(i)

StoreInv == TypeInv /\ HistoryInv

LEMMA StoreInvInit == Init => StoreInv
<1> SUFFICES ASSUME Init, NEW i \in Store PROVE HistoryOf(i)
  BY StoreInitType DEF StoreInv, HistoryInv
<1> USE StoreAssumption DEF Init
<1>1. lines[i] = << >> /\ tail[i] = << >> /\ events[i] = << >> /\ recorded[i] = {}
  OBVIOUS
<1>2. ~Parses(tail[i]) /\ Parsed(i) = << >>
  BY <1>1 DEF Parses, Parsed
<1>3. H!Increasing(<< >>)
  BY DEF H!Increasing
<1> QED BY <1>1, <1>2, <1>3 DEF HistoryOf

\* The event just added is the last of the ring.
LEMMA AddedLast ==
  ASSUME TypeOK, NEW i \in Store, Add(i)
  PROVE  /\ events'[i] # << >> /\ Last(events'[i]) = now + 1
         /\ Len(events'[i]) <= MaxSize
         /\ \A S : events[i] \in Seq(S) => events'[i] \in Seq(S \cup {now + 1})
         /\ H!Increasing(events[i]) /\ (\A k \in 1 .. Len(events[i]) : events[i][k] <= now)
              => H!Increasing(events'[i])
<1>1. /\ events[i] \in Seq(Event) /\ now \in Nat /\ now + 1 \in Event
      /\ MaxSize \in Nat \ {0} /\ Event \subseteq Nat
  BY StoreAssumption DEF TypeOK, Add, Event
<1> DEFINE longer == Append(events[i], now + 1)
<1>2. events'[i] = Trim(longer, MaxSize)
  BY DEF Add, TypeOK
<1>3. /\ longer \in Seq(Event) /\ Len(longer) = Len(events[i]) + 1 /\ Len(longer) \in Nat \ {0}
      /\ longer[Len(longer)] = now + 1
  BY <1>1, AppendProperties, LenProperties
<1>4. /\ events'[i] \in Seq(Event) /\ Len(events'[i]) \in 1 .. MaxSize
      /\ Len(events'[i]) <= Len(longer)
      /\ \A k \in 1 .. Len(events'[i]) : events'[i][k] = longer[Len(longer) - Len(events'[i]) + k]
  <2> HIDE DEF longer
  <2>1. MaxSize \in Nat /\ longer \in Seq(Event)
    BY <1>1, <1>3
  <2> DEFINE kept == Trim(longer, MaxSize)
  <2>2. /\ kept \in Seq(Event)
        /\ Len(kept) = IF Len(longer) > MaxSize THEN MaxSize ELSE Len(longer)
        /\ \A k \in 1 .. Len(kept) : kept[k] = longer[Len(longer) - Len(kept) + k]
    BY <2>1, TrimType
  <2> HIDE DEF kept
  <2>3. events'[i] = kept
    BY <1>2 DEF kept
  <2>4. Len(kept) \in 1 .. MaxSize /\ Len(kept) <= Len(longer)
    BY <1>1, <1>3, <2>2
  <2> QED BY <2>2, <2>3, <2>4
<1>5. Last(events'[i]) = now + 1 /\ events'[i] # << >>
  <2> HIDE DEF longer
  <2> DEFINE last == Len(events'[i])
  <2>0. last \in 1 .. last /\ Len(longer) - last + last = Len(longer)
    BY <1>3, <1>4
  <2>1. events'[i][last] = longer[Len(longer)]
    <3> HIDE DEF last
    <3>1. events'[i][last] = longer[Len(longer) - last + last]
      BY <1>4, <2>0 DEF last
    <3> QED BY <2>0, <3>1
  <2> QED BY <1>3, <1>4, <2>1 DEF Last
<1>6. ASSUME NEW S, events[i] \in Seq(S) PROVE events'[i] \in Seq(S \cup {now + 1})
  <2>1. events[i] \in Seq(S \cup {now + 1})
    BY <1>6, SeqMonotonic
  <2>2. longer \in Seq(S \cup {now + 1})
    BY <2>1, AppendProperties
  <2> HIDE DEF longer
  <2> QED BY <1>1, <1>2, <2>2, TrimType
<1>7. ASSUME H!Increasing(events[i]), \A k \in 1 .. Len(events[i]) : events[i][k] <= now
      PROVE  H!Increasing(events'[i])
  <2>0. \A k \in 1 .. Len(events[i]) : events[i][k] \in Nat
    BY <1>1, ElementOfSeq
  <2>1. \A k \in 1 .. Len(events[i]) : events[i][k] < now + 1
    BY <1>1, <1>7, <2>0
  <2>2. H!Increasing(longer)
    BY <1>1, <1>7, <2>1, AppendIncreasing
  <2> HIDE DEF longer
  <2> QED BY <1>1, <1>2, <1>3, <2>2, TrimIncreasing
<1> QED BY <1>4, <1>5, <1>6, <1>7

\* A step of one store leaves the others as they are.
LEMMA HistoryElsewhere ==
  ASSUME NEW j \in Store, HistoryOf(j), now \in Nat, recorded[j] \subseteq Nat, now' \in {now, now + 1},
         events'[j] = events[j], pc'[j] = pc[j], lines'[j] = lines[j], tail'[j] = tail[j],
         recorded'[j] = recorded[j]
  PROVE  HistoryOf(j)'
<1>1. Parsed(j)' = Parsed(j)
  BY DEF Parsed
<1>2. \A e \in recorded'[j] : e <= now'
  BY DEF HistoryOf
<1> QED BY <1>1, <1>2 DEF HistoryOf

\* ScanType for every line and tail, as the next proof wants it.
LEMMA ScanCases ==
  \A S : \A l \in Seq(S), t \in Seq(S \cup {Cut}) :
    /\ Scan(l, t) \in Seq(S)
    /\ Parses(t) => Scan(l, t) = l \o t /\ Scan(l, t) = Append(l, t[1])
    /\ ~Parses(t) => Scan(l, t) = l
<1> TAKE S
<1> TAKE l \in Seq(S), t \in Seq(S \cup {Cut})
<1>1. /\ Scan(l, t) \in Seq(S)
      /\ Parses(t) => /\ t[1] \in S /\ t = <<t[1]>>
                      /\ Scan(l, t) = l \o t /\ Scan(l, t) = Append(l, t[1])
      /\ ~Parses(t) => Scan(l, t) = l
  BY ScanType
<1> QED BY <1>1

LEMMA HistoryStep == StoreInv /\ [Next]_vars => HistoryInv'
<1> SUFFICES ASSUME StoreInv, [Next]_vars, NEW j \in Store PROVE HistoryOf(j)'
  BY DEF HistoryInv
<1> USE StoreAssumption
<1>t. TypeOK /\ Adding /\ HistoryOf(j)
  BY DEF StoreInv, TypeInv, HistoryInv
<1>0. PICK S : S = recorded[j]
  OBVIOUS
<1>c. \A l \in Seq(S), t \in Seq(S \cup {Cut}) :
        /\ Scan(l, t) \in Seq(S)
        /\ Parses(t) => Scan(l, t) = l \o t /\ Scan(l, t) = Append(l, t[1])
        /\ ~Parses(t) => Scan(l, t) = l
  BY ScanCases, Zenon
<1>s. /\ S \subseteq Nat /\ now \in Nat /\ Cut \notin S
      /\ events \in [Store -> Seq(Event)] /\ lines \in [Store -> Seq(Event)]
      /\ tail \in [Store -> Seq(Event \cup {Cut})]
      /\ recorded \in [Store -> SUBSET Event] /\ pc \in [Store -> Labels]
  <2>1. /\ events \in [Store -> Seq(Event)] /\ lines \in [Store -> Seq(Event)]
        /\ tail \in [Store -> Seq(Event \cup {Cut})]
        /\ recorded \in [Store -> SUBSET Event] /\ pc \in [Store -> Labels]
    BY <1>t, EventFacts DEF TypeOK, Event
  <2>2. now \in Nat
    BY <1>t DEF TypeOK
  <2> QED BY <1>0, <2>1, <2>2, EventFacts
<1>h. /\ \A e \in S : e <= now
      /\ events[j] \in Seq(S) /\ H!Increasing(events[j]) /\ Len(events[j]) <= MaxSize
      /\ pc[j] = "down" => events[j] = << >>
      /\ pc[j] = "write" => \A k \in 1 .. Len(lines[j]) : lines[j][k] < Last(events[j])
      /\ lines[j] \in Seq(S) /\ tail[j] \in Seq(S \cup {Cut})
      /\ H!Increasing(lines[j]) /\ H!Increasing(Scan(lines[j], tail[j]))
  BY <1>0, <1>t DEF HistoryOf, Parsed, Scan
<1>p. Parsed(j)' = Scan(lines'[j], tail'[j])
  BY DEF Parsed, Scan
<1>e. /\ << >> \in Seq(S) /\ << >> \in Seq(S \cup {Cut}) /\ <<Cut>> \in Seq(S \cup {Cut})
      /\ H!Increasing(<< >>) /\ Len(<< >>) = 0
  BY DEF H!Increasing
<1>1. ASSUME NEW i \in Store \ {j},
             \/ Add(i) \/ WriteLine(i) \/ PersistFails(i) \/ WriteNewline(i) \/ NewlineFails(i)
             \/ Count(i) \/ Truncate(i) \/ RewriteFails(i) \/ FlushPart(i) \/ Flush(i) \/ FlushFails(i)
             \/ Stop(i) \/ Load(i) \/ LoadFails(i)
      PROVE  HistoryOf(j)'
  <2>1. now' \in {now, now + 1} /\ recorded'[j] = recorded[j]
    BY <1>1, <1>s
    DEF Add, WriteLine, PersistFails, WriteNewline, NewlineFails, Count, Truncate, RewriteFails,
        FlushPart, Flush, FlushFails, Stop, Load, LoadFails, historyVars
  <2>2. events'[j] = events[j] /\ pc'[j] = pc[j]
    BY <1>1, <1>s
    DEF Add, WriteLine, PersistFails, WriteNewline, NewlineFails, Count, Truncate, RewriteFails,
        FlushPart, Flush, FlushFails, Stop, Load, LoadFails, Goto, storeVars
  <2>3. lines'[j] = lines[j] /\ tail'[j] = tail[j]
    BY <1>1, <1>s
    DEF Add, WriteLine, PersistFails, WriteNewline, NewlineFails, Count, Truncate, RewriteFails,
        FlushPart, Flush, FlushFails, Stop, Load, LoadFails, fileVars
  <2> QED BY <1>0, <1>t, <1>s, <2>1, <2>2, <2>3, HistoryElsewhere
<1>2. CASE Add(j)
  <2>1. /\ now' = now + 1 /\ recorded'[j] = S \cup {now + 1} /\ pc'[j] = "write"
        /\ lines' = lines /\ tail' = tail
    BY <1>0, <1>2, <1>s DEF Add, Goto, fileVars
  <2>2. \A k \in 1 .. Len(events[j]) : events[j][k] <= now
    BY <1>0, <1>h, ElementOfSeq
  <2>3. /\ Last(events'[j]) = now + 1 /\ Len(events'[j]) <= MaxSize
        /\ events'[j] \in Seq(S \cup {now + 1}) /\ H!Increasing(events'[j])
    BY <1>2, <1>t, <1>0, <1>h, <2>2, AddedLast
  <2>4. lines[j] \in Seq(S \cup {now + 1}) /\ tail[j] \in Seq(S \cup {now + 1} \cup {Cut})
    BY <1>0, <1>h, SeqMonotonic
  <2>5. \A k \in 1 .. Len(lines[j]) : lines[j][k] < now + 1
    <3>1. \A k \in 1 .. Len(lines[j]) : lines[j][k] \in S
      BY <1>0, <1>h, ElementOfSeq
    <3> QED BY <1>s, <1>0, <1>h, <3>1
  <2>6. \A e \in S \cup {now + 1} : e <= now + 1
    BY <1>s, <1>h
  <2> QED BY <1>0, <1>h, <1>p, <2>1, <2>3, <2>4, <2>5, <2>6 DEF HistoryOf
<1>3. CASE WriteLine(j)
  <2>1. /\ pc[j] = "write" /\ pc'[j] = "newline" /\ tail'[j] = Append(tail[j], Last(events[j]))
        /\ UNCHANGED <<now, recorded, events, lines>>
    BY <1>3, <1>s DEF WriteLine, Goto, historyVars
  <2>2. Last(events[j]) \in S
    <3>1. events[j] # << >>
      BY <1>t, <2>1 DEF Adding
    <3> QED BY <1>0, <1>h, <3>1, LenProperties, ElementOfSeq, EmptySeq DEF Last
  <2>3. tail'[j] \in Seq(S \cup {Cut})
    BY <1>0, <1>h, <2>1, <2>2, AppendProperties
  <2>4. H!Increasing(Scan(lines[j], tail'[j]))
    <3>1. CASE tail[j] = << >>
      <4>1. tail'[j] = <<Last(events[j])>> /\ tail'[j][1] = Last(events[j])
        BY <2>1, <3>1
      <4>2. Scan(lines[j], tail'[j]) \in {lines[j], Append(lines[j], Last(events[j]))}
        BY <1>0, <1>h, <2>3, <4>1, <1>c
      <4>3. H!Increasing(Append(lines[j], Last(events[j])))
        BY <1>s, <1>0, <1>h, <2>1, <2>2, AppendIncreasing
      <4> QED BY <1>0, <1>h, <4>2, <4>3
    <3>2. CASE tail[j] # << >>
      <4>1. ~Parses(tail'[j])
        BY <1>0, <1>h, <2>1, <2>2, <3>2, NotParsed
      <4> QED BY <1>0, <1>h, <2>3, <4>1, <1>c
    <3> QED BY <3>1, <3>2
  <2> QED BY <1>0, <1>h, <1>p, <2>1, <2>3, <2>4 DEF HistoryOf
<1>4. CASE WriteNewline(j)
  <2>1. /\ pc'[j] = "count" /\ tail'[j] = << >> /\ UNCHANGED <<now, recorded, events>>
        /\ lines'[j] = Scan(lines[j], tail[j])
    <3>1. CASE Parses(tail[j])
      BY <1>4, <1>s, <1>0, <1>h, <3>1, <1>c DEF WriteNewline, Goto, historyVars
    <3>2. CASE ~Parses(tail[j])
      BY <1>4, <1>s, <1>0, <1>h, <3>2, <1>c DEF WriteNewline, Goto, historyVars
    <3> QED BY <3>1, <3>2
  <2>2. lines'[j] \in Seq(S)
    BY <1>0, <1>h, <2>1, <1>c
  <2>3. Scan(lines'[j], tail'[j]) = lines'[j]
    <3>1. ~Parses(tail'[j]) /\ tail'[j] \in Seq(S \cup {Cut})
      BY <1>e, <2>1, NotParsed
    <3> QED BY <1>c, <2>2, <3>1
  <2> QED BY <1>0, <1>h, <1>e, <1>p, <2>1, <2>2, <2>3 DEF HistoryOf
<1>5. CASE Truncate(j) \/ Flush(j)
  <2>1. /\ pc'[j] \notin {"down", "write"} /\ UNCHANGED <<now, recorded, events>>
        /\ tail'[j] = << >>
    BY <1>5, <1>s DEF Truncate, Flush, Goto, historyVars
  <2>2. lines'[j] \in Seq(S) /\ H!Increasing(lines'[j])
    <3>1. CASE Truncate(j)
      BY <1>s, <1>e, <3>1 DEF Truncate
    <3>2. CASE Flush(j)
      BY <1>s, <1>0, <1>h, <3>2 DEF Flush
    <3> QED BY <1>5, <3>1, <3>2
  <2>3. tail'[j] \in Seq(S \cup {Cut}) /\ Scan(lines'[j], tail'[j]) = lines'[j]
    <3>1. ~Parses(tail'[j]) /\ tail'[j] \in Seq(S \cup {Cut})
      BY <1>e, <2>1, NotParsed
    <3> QED BY <1>c, <2>2, <3>1
  <2> QED BY <1>0, <1>h, <1>p, <2>1, <2>2, <2>3 DEF HistoryOf
<1>6. CASE FlushPart(j)
  <2>1. /\ pc[j] = "flush" /\ tail[j] = << >> /\ UNCHANGED <<pc, now, recorded, events>>
    BY <1>6 DEF FlushPart, historyVars, storeVars
  <2>2. PICK n \in 0 .. Len(events[j]) - 1 :
          /\ lines'[j] = SubSeq(events[j], 1, n)
          /\ tail'[j] \in {<< >>, <<Cut>>, <<events[j][n + 1]>>}
    BY <1>6, <1>s, <2>1 DEF FlushPart
  <2>3. /\ n \in 0 .. Len(events[j]) /\ n + 1 \in 1 .. Len(events[j]) /\ n + 1 \in 0 .. Len(events[j])
        /\ Len(events[j]) \in Nat
    BY <1>h, LenProperties
  <2>4. events[j] \in Seq(S) /\ H!Increasing(events[j]) /\ S \subseteq Nat
    BY <1>s, <1>h
  <2>5. lines'[j] \in Seq(S) /\ H!Increasing(lines'[j])
    BY <2>2, <2>3, <2>4, PrefixIncreasing
  <2>6. events[j][n + 1] \in S
    BY <2>3, <2>4, ElementOfSeq
  <2>7. tail'[j] \in Seq(S \cup {Cut})
    <3>1. \A e \in S : <<e>> \in Seq(S \cup {Cut})
      OBVIOUS
    <3>2. <<events[j][n + 1]>> \in Seq(S \cup {Cut})
      BY <2>6, <3>1
    <3> QED BY <1>e, <2>2, <3>2
  <2>8. H!Increasing(Scan(lines'[j], tail'[j]))
    <3>1. CASE ~Parses(tail'[j])
      BY <1>c, <2>5, <2>7, <3>1
    <3>2. CASE Parses(tail'[j])
      <4>1. tail'[j] = <<events[j][n + 1]>> /\ tail'[j][1] = events[j][n + 1]
        <5>1. tail'[j] # << >> /\ tail'[j] # <<Cut>>
          BY <3>2, NotParsed
        <5>2. tail'[j] = <<events[j][n + 1]>>
          BY <2>2, <5>1
        <5> QED BY <5>2
      <4>2. Scan(lines'[j], tail'[j]) = Append(SubSeq(events[j], 1, n), events[j][n + 1])
        BY <1>c, <2>2, <2>5, <2>7, <3>2, <4>1
      <4>3. \A k \in 1 .. Len(lines'[j]) : lines'[j][k] < events[j][n + 1]
        <5>1. Len(lines'[j]) = n /\ \A k \in 1 .. n : lines'[j][k] = events[j][k]
          BY <2>2, <2>3, <2>4, PrefixValues
        <5>2. ASSUME NEW k \in 1 .. n PROVE events[j][k] < events[j][n + 1]
          <6>1. k \in 1 .. Len(events[j]) /\ k < n + 1
            BY <2>3
          <6> QED BY <2>3, <2>4, <6>1 DEF H!Increasing
        <5> QED BY <5>1, <5>2
      <4> QED BY <2>2, <2>4, <2>5, <2>6, <4>2, <4>3, AppendIncreasing
    <3> QED BY <3>1, <3>2
  <2>9. pc'[j] = "flush"
    BY <2>1
  <2> QED BY <1>0, <1>h, <1>p, <2>1, <2>5, <2>7, <2>8, <2>9 DEF HistoryOf
<1>7. CASE NewlineFails(j) \/ Count(j) \/ RewriteFails(j) \/ FlushFails(j) \/ LoadFails(j)
  <2>1. /\ pc'[j] \notin {"down", "write"}
        /\ UNCHANGED <<now, recorded, events, lines, tail>>
    BY <1>7, <1>s
    DEF NewlineFails, Count, RewriteFails, FlushFails, LoadFails, Goto, historyVars, fileVars
  <2> QED BY <1>0, <1>h, <1>p, <2>1 DEF HistoryOf
<1>8. CASE PersistFails(j)
  <2>1. /\ pc'[j] \notin {"down", "write"} /\ UNCHANGED <<now, recorded, events, lines>>
        /\ tail'[j] = tail[j] \/ tail'[j] = Append(tail[j], Cut)
    BY <1>8, <1>s DEF PersistFails, Goto
  <2>2. CASE tail'[j] = tail[j]
    BY <1>0, <1>h, <1>p, <2>1, <2>2 DEF HistoryOf
  <2>3. CASE tail'[j] = Append(tail[j], Cut)
    <3>1. tail'[j] \in Seq(S \cup {Cut}) /\ ~Parses(tail'[j])
      BY <1>h, <2>3, CutNotParsed
    <3>2. Scan(lines'[j], tail'[j]) = lines[j]
      BY <1>c, <1>h, <2>1, <3>1
    <3> QED BY <1>0, <1>h, <1>p, <2>1, <3>1, <3>2 DEF HistoryOf
  <2> QED BY <2>1, <2>2, <2>3
<1>9. CASE Stop(j)
  <2>1. /\ pc'[j] = "down" /\ events'[j] = << >>
        /\ UNCHANGED <<now, recorded, lines, tail>>
    BY <1>9, <1>s DEF Stop, fileVars
  <2> QED BY <1>0, <1>h, <1>e, <1>p, <2>1 DEF HistoryOf
<1>10. CASE Load(j)
  <2>1. /\ pc'[j] \in {"truncate", "idle"}
        /\ events'[j] = Trim(Scan(lines[j], tail[j]), MaxSize)
        /\ UNCHANGED <<now, recorded, lines, tail>>
    BY <1>10, <1>s DEF Load, Goto, fileVars, historyVars, Parsed, Scan
  <2>2. Scan(lines[j], tail[j]) \in Seq(S) /\ MaxSize \in Nat
    BY <1>0, <1>h, <1>c
  <2>3. events'[j] \in Seq(S) /\ Len(events'[j]) <= MaxSize
    BY <2>1, <2>2, TrimType, LenProperties
  <2>4. H!Increasing(events'[j])
    <3>1. H!Increasing(Scan(lines[j], tail[j])) /\ S \subseteq Nat
      BY <1>s, <1>h
    <3> QED BY <2>1, <2>2, <3>1, TrimIncreasing
  <2> QED BY <1>0, <1>h, <1>p, <2>1, <2>3, <2>4 DEF HistoryOf
<1>11. CASE BeginRead \/ (\E i \in Store : ReadFile(i) \/ ReadFails(i)) \/ UNCHANGED vars
  <2>1. UNCHANGED <<now, recorded, events, pc, lines, tail>>
    BY <1>11 DEF BeginRead, ReadFile, ReadFails, storeVars, fileVars, historyVars, vars
  <2> QED BY <1>0, <1>t, <1>s, <2>1, HistoryElsewhere
<1> QED
  BY <1>1, <1>2, <1>3, <1>4, <1>5, <1>6, <1>7, <1>8, <1>9, <1>10, <1>11 DEF Next

LEMMA StoreInvariant == Spec => []StoreInv
<1>1. StoreInv /\ [Next]_vars => StoreInv'
  BY StoreNextType, HistoryStep DEF StoreInv
<1> QED BY <1>1, StoreInvInit, PTL DEF Spec

\* Every step of the files, the ring and the reader is one of EventHistory's, or
\* none that a caller of the store could see.
LEMMA StepRefines == StoreInv /\ [Next]_vars => [H!Next]_(H!hvars)
<1> SUFFICES ASSUME StoreInv, [Next]_vars PROVE H!Next \/ UNCHANGED <<recorded, events>>
  BY DEF H!hvars
<1> USE StoreAssumption
<1>t. /\ events \in [Store -> Seq(Event)] /\ recorded \in [Store -> SUBSET Event]
      /\ now \in Nat /\ Event \subseteq Nat /\ HistoryInv
  BY EventFacts DEF StoreInv, TypeInv, TypeOK, Event
<1>1. ASSUME NEW i \in Store, Add(i) PROVE H!Next
  <2>1. /\ recorded' = [recorded EXCEPT ![i] = @ \cup {now + 1}]
        /\ events' = [events EXCEPT ![i] = Trim(Append(@, now + 1), MaxSize)]
    BY <1>1 DEF Add
  <2>2. \A k \in Store : \A f \in recorded[k] : f < now + 1
    <3>1. ASSUME NEW k \in Store, NEW f \in recorded[k] PROVE f <= now /\ f \in Nat
      BY <1>t DEF HistoryInv, HistoryOf
    <3> QED BY <1>t, <3>1
  <2>3. H!Record(i, now + 1) /\ now + 1 \in recorded'[i]
    BY <1>t, <2>1, <2>2 DEF H!Record, Trim
  <2> QED BY <2>3 DEF H!Next
<1>2. ASSUME NEW i \in Store, Stop(i) PROVE H!Next
  BY <1>2 DEF Stop, historyVars, H!Forget, H!Next
<1>3. ASSUME NEW i \in Store, Load(i) PROVE H!Next
  <2>1. /\ events[i] = << >> /\ lines[i] \in Seq(recorded[i])
        /\ tail[i] \in Seq(recorded[i] \cup {Cut}) /\ H!Increasing(Parsed(i))
    BY <1>3, <1>t DEF HistoryInv, HistoryOf, Load, Goto
  <2>2. /\ events' = [events EXCEPT ![i] = Trim(Parsed(i), MaxSize)] /\ recorded' = recorded
        /\ events'[i] = Trim(Parsed(i), MaxSize)
    BY <1>3, <1>t DEF Load, historyVars
  <2>3. PICK S : S = recorded[i]
    OBVIOUS
  <2>4. Parsed(i) \in Seq(S) /\ S \subseteq Nat /\ H!Increasing(Parsed(i)) /\ MaxSize \in Nat
    BY <1>t, <2>1, <2>3, ParsedType
  <2>5. /\ events'[i] \in Seq(S) /\ H!Increasing(events'[i]) /\ Len(events'[i]) <= MaxSize
    <3>1. H!Increasing(Trim(Parsed(i), MaxSize))
      BY <2>4, TrimIncreasing
    <3> QED BY <2>2, <2>4, <3>1, TrimType, LenProperties
  <2>6. H!Recover(i)
    BY <2>1, <2>2, <2>3, <2>5 DEF H!Recover
  <2> QED BY <2>6 DEF H!Next
<1>4. ASSUME NEW i \in Store,
             \/ WriteLine(i) \/ PersistFails(i) \/ WriteNewline(i) \/ NewlineFails(i)
             \/ Count(i) \/ Truncate(i) \/ RewriteFails(i) \/ FlushPart(i) \/ Flush(i) \/ FlushFails(i) \/ LoadFails(i)
      PROVE  UNCHANGED <<recorded, events>>
  BY <1>4
  DEF WriteLine, PersistFails, WriteNewline, NewlineFails, Count, Truncate, RewriteFails,
      FlushPart, Flush, FlushFails, LoadFails, storeVars, historyVars
<1>5. CASE BeginRead \/ (\E i \in Store : ReadFile(i) \/ ReadFails(i)) \/ UNCHANGED vars
  BY <1>5 DEF BeginRead, ReadFile, ReadFails, storeVars, historyVars, vars
<1> QED BY <1>1, <1>2, <1>3, <1>4, <1>5 DEF Next

\* The store recalls what it recorded, in order, each event once, through torn
\* lines, failed appends and rewrites, and restarts.
THEOREM StoreImplementsHistory == Spec => ImplementsHistory
<1>1. Init => H!Init
  BY DEF Init, H!Init
<1>2. StoreInv /\ [Next]_vars => [H!Next]_(H!hvars)
  BY StepRefines
<1> QED BY <1>1, <1>2, StoreInvariant, PTL DEF Spec, ImplementsHistory, H!Spec
-----------------------------------------------------------------------------
(* What a restart recalls                                                  *)

\* The first n of s are the last n of t.
Ends(s, n, t) == n <= Len(t) /\ \A k \in 1 .. n : s[k] = t[Len(t) - n + k]

\* As long as nothing was torn and no write failed: the ring ends the file but for
\* the event that is being added, and a line is unfinished only while it is
\* written.
RingOf(i) == torn[i] = 0 /\ failed[i] = 0 =>
  /\ pc[i] \in {"idle", "count", "truncate"} =>
       tail[i] = << >> /\ Ends(events[i], Len(events[i]), lines[i])
  /\ pc[i] = "write" => tail[i] = << >> /\ Ends(events[i], Len(events[i]) - 1, lines[i])
  /\ pc[i] = "newline" => /\ events[i] # << >> /\ tail[i] = <<Last(events[i])>>
                          /\ Ends(events[i], Len(events[i]) - 1, lines[i])
  /\ pc[i] = "down" => tail[i] = << >>

RingInv == \A i \in Store : RingOf(i)

LEMMA RingInit == Init => RingInv
BY DEF Init, RingInv, RingOf

\* Trimming keeps the end.
LEMMA TrimEnds ==
  ASSUME NEW S, NEW s \in Seq(S), NEW n \in Nat
  PROVE  Ends(Trim(s, n), Len(Trim(s, n)), s)
<1>1. Len(Trim(s, n)) <= Len(s)
  BY TrimType, LenProperties
<1> QED BY <1>1, TrimType DEF Ends

\* What Add appends comes after what ended the file.
LEMMA AddEnds ==
  ASSUME NEW S, NEW s \in Seq(S), NEW l \in Seq(S), NEW e \in S, NEW n \in Nat \ {0},
         Ends(s, Len(s), l)
  PROVE  LET r == Trim(Append(s, e), n) IN Ends(r, Len(r) - 1, l)
<1> DEFINE long == Append(s, e)
           r    == Trim(long, n)
<1>1. /\ long \in Seq(S) /\ Len(long) = Len(s) + 1 /\ Len(s) \in Nat /\ Len(l) \in Nat
      /\ \A k \in 1 .. Len(s) : long[k] = s[k]
  BY AppendProperties, LenProperties
<1>2. /\ Len(r) \in Nat /\ Len(r) >= 1 /\ Len(r) <= Len(long)
      /\ \A k \in 1 .. Len(r) : r[k] = long[Len(long) - Len(r) + k]
  <2> HIDE DEF long
  <2>1. /\ Len(r) = IF Len(long) > n THEN n ELSE Len(long)
        /\ \A k \in 1 .. Len(r) : r[k] = long[Len(long) - Len(r) + k]
    BY <1>1, TrimType
  <2>2. Len(long) \in Nat \ {0} /\ n \in Nat \ {0}
    BY <1>1
  <2> HIDE DEF r
  <2>3. Len(r) \in Nat /\ Len(r) >= 1 /\ Len(r) <= Len(long)
    <3>1. CASE Len(long) > n
      BY <2>1, <2>2, <3>1
    <3>2. CASE ~(Len(long) > n)
      BY <2>1, <2>2, <3>2
    <3> QED BY <3>1, <3>2
  <2> QED BY <2>1, <2>3
<1>3. ASSUME NEW k \in 1 .. Len(r) - 1 PROVE r[k] = l[Len(l) - (Len(r) - 1) + k]
  <2> HIDE DEF long, r
  <2>1. k \in 1 .. Len(r) /\ Len(long) - Len(r) + k \in 1 .. Len(s)
    BY <1>1, <1>2
  <2>2. r[k] = s[Len(long) - Len(r) + k]
    BY <1>1, <1>2, <2>1
  <2>3. s[Len(long) - Len(r) + k] = l[Len(l) - Len(s) + (Len(long) - Len(r) + k)]
    BY <2>1 DEF Ends
  <2>4. Len(l) - Len(s) + (Len(long) - Len(r) + k) = Len(l) - (Len(r) - 1) + k
    BY <1>1, <1>2
  <2> QED BY <2>2, <2>3, <2>4
<1>4. Len(r) - 1 <= Len(l)
  <2> HIDE DEF long, r
  <2> QED BY <1>1, <1>2 DEF Ends
<1> QED BY <1>3, <1>4 DEF Ends

\* A line that is finished adds its event to the end.
LEMMA LineEnds ==
  ASSUME NEW S, NEW s \in Seq(S), NEW l \in Seq(S), s # << >>, Ends(s, Len(s) - 1, l)
  PROVE  Ends(s, Len(s), Append(l, Last(s)))
<1>1. Len(s) \in Nat \ {0} /\ Len(l) \in Nat /\ Last(s) \in S
  BY LenProperties, EmptySeq, ElementOfSeq DEF Last
<1> DEFINE long == Append(l, Last(s))
<1>2. /\ Len(long) = Len(l) + 1 /\ long[Len(l) + 1] = Last(s)
      /\ \A k \in 1 .. Len(l) : long[k] = l[k]
  BY <1>1, AppendProperties
<1>3. ASSUME NEW k \in 1 .. Len(s) PROVE s[k] = long[Len(long) - Len(s) + k]
  <2> HIDE DEF long
  <2>1. CASE k = Len(s)
    BY <1>1, <1>2, <2>1 DEF Last
  <2>2. CASE k # Len(s)
    <3>1. k \in 1 .. Len(s) - 1 /\ Len(l) - (Len(s) - 1) + k \in 1 .. Len(l)
      BY <1>1, <2>2 DEF Ends
    <3>2. s[k] = l[Len(l) - (Len(s) - 1) + k]
      BY <3>1 DEF Ends
    <3>3. Len(long) - Len(s) + k = Len(l) - (Len(s) - 1) + k
      BY <1>1, <1>2
    <3> QED BY <1>2, <3>1, <3>2, <3>3
  <2> QED BY <2>1, <2>2
<1>4. Len(s) <= Len(long)
  <2> HIDE DEF long
  <2> QED BY <1>1, <1>2 DEF Ends
<1> QED BY <1>3, <1>4 DEF Ends

\* The community module's IsSuffix, in terms of indices.
LEMMA EndsIsSuffix ==
  ASSUME NEW S, NEW s \in Seq(S), NEW t \in Seq(S), Ends(s, Len(s), t)
  PROVE  IsSuffix(s, t)
<1> DEFINE rs == Reverse(s)
           rt == Reverse(t)
<1>1. Len(s) \in Nat /\ Len(t) \in Nat /\ Len(s) <= Len(t)
  BY LenProperties DEF Ends
<1>2. /\ rs = [k \in 1 .. Len(s) |-> s[(Len(s) - k) + 1]]
      /\ rt = [k \in 1 .. Len(t) |-> t[(Len(t) - k) + 1]]
  BY DEF Reverse
<1>3. rs \in Seq(S) /\ rt \in Seq(S) /\ Len(rs) = Len(s) /\ Len(rt) = Len(t)
  <2>1. /\ \A k \in 1 .. Len(s) : s[(Len(s) - k) + 1] \in S
        /\ \A k \in 1 .. Len(t) : t[(Len(t) - k) + 1] \in S
    BY <1>1, ElementOfSeq
  <2> QED BY <1>1, <1>2, <2>1
<1>4. \A k \in 1 .. Len(s) : rs[k] = rt[k]
  <2> SUFFICES ASSUME NEW k \in 1 .. Len(s) PROVE rs[k] = rt[k]
    OBVIOUS
  <2>1. (Len(s) - k) + 1 \in 1 .. Len(s) /\ k \in 1 .. Len(t)
    BY <1>1
  <2>2. s[(Len(s) - k) + 1] = t[Len(t) - Len(s) + ((Len(s) - k) + 1)]
    BY <2>1 DEF Ends
  <2>3. Len(t) - Len(s) + ((Len(s) - k) + 1) = (Len(t) - k) + 1
    BY <1>1
  <2> QED BY <1>2, <2>1, <2>2, <2>3
<1> HIDE DEF rs, rt
<1>5. SubSeq(rs, 1, Len(rs)) = rs
  BY <1>3, SubSeqFull
<1>6. /\ SubSeq(rt, 1, Len(rs)) \in Seq(S) /\ Len(SubSeq(rt, 1, Len(rs))) = Len(rs)
      /\ \A k \in 1 .. Len(rs) : SubSeq(rt, 1, Len(rs))[k] = rt[k]
  <2>1. \A k \in 1 .. Len(rs) : rt[k] \in S
    BY <1>1, <1>3, ElementOfSeq
  <2> QED BY <1>1, <1>3, <2>1, SubSeqProperties
<1>7. SubSeq(rt, 1, Len(rs)) = rs
  BY <1>3, <1>4, <1>6, SeqEqual
<1> QED BY <1>1, <1>3, <1>5, <1>7 DEF IsSuffix, IsPrefix, rs, rt

LEMMA RingStep == StoreInv /\ RingInv /\ [Next]_vars => RingInv'
<1> SUFFICES ASSUME StoreInv, RingInv, [Next]_vars, NEW j \in Store,
                    torn'[j] = 0, failed'[j] = 0
             PROVE  RingOf(j)'
  BY DEF RingInv, RingOf
<1> USE StoreAssumption
<1>t. TypeOK /\ Adding /\ RingOf(j) /\ HistoryOf(j)
  BY DEF StoreInv, TypeInv, RingInv, HistoryInv
<1>s. /\ events \in [Store -> Seq(Event)] /\ lines \in [Store -> Seq(Event)]
      /\ tail \in [Store -> Seq(Event \cup {Cut})] /\ pc \in [Store -> Labels]
      /\ torn \in [Store -> Nat] /\ failed \in [Store -> Nat] /\ Cut \notin Event
      /\ events[j] \in Seq(Event) /\ lines[j] \in Seq(Event)
      /\ pc[j] = "down" => events[j] = << >>
  BY <1>t, EventFacts DEF TypeOK, HistoryOf, Event
<1>r. torn[j] = 0 /\ failed[j] = 0 =>
        /\ pc[j] \in {"idle", "count", "truncate"} =>
             tail[j] = << >> /\ Ends(events[j], Len(events[j]), lines[j])
        /\ pc[j] = "write" => tail[j] = << >> /\ Ends(events[j], Len(events[j]) - 1, lines[j])
        /\ pc[j] = "newline" => /\ events[j] # << >> /\ tail[j] = <<Last(events[j])>>
                                /\ Ends(events[j], Len(events[j]) - 1, lines[j])
        /\ pc[j] = "down" => tail[j] = << >>
  BY <1>t DEF RingOf
<1>g. ASSUME pc'[j] \in {"idle", "count", "truncate"}, tail'[j] = << >>,
             Ends(events'[j], Len(events'[j]), lines'[j])
      PROVE  RingOf(j)'
  BY <1>g DEF RingOf
<1>1. ASSUME NEW i \in Store \ {j},
             \/ Add(i) \/ WriteLine(i) \/ PersistFails(i) \/ WriteNewline(i) \/ NewlineFails(i)
             \/ Count(i) \/ Truncate(i) \/ RewriteFails(i) \/ FlushPart(i) \/ Flush(i) \/ FlushFails(i)
             \/ Stop(i) \/ Load(i) \/ LoadFails(i)
      PROVE  RingOf(j)'
  <2>1. events'[j] = events[j] /\ pc'[j] = pc[j]
    BY <1>1, <1>s
    DEF Add, WriteLine, PersistFails, WriteNewline, NewlineFails, Count, Truncate, RewriteFails,
        FlushPart, Flush, FlushFails, Stop, Load, LoadFails, Goto, storeVars
  <2>2. lines'[j] = lines[j] /\ tail'[j] = tail[j]
    BY <1>1, <1>s
    DEF Add, WriteLine, PersistFails, WriteNewline, NewlineFails, Count, Truncate, RewriteFails,
        FlushPart, Flush, FlushFails, Stop, Load, LoadFails, fileVars
  <2>3. torn'[j] = torn[j] /\ failed'[j] = failed[j]
    BY <1>1, <1>s
    DEF Add, WriteLine, PersistFails, WriteNewline, NewlineFails, Count, Truncate, RewriteFails,
        FlushPart, Flush, FlushFails, Stop, Load, LoadFails, historyVars
  <2> QED BY <1>r, <2>1, <2>2, <2>3 DEF RingOf
<1>2. CASE Add(j)
  <2>0. /\ pc[j] = "idle" /\ pc'[j] = "write" /\ UNCHANGED <<torn, failed, lines, tail>>
        /\ events'[j] = Trim(Append(events[j], now + 1), MaxSize)
    BY <1>2, <1>s DEF Add, Goto, fileVars
  <2>n. now + 1 \in Event
    BY <1>2, <1>t, StoreAssumption DEF Add, Event, TypeOK
  <2>1. /\ pc[j] = "idle" /\ pc'[j] = "write" /\ UNCHANGED <<torn, failed, lines, tail>>
        /\ now + 1 \in Event
        /\ events'[j] = Trim(Append(events[j], now + 1), MaxSize)
    BY <2>0, <2>n
  <2>2. tail[j] = << >> /\ Ends(events[j], Len(events[j]), lines[j])
    BY <1>r, <2>1
  <2>3. Ends(events'[j], Len(events'[j]) - 1, lines[j])
    BY <1>s, <2>1, <2>2, AddEnds
  <2> QED BY <2>1, <2>2, <2>3 DEF RingOf
<1>3. CASE WriteLine(j)
  <2>1. /\ pc[j] = "write" /\ pc'[j] = "newline" /\ UNCHANGED <<torn, failed, events, lines>>
        /\ tail'[j] = Append(tail[j], Last(events[j])) /\ events[j] # << >>
    BY <1>3, <1>s, <1>t DEF WriteLine, Goto, historyVars, Adding
  <2>2. tail[j] = << >> /\ Ends(events[j], Len(events[j]) - 1, lines[j])
    BY <1>r, <2>1
  <2>3. tail'[j] = <<Last(events[j])>>
    BY <2>1, <2>2
  <2> QED BY <2>1, <2>2, <2>3 DEF RingOf
<1>4. CASE PersistFails(j) \/ NewlineFails(j) \/ FlushFails(j)
  BY <1>4, <1>s DEF PersistFails, NewlineFails, FlushFails
<1>5. CASE WriteNewline(j)
  <2>1. /\ pc[j] = "newline" /\ pc'[j] = "count" /\ UNCHANGED <<torn, failed, events>>
        /\ tail'[j] = << >>
        /\ Parses(tail[j]) => lines'[j] = lines[j] \o tail[j]
    BY <1>5, <1>s DEF WriteNewline, Goto, historyVars
  <2>2. /\ events[j] # << >> /\ tail[j] = <<Last(events[j])>>
        /\ Ends(events[j], Len(events[j]) - 1, lines[j])
    BY <1>r, <2>1
  <2>3. Last(events[j]) \in Event
    BY <1>s, <2>2, LenProperties, ElementOfSeq, EmptySeq DEF Last
  <2>4. lines'[j] = Append(lines[j], Last(events[j]))
    <3>1. Parses(tail[j])
      BY <1>s, <2>2, <2>3 DEF Parses
    <3>2. Append(lines[j], Last(events[j])) = lines[j] \o <<Last(events[j])>>
      BY <1>s, <2>3, AppendIsConcat
    <3> QED BY <2>1, <2>2, <3>1, <3>2
  <2>5. Ends(events[j], Len(events[j]), lines'[j])
    BY <1>s, <2>2, <2>4, LineEnds
  <2> QED BY <1>g, <2>1, <2>5
<1>6. CASE Count(j) \/ RewriteFails(j)
  <2>1. /\ pc[j] \in {"count", "truncate"} /\ pc'[j] \in {"idle", "truncate"}
        /\ UNCHANGED <<torn, failed, events, lines, tail>>
    BY <1>6, <1>s DEF Count, RewriteFails, Goto, historyVars, fileVars
  <2> QED BY <1>g, <1>r, <2>1
<1>7. CASE Truncate(j) \/ FlushPart(j)
  <2>1. pc'[j] = "flush"
    BY <1>7, <1>s DEF Truncate, FlushPart, Goto, storeVars
  <2> QED BY <2>1 DEF RingOf
<1>8. CASE Flush(j)
  <2>1. pc'[j] = "idle" /\ tail'[j] = << >> /\ events'[j] = events[j] /\ lines'[j] = events[j]
    BY <1>8, <1>s DEF Flush, Goto
  <2>2. Ends(events[j], Len(events[j]), events[j])
    BY <1>s, LenProperties DEF Ends
  <2> QED BY <1>g, <2>1, <2>2
<1>9. CASE Stop(j)
  <2>1. pc'[j] = "down" /\ tail' = tail
    BY <1>9, <1>s DEF Stop, fileVars
  <2>2. tail[j] = << >>
    BY <1>9, <1>s DEF Stop
  <2> QED BY <2>1, <2>2 DEF RingOf
<1>10. CASE Load(j) \/ LoadFails(j)
  <2>1. /\ pc[j] = "down" /\ pc'[j] \in {"idle", "truncate"}
        /\ UNCHANGED <<torn, failed, lines, tail>>
    BY <1>10, <1>s DEF Load, LoadFails, Goto, fileVars, historyVars
  <2>2. tail[j] = << >> /\ tail'[j] = << >>
    BY <1>r, <2>1
  <2>3. Ends(events'[j], Len(events'[j]), lines'[j])
    <3>1. CASE Load(j)
      <4>1. Parsed(j) = lines[j]
        BY <1>s, <2>2, ConcatEmptySeq, NotParsed DEF Parsed
      <4>2. events'[j] = Trim(lines[j], MaxSize)
        BY <1>s, <3>1, <4>1 DEF Load
      <4> QED BY <1>s, <2>1, <4>2, TrimEnds
    <3>2. CASE LoadFails(j)
      <4>1. events'[j] = << >>
        BY <1>s, <2>1, <3>2 DEF LoadFails
      <4>2. Len(lines[j]) \in Nat
        BY <1>s, LenProperties
      <4> QED BY <2>1, <4>1, <4>2 DEF Ends
    <3> QED BY <1>10, <3>1, <3>2
  <2> QED BY <1>g, <2>1, <2>2, <2>3
<1>11. CASE BeginRead \/ (\E i \in Store : ReadFile(i) \/ ReadFails(i)) \/ UNCHANGED vars
  <2>1. UNCHANGED <<events, pc, lines, tail, torn, failed>>
    BY <1>11 DEF BeginRead, ReadFile, ReadFails, storeVars, fileVars, historyVars, vars
  <2> QED BY <1>t, <2>1 DEF RingOf
<1> QED
  BY <1>1, <1>2, <1>3, <1>4, <1>5, <1>6, <1>7, <1>8, <1>9, <1>10, <1>11 DEF Next

\* A restart brings back the ring: while no line was torn and no write of the file
\* failed, the file ends with it whenever no Add is under way.
THEOREM StoreRingIsEndOfFile == Spec => []RingIsEndOfFile
<1>1. StoreInv /\ RingInv => RingIsEndOfFile
  <2> SUFFICES ASSUME StoreInv, RingInv, NEW i \in Store,
                      pc[i] = "idle", torn[i] = 0, failed[i] = 0
               PROVE  IsSuffix(events[i], Parsed(i))
    BY DEF RingIsEndOfFile
  <2>1. events[i] \in Seq(Event) /\ lines[i] \in Seq(Event)
    BY DEF StoreInv, TypeInv, TypeOK, Event
  <2>2. tail[i] = << >> /\ Ends(events[i], Len(events[i]), lines[i])
    BY DEF RingInv, RingOf
  <2>3. Parsed(i) = lines[i]
    BY <2>1, <2>2, ConcatEmptySeq, NotParsed DEF Parsed
  <2> QED BY <2>1, <2>2, <2>3, EndsIsSuffix
<1>2. Init => RingInv
  BY RingInit
<1>3. StoreInv /\ RingInv /\ [Next]_vars => RingInv'
  BY RingStep
<1> QED BY <1>1, <1>2, <1>3, StoreInvariant, PTL DEF Spec
=============================================================================
