--------------------------- MODULE EventFileProofs ---------------------------
(***************************************************************************)
(* More proofs about EventStore: that the console's reading is current,    *)
(* what accidents cost, and that the file does not grow for ever.  They    *)
(* are about cardinalities, and rest on the invariants of                  *)
(* EventStoreProofs.                                                       *)
(***************************************************************************)
EXTENDS EventStoreProofs, FiniteSetTheorems, WellFoundedInduction

\* An invariant of the ring for all three.
LEMMA RingInvariant == Spec => [](StoreInv /\ RingInv)
<1>1. Init => RingInv
  BY RingInit
<1>2. StoreInv /\ RingInv /\ [Next]_vars => RingInv'
  BY RingStep
<1> QED BY <1>1, <1>2, StoreInvariant, PTL DEF Spec

LEMMA PrefixType ==
  ASSUME NEW S, NEW s \in Seq(S), NEW n \in 0 .. Len(s)
  PROVE  SubSeq(s, 1, n) \in Seq(S) /\ Len(SubSeq(s, 1, n)) = n
<1>1. Len(s) \in Nat /\ n \in Nat /\ n <= Len(s)
  BY LenProperties
<1>2. ASSUME NEW k \in 1 .. n PROVE s[k] \in S
  <2>1. k \in 1 .. Len(s)
    BY <1>1
  <2> QED BY <2>1, ElementOfSeq
<1> QED BY <1>1, <1>2, SubSeqProperties

LEMMA LastType ==
  ASSUME NEW S, NEW s \in Seq(S), s # << >>
  PROVE  Last(s) \in S
<1>1. Len(s) \in Nat \ {0}
  BY LenProperties, EmptySeq
<1>2. Len(s) \in 1 .. Len(s)
  BY <1>1
<1>3. s[Len(s)] \in S
  BY <1>2, ElementOfSeq
<1> QED BY <1>3 DEF Last

\* The members of a sequence that ends another, or is lengthened, or begins one.
LEMMA EndsMembers ==
  ASSUME NEW S, NEW s \in Seq(S), NEW t \in Seq(S), Ends(s, Len(s), t)
  PROVE  ToSet(s) \subseteq ToSet(t)
<1>1. Len(s) \in Nat /\ Len(t) \in Nat
  BY LenProperties
<1>2. ASSUME NEW k \in 1 .. Len(s) PROVE \E l \in 1 .. Len(t) : s[k] = t[l]
  <2>1. Len(t) - Len(s) + k \in 1 .. Len(t) /\ s[k] = t[Len(t) - Len(s) + k]
    BY <1>1 DEF Ends
  <2> QED BY <2>1
<1>3. DOMAIN s = 1 .. Len(s) /\ DOMAIN t = 1 .. Len(t)
  BY LenProperties
<1> QED BY <1>2, <1>3 DEF ToSet

LEMMA AppendMembers ==
  ASSUME NEW S, NEW s \in Seq(S), NEW e \in S
  PROVE  ToSet(Append(s, e)) = ToSet(s) \cup {e}
<1>1. /\ Len(s) \in Nat /\ DOMAIN s = 1 .. Len(s) /\ DOMAIN Append(s, e) = 1 .. Len(s) + 1
      /\ Append(s, e)[Len(s) + 1] = e /\ \A k \in 1 .. Len(s) : Append(s, e)[k] = s[k]
  BY AppendProperties, LenProperties
<1>2. \A x : x \in ToSet(s) <=> \E k \in 1 .. Len(s) : s[k] = x
  BY <1>1 DEF ToSet
<1>3. \A x : x \in ToSet(Append(s, e)) <=> \E k \in 1 .. Len(s) + 1 : Append(s, e)[k] = x
  BY <1>1 DEF ToSet
<1>4. 1 .. Len(s) + 1 = (1 .. Len(s)) \cup {Len(s) + 1}
  BY <1>1
<1> QED BY <1>1, <1>2, <1>3, <1>4

\* What a scan of the file finds.
LEMMA ScanMembers ==
  ASSUME NEW l \in Seq(Event), NEW t \in Seq(Event \cup {Cut})
  PROVE  ToSet(Scan(l, t)) = ToSet(l) \cup (IF Parses(t) THEN {t[1]} ELSE {})
<1>1. /\ Parses(t) => t[1] \in Event /\ Scan(l, t) = Append(l, t[1])
      /\ ~Parses(t) => Scan(l, t) = l
  BY ScanType
<1>2. Parses(t) => ToSet(Append(l, t[1])) = ToSet(l) \cup {t[1]}
  BY <1>1, AppendMembers
<1> QED BY <1>1, <1>2
-----------------------------------------------------------------------------
(* The console                                                             *)

\* Every file is free of accidents.
Intact == \A j \in Store : torn[j] = 0 /\ failed[j] = 0

\* What a reading has to show has been read or is in a file yet to be read, and
\* no such file is being rewritten.
ReadInv == ~partial /\ Intact =>
  /\ \A j \in unread : pc[j] # "flush"
  /\ \A e \in owed : e \in seen \/ \E j \in unread : e \in ToSet(Parsed(j))

LEMMA ReadInit == Init => ReadInv
BY DEF Init, ReadInv

\* Of a set, what is not among the newest is older than all of these.
LEMMA NewestAreLatest ==
  ASSUME NEW T \in SUBSET (1 .. MaxEvents), NEW n \in Nat, NEW e \in T, e \notin Newest(n, T),
         NEW f \in Newest(n, T)
  PROVE  f > e
<1> DEFINE Later(x) == {g \in T : g > x}
<1>1. T \subseteq Nat /\ IsFiniteSet(T)
  <2>1. IsFiniteSet(1 .. MaxEvents)
    BY StoreAssumption, FS_Interval
  <2>2. T \in SUBSET (1 .. MaxEvents)
    OBVIOUS
  <2>3. IsFiniteSet(T)
    BY <2>1, <2>2, FS_Subset
  <2> QED BY StoreAssumption, <2>3
<1>2. \A x : IsFiniteSet(Later(x)) /\ Cardinality(Later(x)) \in Nat
  BY <1>1, FS_Subset, FS_CardinalityType
<1>3. f \in T /\ Cardinality(Later(f)) < n /\ ~(Cardinality(Later(e)) < n)
  BY DEF Newest
<1>4. ASSUME ~(f > e) PROVE Later(e) \subseteq Later(f)
  <2>1. e \in Nat /\ f \in Nat /\ f <= e
    BY <1>1, <1>3, <1>4
  <2>2. ASSUME NEW g \in T, g > e PROVE g > f
    BY <1>1, <2>1, <2>2
  <2> QED BY <2>2
<1>5. Later(e) \subseteq Later(f) => Cardinality(Later(e)) <= Cardinality(Later(f))
  BY <1>2, FS_Subset
<1> HIDE DEF Later
<1> QED BY <1>2, <1>3, <1>4, <1>5

LEMMA LeastEvent ==
  ASSUME NEW S, S \subseteq Nat, S # {}
  PROVE  \E x \in S : \A y \in S : x <= y
<1> DEFINE less == OpToRel(<, Nat)
<1>1. IsWellFoundedOn(less, Nat)
  BY NatLessThanWellFounded
<1>2. \A x \in Nat, y \in Nat : y < x => <<y, x>> \in less
  BY DEF OpToRel
<1> HIDE DEF less
<1>3. PICK x \in S : \A y \in S : ~(<<y, x>> \in less)
  BY <1>1, WFMin
<1>4. ASSUME NEW y \in S PROVE x <= y
  <2>1. x \in Nat /\ y \in Nat /\ ~(y < x)
    BY <1>2, <1>3
  <2> QED BY <2>1
<1> QED BY <1>3, <1>4

\* By the distance from the bound.
LEMMA LatestEvent ==
  ASSUME NEW S \in SUBSET (1 .. MaxEvents), S # {}
  PROVE  \E x \in S : \A y \in S : y <= x
<1> DEFINE back == {MaxEvents - x : x \in S}
<1>1. MaxEvents \in Nat /\ \A x \in S : x \in Nat /\ x <= MaxEvents
  BY StoreAssumption
<1>2. back \subseteq Nat /\ back # {}
  <2>1. \A x \in S : MaxEvents - x \in Nat
    BY <1>1
  <2>2. \E x \in S : MaxEvents - x \in back
    OBVIOUS
  <2> QED BY <2>1, <2>2
<1>3. PICK b \in back : \A c \in back : b <= c
  <2> HIDE DEF back
  <2> QED BY <1>2, LeastEvent
<1>4. PICK x \in S : b = MaxEvents - x
  BY <1>3
<1>5. ASSUME NEW y \in S PROVE y <= x
  <2>1. MaxEvents - y \in back
    OBVIOUS
  <2>2. MaxEvents - x <= MaxEvents - y
    BY <1>3, <1>4, <2>1
  <2>3. x \in Nat /\ y \in Nat /\ MaxEvents \in Nat
    BY <1>1
  <2> HIDE DEF back
  <2> QED BY <2>2, <2>3
<1> QED BY <1>5

\* If any of the set is not among the newest n, these are n.
LEMMA NewestAreEnough ==
  ASSUME NEW T \in SUBSET (1 .. MaxEvents), NEW n \in Nat, NEW e \in T, e \notin Newest(n, T)
  PROVE  Cardinality(Newest(n, T)) = n
<1> DEFINE Later(x) == {g \in T : g > x}
           N == Newest(n, T)
<1>1. T \subseteq Nat /\ IsFiniteSet(T)
  <2>1. IsFiniteSet(1 .. MaxEvents)
    BY StoreAssumption, FS_Interval
  <2>2. T \in SUBSET (1 .. MaxEvents)
    OBVIOUS
  <2>3. IsFiniteSet(T)
    BY <2>1, <2>2, FS_Subset
  <2> QED BY StoreAssumption, <2>3
<1>2. N \subseteq T /\ \A x \in T : x \in N <=> Cardinality(Later(x)) < n
  BY DEF Newest
<1>3. ASSUME NEW x \in T, x \notin N, NEW f \in N PROVE f > x
  BY <1>3, NewestAreLatest
<1> HIDE DEF N
<1>4. IsFiniteSet(N) /\ Cardinality(N) \in Nat
  BY <1>1, <1>2, FS_Subset, FS_CardinalityType
<1>5. n <= Cardinality(N)
  <2>1. T \ N \in SUBSET (1 .. MaxEvents) /\ T \ N # {}
    BY DEF N
  <2>2. PICK x \in T \ N : \A y \in T \ N : y <= x
    BY <2>1, LatestEvent
  <2>3. Later(x) = N
    <3>1. ASSUME NEW g \in T, g > x PROVE g \in N
      BY <1>1, <2>2, <3>1
    <3>2. \A g \in N : g > x
      BY <1>3, <2>2
    <3> QED BY <1>2, <3>1, <3>2
  <2>4. ~(Cardinality(N) < n)
    BY <1>2, <2>2, <2>3
  <2> QED BY <1>4, <2>4
<1>6. Cardinality(N) <= n
  <2>1. CASE N = {}
    BY <2>1, FS_EmptySet
  <2>2. CASE N # {}
    <3>1. PICK f \in N : \A g \in N : f <= g
      <4>1. N \subseteq Nat
        BY <1>1, <1>2
      <4> QED BY <2>2, <4>1, LeastEvent
    <3>2. Later(f) = N \ {f}
      <4>1. ASSUME NEW g \in T, g > f PROVE g \in N /\ g # f
        <5>1. g \in Nat /\ f \in Nat /\ ~(f > g)
          BY <1>1, <1>2, <4>1
        <5> QED BY <1>3, <4>1, <5>1
      <4>2. ASSUME NEW g \in N, g # f PROVE g \in T /\ g > f
        <5>1. g \in Nat /\ f \in Nat /\ f <= g
          BY <1>1, <1>2, <3>1
        <5> QED BY <1>2, <4>2, <5>1
      <4> QED BY <4>1, <4>2
    <3>3. Cardinality(Later(f)) < n
      BY <1>2
    <3>4. Cardinality(N \ {f}) = Cardinality(N) - 1
      BY <1>4, FS_RemoveElement
    <3>5. Cardinality(N) - 1 < n
      BY <3>2, <3>3, <3>4
    <3> QED BY <1>4, <3>5
  <2> QED BY <2>1, <2>2
<1>7. Cardinality(N) = n
  BY <1>4, <1>5, <1>6
<1> QED BY <1>7 DEF N

\* Only a rewrite takes events out of an intact file, and it tells.
LEMMA FileGrows ==
  ASSUME StoreInv, RingInv, NEW i \in Store, torn[i] = 0, failed[i] = 0, failed'[i] = 0,
         pc[i] # "flush",
         \/ Add(i) \/ WriteLine(i) \/ PersistFails(i) \/ WriteNewline(i) \/ NewlineFails(i)
         \/ Count(i) \/ RewriteFails(i) \/ FlushPart(i) \/ Flush(i) \/ FlushFails(i)
         \/ Stop(i) \/ Load(i) \/ LoadFails(i)
  PROVE  ToSet(Parsed(i)) \subseteq ToSet(Parsed(i)') /\ pc'[i] # "flush"
<1>t. TypeOK /\ Adding /\ RingOf(i)
  BY DEF StoreInv, TypeInv, RingInv
<1>s. /\ events \in [Store -> Seq(Event)] /\ events[i] \in Seq(Event)
      /\ lines \in [Store -> Seq(Event)] /\ lines[i] \in Seq(Event)
      /\ tail \in [Store -> Seq(Event \cup {Cut})] /\ tail[i] \in Seq(Event \cup {Cut})
      /\ pc \in [Store -> Labels] /\ failed \in [Store -> Nat]
  BY <1>t, EventFacts DEF TypeOK, Event
<1>1. CASE WriteLine(i)
  <2>1. /\ lines'[i] = lines[i] /\ pc'[i] = "newline" /\ pc[i] = "write"
        /\ tail'[i] = Append(tail[i], Last(events[i]))
    BY <1>1, <1>s DEF WriteLine, Goto
  <2>2. tail[i] = << >> /\ events[i] # << >>
    BY <1>t, <2>1 DEF RingOf, Adding
  <2>3. Last(events[i]) \in Event /\ tail'[i] = <<Last(events[i])>>
    BY <1>s, <2>1, <2>2, LastType
  <2>4. Parsed(i) = lines[i]
    BY <1>s, <2>2, ConcatEmptySeq, NotParsed DEF Parsed
  <2>5. Parsed(i)' = lines[i] \o <<Last(events[i])>>
    <3>1. Parses(<<Last(events[i])>>)
      BY <2>3, EventFacts DEF Parses
    <3>2. Parses(tail'[i])
      BY <2>3, <3>1
    <3>3. Parsed(i)' = lines'[i] \o tail'[i]
      BY <3>2 DEF Parsed
    <3> QED BY <2>1, <2>3, <3>3
  <2>6. Parsed(i)' = Append(lines[i], Last(events[i]))
    BY <1>s, <2>3, <2>5, AppendIsConcat
  <2> QED BY <1>s, <2>1, <2>3, <2>4, <2>6, AppendMembers
<1>2. CASE WriteNewline(i)
  <2>1. /\ pc[i] = "newline" /\ pc'[i] = "count" /\ tail'[i] = << >>
        /\ Parses(tail[i]) => lines'[i] = lines[i] \o tail[i]
    BY <1>2, <1>s DEF WriteNewline, Goto
  <2>2. events[i] # << >> /\ tail[i] = <<Last(events[i])>>
    BY <1>t, <2>1 DEF RingOf
  <2>3. Last(events[i]) \in Event
    BY <1>s, <2>2, LastType
  <2>4. Parses(tail[i])
    BY <2>2, <2>3, EventFacts DEF Parses
  <2>5. Parsed(i) = lines'[i]
    BY <2>1, <2>4 DEF Parsed
  <2>6. lines'[i] \in Seq(Event)
    BY <1>s, <2>5, ParsedType
  <2>7. Parsed(i)' = lines'[i]
    BY <2>1, <2>6, ConcatEmptySeq, NotParsed DEF Parsed
  <2> QED BY <2>1, <2>5, <2>7
<1>3. CASE Add(i) \/ Count(i) \/ RewriteFails(i) \/ Stop(i) \/ Load(i) \/ LoadFails(i)
  <2>1. lines' = lines /\ tail' = tail
    BY <1>3 DEF Add, Count, RewriteFails, Stop, Load, LoadFails, fileVars
  <2>2. pc'[i] # "flush"
    BY <1>3, <1>s DEF Add, Count, RewriteFails, Stop, Load, LoadFails, Goto
  <2> QED BY <2>1, <2>2 DEF Parsed
<1>4. ~(PersistFails(i) \/ NewlineFails(i) \/ FlushFails(i))
  BY <1>s DEF PersistFails, NewlineFails, FlushFails
<1> QED BY <1>1, <1>2, <1>3, <1>4 DEF FlushPart, Flush, Goto

LEMMA ReadStep == StoreInv /\ RingInv /\ ReadInv /\ [Next]_vars => ReadInv'
<1> SUFFICES ASSUME StoreInv, RingInv, ReadInv, [Next]_vars, ~partial', Intact' PROVE ReadInv'
  BY DEF ReadInv
<1>t. TypeOK /\ RingInv
  BY DEF StoreInv, TypeInv
<1>s. /\ pc \in [Store -> Labels] /\ lines \in [Store -> Seq(Event)]
      /\ tail \in [Store -> Seq(Event \cup {Cut})] /\ unread \subseteq Store
      /\ torn \in [Store -> Nat] /\ failed \in [Store -> Nat]
  BY <1>t, EventFacts DEF TypeOK, Event
<1>1. ASSUME NEW i \in Store,
             \/ Add(i) \/ WriteLine(i) \/ PersistFails(i) \/ WriteNewline(i) \/ NewlineFails(i)
             \/ Count(i) \/ Truncate(i) \/ RewriteFails(i) \/ FlushPart(i) \/ Flush(i) \/ FlushFails(i)
             \/ Stop(i) \/ Load(i) \/ LoadFails(i)
      PROVE  ReadInv'
  <2>1. UNCHANGED <<unread, seen, owed>> /\ ~partial /\ (Truncate(i) => i \notin unread)
    <3>1. UNCHANGED <<unread, seen, owed>>
      BY <1>1
      DEF Add, WriteLine, PersistFails, WriteNewline, NewlineFails, Count, Truncate, RewriteFails,
          FlushPart, Flush, FlushFails, Stop, Load, LoadFails, readerVars
    <3>2. CASE Truncate(i)
      BY <3>1, <3>2, Zenon DEF Truncate
    <3>3. CASE ~Truncate(i)
      <4>1. partial' = partial
        BY <1>1, <3>3
        DEF Add, WriteLine, PersistFails, WriteNewline, NewlineFails, Count, RewriteFails,
            FlushPart, Flush, FlushFails, Stop, Load, LoadFails, readerVars
      <4> QED BY <3>1, <3>3, <4>1
    <3> QED BY <3>2, <3>3
  <2>2. \A j \in Store : torn'[j] = 0 /\ failed'[j] = 0 => torn[j] = 0 /\ failed[j] = 0
    <3>1. torn' = torn \/ (torn' = [torn EXCEPT ![i] = @ + 1])
      BY <1>1, <1>s
      DEF Add, WriteLine, PersistFails, WriteNewline, NewlineFails, Count, Truncate, RewriteFails,
          FlushPart, Flush, FlushFails, Stop, Load, LoadFails, historyVars
    <3>2. failed' = failed \/ (failed' = [failed EXCEPT ![i] = @ + 1])
      BY <1>1, <1>s
      DEF Add, WriteLine, PersistFails, WriteNewline, NewlineFails, Count, Truncate, RewriteFails,
          FlushPart, Flush, FlushFails, Stop, Load, LoadFails, historyVars
    <3> QED BY <1>s, <3>1, <3>2
  <2>3. Intact
    BY <2>2 DEF Intact
  <2>4. /\ \A j \in unread : pc[j] # "flush"
        /\ \A e \in owed : e \in seen \/ \E j \in unread : e \in ToSet(Parsed(j))
    BY <2>1, <2>3 DEF ReadInv
  <2>5. \A j \in Store \ {i} : pc'[j] = pc[j] /\ lines'[j] = lines[j] /\ tail'[j] = tail[j]
    <3>1. \A j \in Store \ {i} : pc'[j] = pc[j]
      BY <1>1, <1>s
      DEF Add, WriteLine, PersistFails, WriteNewline, NewlineFails, Count, Truncate, RewriteFails,
          FlushPart, Flush, FlushFails, Stop, Load, LoadFails, Goto, storeVars
    <3>2. \A j \in Store \ {i} : lines'[j] = lines[j] /\ tail'[j] = tail[j]
      BY <1>1, <1>s
      DEF Add, WriteLine, PersistFails, WriteNewline, NewlineFails, Count, Truncate, RewriteFails,
          FlushPart, Flush, FlushFails, Stop, Load, LoadFails, fileVars
    <3> QED BY <3>1, <3>2
  <2>6. ASSUME NEW j \in unread
        PROVE  ToSet(Parsed(j)) \subseteq ToSet(Parsed(j)') /\ pc'[j] # "flush"
    <3>1. CASE j = i
      <4>1. /\ pc[i] # "flush" /\ torn[i] = 0 /\ failed[i] = 0 /\ failed'[i] = 0
            /\ ~Truncate(i)
        BY <2>1, <2>3, <2>4, <3>1 DEF Intact
      <4> QED BY <1>1, <1>t, <3>1, <4>1, FileGrows
    <3>2. CASE j # i
      BY <1>s, <2>4, <2>5, <3>2 DEF Parsed
    <3> QED BY <3>1, <3>2
  <2> QED BY <2>1, <2>4, <2>6 DEF ReadInv
<1>2. CASE BeginRead
  <2>1. /\ unread' = Store /\ seen' = {} /\ owed' = Newest(Shown, UNION {Settled(i) : i \in Store})
        /\ \A i \in Store : pc[i] # "flush"
        /\ UNCHANGED <<pc, events, lines, tail, torn, failed>>
    BY <1>2 DEF BeginRead, storeVars, fileVars, historyVars
  <2>2. ASSUME NEW j \in Store PROVE Settled(j) \subseteq ToSet(Parsed(j))
    <3>0. SUFFICES ASSUME pc[j] = "idle" PROVE ToSet(events[j]) \subseteq ToSet(Parsed(j))
      BY DEF Settled
    <3>1. torn[j] = 0 /\ failed[j] = 0 /\ events[j] \in Seq(Event) /\ lines[j] \in Seq(Event)
      BY <1>t, <2>1 DEF Intact, TypeOK, Event
    <3>2. tail[j] = << >> /\ Ends(events[j], Len(events[j]), lines[j])
      BY <1>t, <3>0, <3>1 DEF RingInv, RingOf
    <3>3. Parsed(j) = lines[j]
      BY <3>1, <3>2, ConcatEmptySeq, NotParsed DEF Parsed
    <3> QED BY <3>1, <3>2, <3>3, EndsMembers
  <2>3. \A j \in Store : Parsed(j)' = Parsed(j)
    BY <2>1 DEF Parsed
  <2>4. \A e \in owed' : \E j \in Store : e \in Settled(j)
    BY <2>1 DEF Newest
  <2> QED BY <2>1, <2>2, <2>3, <2>4 DEF ReadInv
<1>3. ASSUME NEW i \in Store, ReadFile(i) \/ ReadFails(i) PROVE ReadInv'
  <2>1. UNCHANGED <<pc, lines, tail, torn, failed>>
    BY <1>3 DEF ReadFile, ReadFails, storeVars, fileVars, historyVars
  <2>2. CASE unread = {i}
    <3>1. unread' = {} /\ owed' = {}
      BY <1>3, <2>2 DEF ReadFile, ReadFails, Collect
    <3> QED BY <3>1 DEF ReadInv
  <2>3. CASE unread # {i}
    <3>1. /\ unread' = unread \ {i} /\ owed' = owed /\ ~partial
          /\ seen' = seen \cup ToSet(Parsed(i))
      BY <1>3, <2>3 DEF ReadFile, ReadFails, Collect
    <3>2. Intact
      BY <2>1 DEF Intact
    <3>3. /\ \A j \in unread : pc[j] # "flush"
          /\ \A e \in owed : e \in seen \/ \E j \in unread : e \in ToSet(Parsed(j))
      BY <3>1, <3>2 DEF ReadInv
    <3>4. \A j \in Store : Parsed(j)' = Parsed(j)
      BY <2>1 DEF Parsed
    <3>5. ASSUME NEW e \in owed' PROVE e \in seen' \/ \E j \in unread' : e \in ToSet(Parsed(j)')
      BY <1>s, <3>1, <3>3, <3>4
    <3> QED BY <2>1, <3>1, <3>3, <3>5 DEF ReadInv
  <2> QED BY <2>2, <2>3
<1>4. CASE UNCHANGED vars
  BY <1>4 DEF vars, ReadInv, Intact, Parsed
<1> QED BY <1>1, <1>2, <1>3, <1>4 DEF Next

\* A console that reads intact files, none of them being rewritten, misses none of
\* the latest events the instances had recorded before, unless it shows as many as
\* it asks for, all of them later.
THEOREM StoreConsoleIsCurrent == Spec => ConsoleIsCurrent
<1> DEFINE Current == \A i \in Store :
             /\ ReadFile(i) /\ unread = {i} /\ ~partial
             /\ \A j \in Store : torn[j] = 0 /\ failed[j] = 0
             => \A e \in owed : \/ e \in recentEvents(i)
                                \/ /\ Cardinality(recentEvents(i)) = Shown
                                   /\ \A f \in recentEvents(i) : f > e
<1>1. StoreInv /\ ReadInv => Current
  <2> SUFFICES ASSUME StoreInv, ReadInv, NEW i \in Store, unread = {i}, ~partial, Intact,
                      NEW e \in owed, e \notin recentEvents(i)
               PROVE  /\ Cardinality(recentEvents(i)) = Shown
                      /\ \A f \in recentEvents(i) : f > e
    BY DEF Intact
  <2>1. e \in seen \cup ToSet(Parsed(i))
    BY DEF ReadInv
  <2>2. seen \cup ToSet(Parsed(i)) \in SUBSET (1 .. MaxEvents)
    <3>1. TypeOK
      BY DEF StoreInv, TypeInv
    <3> QED BY <3>1, ReadType DEF TypeOK
  <2>3. Cardinality(recentEvents(i)) = Shown
    BY <2>1, <2>2, StoreAssumption, NewestAreEnough DEF recentEvents
  <2>4. \A f \in recentEvents(i) : f > e
    BY <2>1, <2>2, StoreAssumption, NewestAreLatest DEF recentEvents
  <2> QED BY <2>3, <2>4
<1>2. Init => ReadInv
  BY ReadInit
<1>3. StoreInv /\ RingInv /\ ReadInv /\ [Next]_vars => ReadInv'
  BY ReadStep
<1> HIDE DEF Current
<1>4. Spec => [][Current]_vars
  BY <1>1, <1>2, <1>3, RingInvariant, PTL DEF Spec
<1> QED BY <1>4 DEF ConsoleIsCurrent, Current
-----------------------------------------------------------------------------
(* Bytes                                                                   *)

Places(s) == {b \in (1 .. Len(s)) \X (1 .. MaxLine) : b[2] <= Size(s[b[1]])}

LEMMA SizeRange == \A e \in 0 .. MaxEvents : Size(e) \in 1 .. MaxLine
BY StoreAssumption DEF Size, Cut

LEMMA IntervalSize ==
  ASSUME NEW k \in Nat
  PROVE  IsFiniteSet(1 .. k) /\ Cardinality(1 .. k) = k
<1>1. /\ IsFiniteSet(1 .. k)
      /\ Cardinality(1 .. k) = IF 1 > k THEN 0 ELSE k - 1 + 1
  BY FS_Interval
<1> QED BY <1>1

LEMMA PlacesFinite ==
  ASSUME NEW s \in Seq(0 .. MaxEvents)
  PROVE  /\ IsFiniteSet(Places(s)) /\ Cardinality(Places(s)) \in Nat
         /\ Cardinality(Places(s)) <= Len(s) * MaxLine
<1>1. Len(s) \in Nat /\ MaxLine \in Nat
  BY StoreAssumption, LenProperties
<1>2. /\ IsFiniteSet(1 .. Len(s)) /\ Cardinality(1 .. Len(s)) = Len(s)
      /\ IsFiniteSet(1 .. MaxLine) /\ Cardinality(1 .. MaxLine) = MaxLine
  BY <1>1, IntervalSize
<1> DEFINE all == (1 .. Len(s)) \X (1 .. MaxLine)
<1>3. IsFiniteSet(all) /\ Cardinality(all) = Len(s) * MaxLine
  <2>1. Cardinality(all) = Cardinality(1 .. Len(s)) * Cardinality(1 .. MaxLine)
    BY <1>2, FS_Product
  <2> QED BY <1>2, <2>1, FS_Product
<1>4. Places(s) \in SUBSET all
  BY DEF Places
<1> HIDE DEF all
<1> QED BY <1>3, <1>4, FS_Subset, FS_CardinalityType

\* A file has a byte for each line at least, and MaxLine of them at most.
LEMMA BytesBounds ==
  ASSUME NEW s \in Seq(0 .. MaxEvents)
  PROVE  Bytes(s) \in Nat /\ Len(s) <= Bytes(s) /\ Bytes(s) <= Len(s) * MaxLine
<1>1. Bytes(s) = Cardinality(Places(s))
  BY DEF Bytes, Places
<1>2. Len(s) \in Nat /\ IsFiniteSet(1 .. Len(s)) /\ Cardinality(1 .. Len(s)) = Len(s)
  BY LenProperties, IntervalSize
<1> DEFINE first == [k \in 1 .. Len(s) |-> <<k, 1>>]
<1>3. \A k \in 1 .. Len(s) : Size(s[k]) \in 1 .. MaxLine
  BY SizeRange, ElementOfSeq
<1>4. \A k \in 1 .. Len(s) : <<k, 1>> \in Places(s)
  BY <1>3, StoreAssumption DEF Places
<1>5. first \in Injection(1 .. Len(s), Places(s))
  BY <1>4 DEF Injection, IsInjective
<1> HIDE DEF first
<1>6. Cardinality(1 .. Len(s)) <= Cardinality(Places(s))
  BY <1>5, PlacesFinite, FS_Injection
<1> QED BY <1>1, <1>2, <1>6, PlacesFinite

LEMMA BytesConcat ==
  ASSUME NEW s \in Seq(0 .. MaxEvents), NEW t \in Seq(0 .. MaxEvents)
  PROVE  Bytes(s \o t) = Bytes(s) + Bytes(t)
<1> DEFINE n == Len(s)
           shifted == {b \in (n + 1 .. n + Len(t)) \X (1 .. MaxLine) : b[2] <= Size(t[b[1] - n])}
           shift == [b \in Places(t) |-> <<b[1] + n, b[2]>>]
<1>1. n \in Nat /\ Len(t) \in Nat
  BY LenProperties
<1>2. /\ s \o t \in Seq(0 .. MaxEvents) /\ Len(s \o t) = n + Len(t)
      /\ \A k \in 1 .. n + Len(t) : (s \o t)[k] = IF k <= n THEN s[k] ELSE t[k - n]
  BY <1>1, ConcatProperties
<1>3. Places(s \o t) = Places(s) \cup shifted
  BY <1>1, <1>2 DEF Places
<1>4. Places(s) \cap shifted = {}
  BY <1>1 DEF Places
<1>5. ExistsBijection(Places(t), shifted)
  <2>1. \A b \in Places(t) : b = <<b[1], b[2]>> /\ b[1] \in 1 .. Len(t) /\ b[2] \in 1 .. MaxLine
    BY DEF Places
  <2>2. shift \in [Places(t) -> shifted]
    BY <1>1, <2>1 DEF Places
  <2>3. \A b, c \in Places(t) : shift[b] = shift[c] => b = c
    BY <1>1, <2>1
  <2>4. ASSUME NEW c \in shifted PROVE \E b \in Places(t) : shift[b] = c
    <3>1. /\ c = <<c[1], c[2]>> /\ c[1] \in n + 1 .. n + Len(t) /\ c[2] \in 1 .. MaxLine
          /\ c[2] <= Size(t[c[1] - n])
      OBVIOUS
    <3>2. <<c[1] - n, c[2]>> \in Places(t)
      BY <1>1, <3>1 DEF Places
    <3>3. shift[<<c[1] - n, c[2]>>] = <<c[1], c[2]>>
      BY <1>1, <3>1, <3>2
    <3> QED BY <3>1, <3>2, <3>3
  <2>5. shift \in Bijection(Places(t), shifted)
    BY <2>2, <2>3, <2>4 DEF Bijection, Injection, Surjection, IsInjective
  <2> QED BY <2>5 DEF ExistsBijection
<1> HIDE DEF shifted, shift
<1>6. IsFiniteSet(shifted) /\ Cardinality(shifted) = Cardinality(Places(t))
  BY <1>5, PlacesFinite, FS_Bijection
<1>7. Cardinality(Places(s \o t)) = Cardinality(Places(s)) + Cardinality(shifted)
  <2>1. Cardinality(Places(s) \cup shifted)
          = Cardinality(Places(s)) + Cardinality(shifted) - Cardinality(Places(s) \cap shifted)
    BY <1>6, PlacesFinite, FS_Union
  <2>2. Cardinality(Places(s) \cap shifted) = 0
    BY <1>4, FS_EmptySet
  <2> QED BY <1>3, <1>6, <2>1, <2>2, PlacesFinite
<1> QED BY <1>6, <1>7 DEF Bytes, Places

\* One more piece of a line takes a byte at least and a line at most.
LEMMA BytesAppend ==
  ASSUME NEW s \in Seq(0 .. MaxEvents), NEW e \in 0 .. MaxEvents
  PROVE  Bytes(Append(s, e)) \in Nat /\ Bytes(Append(s, e)) <= Bytes(s) + MaxLine
<1>1. <<e>> \in Seq(0 .. MaxEvents) /\ Len(<<e>>) = 1
  OBVIOUS
<1>2. Append(s, e) = s \o <<e>>
  BY AppendIsConcat
<1>3. Bytes(<<e>>) \in Nat /\ Bytes(<<e>>) <= MaxLine
  <2>1. Bytes(<<e>>) \in Nat /\ Bytes(<<e>>) <= Len(<<e>>) * MaxLine
    BY <1>1, BytesBounds
  <2>2. Len(<<e>>) * MaxLine = MaxLine
    BY <1>1, StoreAssumption
  <2> QED BY <2>1, <2>2
<1>4. Bytes(Append(s, e)) = Bytes(s) + Bytes(<<e>>)
  BY <1>1, <1>2, BytesConcat
<1>5. Bytes(s) \in Nat
  BY BytesBounds
<1> QED BY <1>3, <1>4, <1>5, StoreAssumption

LEMMA BytesEmpty == Bytes(<< >>) = 0
<1>1. << >> \in Seq(0 .. MaxEvents) /\ Len(<< >>) = 0
  OBVIOUS
<1>2. Bytes(<< >>) \in Nat /\ Bytes(<< >>) <= 0 * MaxLine
  BY <1>1, BytesBounds
<1> QED BY <1>2, StoreAssumption

\* What the estimate says of a file, from what it says of a ring.
LEMMA EstimateBounds ==
  ASSUME NEW f \in Nat, NEW b \in Nat, NEW l \in Nat \ {0}, NEW w \in Nat, NEW r \in Nat,
         l <= b, b <= l * w, f \div (b \div l) < r
  PROVE  f < r * w
<1> DEFINE m == b \div l
           q == f \div m
<1>1. m \in Nat \ {0} /\ l * m <= b
  <2>1. m \in Nat /\ l * m <= b /\ b < l * m + l
    OBVIOUS
  <2>2. m # 0
    BY <2>1
  <2> QED BY <2>1, <2>2
<1>2. m <= w
  <2> HIDE DEF m
  <2>1. l * m <= l * w
    BY <1>1
  <2> QED BY <1>1, <2>1
<1>3. q \in Nat /\ q < r /\ f < m * q + m
  <2>1. q < r
    OBVIOUS
  <2> HIDE DEF m
  <2>2. q \in Nat /\ f < m * q + m
    BY <1>1
  <2> QED BY <2>1, <2>2
<1> HIDE DEF m, q
<1>4. m * q + m <= m * r
  BY <1>1, <1>3
<1>5. m * r <= w * r
  BY <1>1, <1>2
<1>6. w * r = r * w /\ w * r \in Nat /\ m * r \in Nat /\ m * q + m \in Nat
  BY <1>1, <1>3
<1> QED BY <1>3, <1>4, <1>5, <1>6
-----------------------------------------------------------------------------
(* The file does not grow for ever                                         *)

\* What n rewrites that were missed may leave.
Bound(n) == (RewriteAt + n) * MaxLine

LEMMA BoundGrows ==
  ASSUME NEW n \in Nat
  PROVE  /\ Bound(n) \in Nat /\ Bound(n + 1) = Bound(n) + MaxLine
         /\ MaxSize * MaxLine < Bound(n) /\ RewriteAt * MaxLine <= Bound(n)
<1>1. /\ RewriteAt \in Nat /\ MaxLine \in Nat \ {0} /\ MaxSize \in Nat /\ MaxSize < RewriteAt
  BY StoreAssumption
<1>2. (RewriteAt + n + 1) * MaxLine = (RewriteAt + n) * MaxLine + MaxLine
  BY <1>1
<1>3. MaxSize * MaxLine < (RewriteAt + n) * MaxLine
  BY <1>1
<1>4. RewriteAt * MaxLine <= (RewriteAt + n) * MaxLine
  BY <1>1
<1>5. (RewriteAt + n) * MaxLine \in Nat
  BY <1>1
<1> QED BY <1>1, <1>2, <1>3, <1>4, <1>5 DEF Bound

\* The bound, a line more from the append to the count that may ask for a
\* rewrite, and no more than the ring while it is written.
GrowthOf(i) ==
  /\ pc[i] \in {"idle", "write", "down"} => FileSize(i) < Bound(faults + stops)
  /\ pc[i] \in {"newline", "count"} => events[i] # << >>
  /\ pc[i] \in {"newline", "count", "truncate"} => FileSize(i) < Bound(faults + stops) + MaxLine
  /\ pc[i] = "flush" => junk[i] = << >> /\ FileSize(i) <= MaxSize * MaxLine

GrowthInv == \A i \in Store : GrowthOf(i)

LEMMA GrowthInit == Init => GrowthInv
<1> SUFFICES ASSUME Init, NEW i \in Store PROVE GrowthOf(i)
  BY DEF GrowthInv
<1>1. pc[i] = "down" /\ FileSize(i) = 0 /\ faults + stops = 0
  BY BytesEmpty DEF Init, FileSize
<1>2. 0 < Bound(0)
  BY BoundGrows, StoreAssumption
<1> QED BY <1>1, <1>2 DEF GrowthOf

LEMMA BoundMonotone ==
  ASSUME NEW n \in Nat, NEW m \in Nat, n <= m
  PROVE  Bound(n) <= Bound(m)
<1>1. RewriteAt \in Nat /\ MaxLine \in Nat
  BY StoreAssumption
<1>2. (RewriteAt + n) * MaxLine <= (RewriteAt + m) * MaxLine
  BY <1>1
<1> QED BY <1>2 DEF Bound

LEMMA FileTypes ==
  ASSUME TypeOK, NEW i \in Store
  PROVE  /\ lines[i] \in Seq(0 .. MaxEvents) /\ junk[i] \in Seq(0 .. MaxEvents)
         /\ tail[i] \in Seq(0 .. MaxEvents) /\ events[i] \in Seq(0 .. MaxEvents)
         /\ Bytes(lines[i]) \in Nat /\ Bytes(junk[i]) \in Nat /\ Bytes(tail[i]) \in Nat
         /\ FileSize(i) \in Nat
<1>1. lines[i] \in Seq(1 .. MaxEvents) /\ events[i] \in Seq(1 .. MaxEvents)
  BY DEF TypeOK
<1>2. 1 .. MaxEvents \subseteq 0 .. MaxEvents
  OBVIOUS
<1>3. lines[i] \in Seq(0 .. MaxEvents) /\ events[i] \in Seq(0 .. MaxEvents)
  BY <1>1, <1>2, SeqMonotonic
<1>4. junk[i] \in Seq(0 .. MaxEvents) /\ tail[i] \in Seq(0 .. MaxEvents)
  BY DEF TypeOK
<1>5. Bytes(lines[i]) \in Nat /\ Bytes(junk[i]) \in Nat /\ Bytes(tail[i]) \in Nat
  BY <1>3, <1>4, BytesBounds
<1> QED BY <1>3, <1>4, <1>5 DEF FileSize

\* A count below the threshold is a file below it.
LEMMA CountBounds ==
  ASSUME TypeOK, NEW i \in Store, events[i] # << >>, persistedCount(i) < RewriteAt
  PROVE  FileSize(i) < RewriteAt * MaxLine
<1>1. events[i] \in Seq(0 .. MaxEvents) /\ FileSize(i) \in Nat
  BY FileTypes
<1>2. /\ Bytes(events[i]) \in Nat /\ Len(events[i]) \in Nat \ {0}
      /\ Len(events[i]) <= Bytes(events[i]) /\ Bytes(events[i]) <= Len(events[i]) * MaxLine
  BY <1>1, BytesBounds, LenProperties, EmptySeq
<1>3. RewriteAt \in Nat \ {0} /\ MaxLine \in Nat \ {0}
  BY StoreAssumption
<1>4. CASE FileSize(i) = 0
  BY <1>3, <1>4
<1>5. CASE FileSize(i) # 0
  <2>1. FileSize(i) \div (Bytes(events[i]) \div Len(events[i])) < RewriteAt
    BY <1>5 DEF persistedCount
  <2> QED BY <1>1, <1>2, <1>3, <2>1, EstimateBounds
<1> QED BY <1>4, <1>5

\* What the buffered writer has put out of a ring, an unfinished line included, is
\* no more than the ring at its widest.
LEMMA FlushedBytes ==
  ASSUME NEW s \in Seq(0 .. MaxEvents), Len(s) <= MaxSize
  PROVE  /\ Bytes(s) <= MaxSize * MaxLine
         /\ \A n \in 0 .. Len(s) - 1 : \A t \in {<< >>, <<Cut>>, <<s[n + 1]>>} :
              Bytes(SubSeq(s, 1, n)) + Bytes(t) <= MaxSize * MaxLine
<1>1. Len(s) \in Nat /\ MaxSize \in Nat /\ MaxLine \in Nat
  BY LenProperties, StoreAssumption
<1>2. \A n \in 0 .. MaxSize : n * MaxLine <= MaxSize * MaxLine
  BY <1>1
<1>3. Bytes(s) <= MaxSize * MaxLine
  <2>1. Bytes(s) \in Nat /\ Bytes(s) <= Len(s) * MaxLine
    BY BytesBounds
  <2>2. Len(s) * MaxLine \in Nat /\ MaxSize * MaxLine \in Nat
    BY <1>1
  <2>3. Len(s) * MaxLine <= MaxSize * MaxLine
    BY <1>1, <1>2
  <2> QED BY <2>1, <2>2, <2>3
<1>4. ASSUME NEW n \in 0 .. Len(s) - 1, NEW t \in {<< >>, <<Cut>>, <<s[n + 1]>>}
      PROVE  Bytes(SubSeq(s, 1, n)) + Bytes(t) <= MaxSize * MaxLine
  <2>1. SubSeq(s, 1, n) \in Seq(0 .. MaxEvents) /\ Len(SubSeq(s, 1, n)) = n
    <3>1. n \in 0 .. Len(s)
      BY <1>1
    <3> QED BY <3>1, PrefixType
  <2>2. t \in Seq(0 .. MaxEvents) /\ Len(t) \in {0, 1}
    <3>1. << >> \in Seq(0 .. MaxEvents) /\ Len(<< >>) = 0
      OBVIOUS
    <3>2. 0 \in 0 .. MaxEvents
      BY StoreAssumption
    <3>3. <<0>> \in Seq(0 .. MaxEvents) /\ Len(<<0>>) = 1
      BY <3>2
    <3>4. s[n + 1] \in 0 .. MaxEvents
      <4>1. n + 1 \in 1 .. Len(s)
        BY <1>1
      <4> QED BY <4>1, ElementOfSeq
    <3>5. <<s[n + 1]>> \in Seq(0 .. MaxEvents) /\ Len(<<s[n + 1]>>) = 1
      BY <3>4
    <3> QED BY <3>1, <3>3, <3>5 DEF Cut
  <2>3. /\ Bytes(SubSeq(s, 1, n)) \in Nat /\ Bytes(SubSeq(s, 1, n)) <= n * MaxLine
        /\ Bytes(t) \in Nat /\ Bytes(t) <= Len(t) * MaxLine
    BY <2>1, <2>2, BytesBounds
  <2>4. Bytes(t) <= MaxLine
    <3>1. CASE Len(t) = 0
      BY <1>1, <2>3, <3>1
    <3>2. CASE Len(t) = 1
      BY <1>1, <2>3, <3>2
    <3> QED BY <2>2, <3>1, <3>2
  <2>5. /\ n * MaxLine + MaxLine = (n + 1) * MaxLine /\ n * MaxLine \in Nat
        /\ MaxSize * MaxLine \in Nat /\ (n + 1) * MaxLine \in Nat
    BY <1>1
  <2>6. (n + 1) * MaxLine <= MaxSize * MaxLine
    BY <1>1, <1>2
  <2>7. Bytes(SubSeq(s, 1, n)) + Bytes(t) <= n * MaxLine + MaxLine
    BY <1>1, <2>3, <2>4, <2>5
  <2> QED BY <2>3, <2>5, <2>6, <2>7
<1> QED BY <1>3, <1>4

LEMMA GrowthStep == StoreInv /\ GrowthInv /\ [Next]_vars => GrowthInv'
<1> SUFFICES ASSUME StoreInv, GrowthInv, [Next]_vars, NEW j \in Store PROVE GrowthOf(j)'
  BY DEF GrowthInv
<1> DEFINE n == faults + stops
<1>t. TypeOK /\ Adding /\ HistoryOf(j)
  BY DEF StoreInv, TypeInv, HistoryInv
<1>s. /\ events \in [Store -> Seq(Event)] /\ lines \in [Store -> Seq(Event)]
      /\ junk \in [Store -> Seq(0 .. MaxEvents)] /\ tail \in [Store -> Seq(0 .. MaxEvents)]
      /\ pc \in [Store -> Labels] /\ Len(events[j]) <= MaxSize
  BY <1>t, EventFacts DEF TypeOK, HistoryOf, Event
<1>n. n \in Nat /\ n' \in Nat /\ n <= n' /\ faults \in Nat /\ stops \in Nat
  <2>1. faults \in Nat /\ stops \in Nat
    BY <1>t DEF TypeOK
  <2>2. /\ faults' = faults \/ faults' = faults + 1
        /\ stops' = stops \/ stops' = stops + 1
    BY DEF Next, Add, WriteLine, PersistFails, WriteNewline, NewlineFails, Count, Truncate,
           RewriteFails, FlushPart, Flush, FlushFails, Stop, Load, LoadFails, ReadFile, ReadFails,
           BeginRead, Fault, vars
  <2> QED BY <2>1, <2>2
<1>g. /\ pc[j] \in {"idle", "write", "down"} => FileSize(j) < Bound(n)
      /\ pc[j] \in {"newline", "count"} => events[j] # << >>
      /\ pc[j] \in {"newline", "count", "truncate"} => FileSize(j) < Bound(n) + MaxLine
      /\ pc[j] = "flush" => junk[j] = << >> /\ FileSize(j) <= MaxSize * MaxLine
  BY DEF GrowthInv, GrowthOf
<1>w. \A m \in Nat : Bound(m)' = Bound(m)
  BY DEF Bound
<1>b. /\ Bound(n) \in Nat /\ Bound(n') \in Nat /\ Bound(n) <= Bound(n') /\ MaxLine \in Nat \ {0}
      /\ Bound(n + 1) = Bound(n) + MaxLine
      /\ MaxSize * MaxLine < Bound(n) /\ RewriteAt * MaxLine <= Bound(n)
      /\ MaxSize * MaxLine \in Nat /\ RewriteAt * MaxLine \in Nat
  <2> HIDE DEF n
  <2>1. MaxSize * MaxLine \in Nat /\ RewriteAt * MaxLine \in Nat /\ MaxLine \in Nat \ {0}
    BY StoreAssumption
  <2>2. Bound(n) <= Bound(n')
    BY <1>n, BoundMonotone
  <2>3. Bound(n') \in Nat
    BY <1>n, BoundGrows
  <2> QED BY <1>n, <2>1, <2>2, <2>3, BoundGrows
<1>f. FileSize(j) \in Nat
  BY <1>t, FileTypes
<1> HIDE DEF n
<1>1. ASSUME pc'[j] = pc[j], events'[j] = events[j], FileSize(j)' = FileSize(j), junk'[j] = junk[j]
      PROVE  GrowthOf(j)'
  BY <1>1, <1>g, <1>b, <1>f DEF GrowthOf, n
<1>2. ASSUME pc'[j] \in {"idle", "write", "down"}, FileSize(j)' = FileSize(j), FileSize(j) < Bound(n')
      PROVE  GrowthOf(j)'
  BY <1>2 DEF GrowthOf, n
<1>3. ASSUME NEW i \in Store \ {j},
             \/ Add(i) \/ WriteLine(i) \/ PersistFails(i) \/ WriteNewline(i) \/ NewlineFails(i)
             \/ Count(i) \/ Truncate(i) \/ RewriteFails(i) \/ FlushPart(i) \/ Flush(i) \/ FlushFails(i)
             \/ Stop(i) \/ Load(i) \/ LoadFails(i)
      PROVE  GrowthOf(j)'
  <2>1. events'[j] = events[j] /\ pc'[j] = pc[j]
    BY <1>3, <1>s
    DEF Add, WriteLine, PersistFails, WriteNewline, NewlineFails, Count, Truncate, RewriteFails,
        FlushPart, Flush, FlushFails, Stop, Load, LoadFails, Goto, storeVars
  <2>2. lines'[j] = lines[j] /\ tail'[j] = tail[j] /\ junk'[j] = junk[j]
    BY <1>3, <1>s
    DEF Add, WriteLine, PersistFails, WriteNewline, NewlineFails, Count, Truncate, RewriteFails,
        FlushPart, Flush, FlushFails, Stop, Load, LoadFails, fileVars
  <2>3. FileSize(j)' = FileSize(j)
    BY <2>2 DEF FileSize
  <2> QED BY <1>1, <2>1, <2>2, <2>3
<1>4. CASE Add(j) \/ LoadFails(j)
  <2>1. pc[j] \in {"idle", "down"} /\ pc'[j] \in {"idle", "write"} /\ UNCHANGED <<lines, junk, tail>>
    BY <1>4, <1>s DEF Add, LoadFails, Goto, fileVars
  <2>2. FileSize(j)' = FileSize(j) /\ FileSize(j) < Bound(n')
    BY <1>g, <1>b, <1>f, <2>1 DEF FileSize
  <2> QED BY <1>2, <2>1, <2>2
<1>5. CASE WriteLine(j)
  <2>1. /\ pc[j] = "write" /\ pc'[j] = "newline" /\ UNCHANGED <<lines, junk, events>>
        /\ tail'[j] = Append(tail[j], Last(events[j])) /\ events[j] # << >>
    BY <1>5, <1>s, <1>t DEF WriteLine, Goto, Adding
  <2>2. Last(events[j]) \in 0 .. MaxEvents
    <3>1. events[j] \in Seq(0 .. MaxEvents)
      BY <1>t, FileTypes
    <3> QED BY <2>1, <3>1, LastType
  <2>3. Bytes(tail'[j]) \in Nat /\ Bytes(tail'[j]) <= Bytes(tail[j]) + MaxLine
    BY <1>s, <2>1, <2>2, BytesAppend
  <2>4. FileSize(j)' = Bytes(lines[j]) + Bytes(junk[j]) + Bytes(tail'[j])
    BY <2>1 DEF FileSize, Bytes, Size
  <2>5. Bytes(lines[j]) \in Nat /\ Bytes(junk[j]) \in Nat /\ Bytes(tail[j]) \in Nat
    BY <1>t, FileTypes
  <2>6. FileSize(j) = Bytes(lines[j]) + Bytes(junk[j]) + Bytes(tail[j])
    BY DEF FileSize
  <2>7. FileSize(j)' < Bound(n') + MaxLine
    BY <1>b, <1>f, <1>g, <2>1, <2>3, <2>4, <2>5, <2>6
  <2> QED BY <2>1, <2>7 DEF GrowthOf, n
<1>6. CASE PersistFails(j)
  <2>1. /\ pc[j] = "write" /\ pc'[j] \in {"newline", "count"} /\ UNCHANGED <<lines, junk, events>>
        /\ events[j] # << >> /\ tail'[j] \in {tail[j], Append(tail[j], Cut)}
    BY <1>6, <1>s, <1>t DEF PersistFails, Goto, Adding
  <2>2. /\ Bytes(lines[j]) \in Nat /\ Bytes(junk[j]) \in Nat /\ Bytes(tail[j]) \in Nat
        /\ Cut \in 0 .. MaxEvents
    BY <1>t, FileTypes, StoreAssumption DEF Cut
  <2>3. Bytes(tail'[j]) \in Nat /\ Bytes(tail'[j]) <= Bytes(tail[j]) + MaxLine
    <3>1. /\ Bytes(Append(tail[j], Cut)) \in Nat
          /\ Bytes(Append(tail[j], Cut)) <= Bytes(tail[j]) + MaxLine
      BY <1>s, <2>2, BytesAppend
    <3>2. CASE tail'[j] = tail[j]
      BY <1>b, <2>2, <3>2
    <3>3. CASE tail'[j] = Append(tail[j], Cut)
      BY <3>1, <3>3
    <3> QED BY <2>1, <3>2, <3>3
  <2>4. /\ FileSize(j)' = Bytes(lines[j]) + Bytes(junk[j]) + Bytes(tail'[j])
        /\ FileSize(j) = Bytes(lines[j]) + Bytes(junk[j]) + Bytes(tail[j])
    BY <2>1 DEF FileSize, Bytes, Size
  <2>5. FileSize(j)' \in Nat /\ FileSize(j)' <= FileSize(j) + MaxLine
    <3>1. MaxLine \in Nat
      BY <1>b
    <3> QED BY <2>2, <2>3, <2>4, <3>1
  <2>6. FileSize(j) < Bound(n)
    BY <1>g, <2>1
  <2>7. FileSize(j)' < Bound(n') + MaxLine
    <3>1. Bound(n) \in Nat /\ Bound(n') \in Nat /\ Bound(n) <= Bound(n') /\ MaxLine \in Nat
      BY <1>b
    <3> QED BY <1>f, <2>5, <2>6, <3>1
  <2> QED BY <2>1, <2>7 DEF GrowthOf, n
<1>7. CASE WriteNewline(j)
  <2>1. /\ pc[j] = "newline" /\ pc'[j] = "count" /\ events' = events /\ tail'[j] = << >>
        /\ \/ lines'[j] = lines[j] \o tail[j] /\ junk'[j] = junk[j]
           \/ junk'[j] = junk[j] \o tail[j] /\ lines'[j] = lines[j]
    BY <1>7, <1>s DEF WriteNewline, Goto
  <2>2. /\ lines[j] \in Seq(0 .. MaxEvents) /\ junk[j] \in Seq(0 .. MaxEvents)
        /\ tail[j] \in Seq(0 .. MaxEvents)
        /\ Bytes(lines[j]) \in Nat /\ Bytes(junk[j]) \in Nat /\ Bytes(tail[j]) \in Nat
    BY <1>t, FileTypes
  <2>3. /\ Bytes(lines[j] \o tail[j]) = Bytes(lines[j]) + Bytes(tail[j])
        /\ Bytes(junk[j] \o tail[j]) = Bytes(junk[j]) + Bytes(tail[j])
    BY <2>2, BytesConcat
  <2>4. Bytes(tail'[j]) = 0
    BY <2>1, BytesEmpty
  <2>5. Bytes(lines'[j]) + Bytes(junk'[j]) = Bytes(lines[j]) + Bytes(junk[j]) + Bytes(tail[j])
    <3>1. CASE lines'[j] = lines[j] \o tail[j] /\ junk'[j] = junk[j]
      <4>1. Bytes(lines'[j]) = Bytes(lines[j]) + Bytes(tail[j]) /\ Bytes(junk'[j]) = Bytes(junk[j])
        BY <2>3, <3>1
      <4> QED BY <2>2, <4>1
    <3>2. CASE junk'[j] = junk[j] \o tail[j] /\ lines'[j] = lines[j]
      <4>1. Bytes(junk'[j]) = Bytes(junk[j]) + Bytes(tail[j]) /\ Bytes(lines'[j]) = Bytes(lines[j])
        BY <2>3, <3>2
      <4> QED BY <2>2, <4>1
    <3> QED BY <2>1, <3>1, <3>2
  <2>6. /\ FileSize(j)' = Bytes(lines'[j]) + Bytes(junk'[j]) + Bytes(tail'[j])
        /\ FileSize(j) = Bytes(lines[j]) + Bytes(junk[j]) + Bytes(tail[j])
    BY DEF FileSize, Bytes, Size
  <2>7. FileSize(j)' = FileSize(j)
    BY <2>2, <2>4, <2>5, <2>6
  <2>8. FileSize(j) < Bound(n') + MaxLine
    BY <1>b, <1>f, <1>g, <2>1
  <2> QED BY <1>g, <2>1, <2>7, <2>8 DEF GrowthOf, n
<1>8. CASE Count(j)
  <2>1. /\ pc[j] = "count" /\ UNCHANGED <<lines, junk, tail, events>>
        /\ pc'[j] = IF persistedCount(j) >= RewriteAt THEN "truncate" ELSE "idle"
    BY <1>8, <1>s DEF Count, Goto, fileVars
  <2>2. FileSize(j)' = FileSize(j) /\ FileSize(j) < Bound(n') + MaxLine
    BY <1>g, <1>b, <1>f, <2>1 DEF FileSize
  <2>3. CASE persistedCount(j) >= RewriteAt
    BY <2>1, <2>2, <2>3 DEF GrowthOf, n
  <2>4. CASE ~(persistedCount(j) >= RewriteAt)
    <3>1. persistedCount(j) < RewriteAt
      <4>1. FileSize(j) \in Nat /\ events[j] # << >> /\ events[j] \in Seq(0 .. MaxEvents)
        BY <1>g, <1>t, <2>1, FileTypes
      <4>2. /\ Bytes(events[j]) \in Nat /\ Len(events[j]) \in Nat \ {0}
            /\ Len(events[j]) <= Bytes(events[j])
        BY <4>1, BytesBounds, LenProperties, EmptySeq
      <4>3. Bytes(events[j]) \div Len(events[j]) \in Nat \ {0}
        BY <4>2
      <4>4. persistedCount(j) \in Nat
        BY <4>1, <4>2, <4>3 DEF persistedCount
      <4> QED BY <2>4, <4>4, StoreAssumption
    <3>2. FileSize(j) < Bound(n')
      BY <1>b, <1>f, <1>g, <1>t, <2>1, <3>1, CountBounds
    <3> QED BY <1>2, <2>1, <2>2, <2>4, <3>2
  <2> QED BY <2>3, <2>4
<1>9. CASE Truncate(j)
  <2>1. pc'[j] = "flush" /\ lines'[j] = << >> /\ junk'[j] = << >> /\ tail'[j] = << >>
    BY <1>9, <1>s DEF Truncate, Goto
  <2>2. FileSize(j)' = Bytes(<< >>) + Bytes(<< >>) + Bytes(<< >>)
    BY <2>1 DEF FileSize, Bytes, Size
  <2>3. FileSize(j)' <= MaxSize * MaxLine
    BY <1>b, <2>2, BytesEmpty
  <2> QED BY <2>1, <2>3 DEF GrowthOf
<1>10. CASE RewriteFails(j)
  <2>1. /\ pc[j] \in {"count", "truncate"} /\ pc'[j] = "idle" /\ UNCHANGED <<lines, junk, tail>>
        /\ n' = n + 1
    <3>1. faults' = faults + 1 /\ stops' = stops
      BY <1>10 DEF RewriteFails, Fault
    <3> QED BY <1>10, <1>s, <1>n, <3>1 DEF RewriteFails, Goto, fileVars, n
  <2>2. FileSize(j)' = FileSize(j)
    BY <2>1 DEF FileSize
  <2>3. FileSize(j) < Bound(n')
    BY <1>b, <1>g, <2>1
  <2> QED BY <1>2, <2>1, <2>2, <2>3
<1>11. CASE FlushPart(j)
  <2>1. pc[j] = "flush" /\ pc'[j] = "flush" /\ junk' = junk /\ tail[j] = << >>
    BY <1>11, <1>s DEF FlushPart, storeVars
  <2>2. PICK k \in 0 .. Len(events[j]) - 1 :
          /\ lines'[j] = SubSeq(events[j], 1, k)
          /\ tail'[j] \in {<< >>, <<Cut>>, <<events[j][k + 1]>>}
    BY <1>11, <1>s, <2>1 DEF FlushPart
  <2>3. Bytes(SubSeq(events[j], 1, k)) + Bytes(tail'[j]) <= MaxSize * MaxLine
    BY <1>s, <1>t, <2>2, FileTypes, FlushedBytes
  <2>4. junk'[j] = << >>
    BY <1>g, <2>1
  <2>5. FileSize(j)' = Bytes(SubSeq(events[j], 1, k)) + 0 + Bytes(tail'[j])
    BY <2>2, <2>4, BytesEmpty DEF FileSize, Bytes, Size
  <2>6. Bytes(SubSeq(events[j], 1, k)) \in Nat
    <3>1. events[j] \in Seq(0 .. MaxEvents) /\ Len(events[j]) \in Nat
      BY <1>t, FileTypes, LenProperties
    <3>2. k \in 0 .. Len(events[j])
      BY <3>1
    <3>3. SubSeq(events[j], 1, k) \in Seq(0 .. MaxEvents)
      BY <3>1, <3>2, PrefixType
    <3> QED BY <3>3, BytesBounds
  <2>7. FileSize(j)' <= MaxSize * MaxLine
    BY <2>3, <2>5, <2>6
  <2> QED BY <2>1, <2>4, <2>7 DEF GrowthOf
<1>12. CASE Flush(j)
  <2>1. pc[j] = "flush" /\ pc'[j] = "idle" /\ junk' = junk /\ lines'[j] = events[j] /\ tail'[j] = << >>
    BY <1>12, <1>s DEF Flush, Goto
  <2>2. junk'[j] = << >>
    BY <1>g, <2>1
  <2>3. FileSize(j)' = Bytes(events[j]) + 0 + 0
    BY <2>1, <2>2, BytesEmpty DEF FileSize, Bytes, Size
  <2>4. Bytes(events[j]) \in Nat /\ Bytes(events[j]) <= MaxSize * MaxLine
    BY <1>s, <1>t, FileTypes, BytesBounds, FlushedBytes
  <2>5. FileSize(j)' < Bound(n')
    BY <1>b, <2>3, <2>4
  <2> QED BY <2>1, <2>5 DEF GrowthOf, n
<1>13. CASE Stop(j)
  <2>1. /\ pc[j] \in Labels \ {"down"} /\ pc'[j] = "down" /\ UNCHANGED <<lines, junk, tail>>
        /\ n' = n + 1
    <3>1. faults' = faults /\ stops' = stops + 1
      BY <1>13 DEF Stop
    <3> QED BY <1>13, <1>s, <1>n, <3>1 DEF Stop, fileVars, n
  <2>2. FileSize(j)' = FileSize(j)
    BY <2>1 DEF FileSize
  <2>3. FileSize(j) < Bound(n')
    BY <1>b, <1>f, <1>g, <2>1 DEF Labels
  <2> QED BY <1>2, <2>1, <2>2, <2>3
<1>14. CASE Load(j)
  <2>1. pc[j] = "down" /\ pc'[j] \in {"idle", "truncate"} /\ UNCHANGED <<lines, junk, tail>>
    BY <1>14, <1>s DEF Load, Goto, fileVars
  <2>2. FileSize(j)' = FileSize(j)
    BY <2>1 DEF FileSize
  <2>3. FileSize(j) < Bound(n') /\ FileSize(j) < Bound(n') + MaxLine
    BY <1>b, <1>f, <1>g, <2>1
  <2> QED BY <2>1, <2>2, <2>3 DEF GrowthOf, n
<1>15. CASE NewlineFails(j)
  <2>1. /\ pc[j] = "newline" /\ pc'[j] = "count" /\ UNCHANGED <<lines, junk, tail, events>>
    BY <1>15, <1>s DEF NewlineFails, Goto, fileVars
  <2>2. FileSize(j)' = FileSize(j) /\ FileSize(j) < Bound(n') + MaxLine /\ events'[j] # << >>
    BY <1>g, <1>b, <1>f, <2>1 DEF FileSize
  <2> QED BY <2>1, <2>2 DEF GrowthOf, n
<1>16. CASE FlushFails(j)
  <2>1. pc[j] = "flush" /\ pc'[j] = "idle" /\ UNCHANGED <<lines, junk, tail>>
    BY <1>16, <1>s DEF FlushFails, Goto, fileVars
  <2>2. FileSize(j)' = FileSize(j)
    BY <2>1 DEF FileSize
  <2>3. FileSize(j) < Bound(n')
    BY <1>b, <1>f, <1>g, <2>1
  <2> QED BY <1>2, <2>1, <2>2, <2>3
<1>17. CASE BeginRead \/ (\E i \in Store : ReadFile(i) \/ ReadFails(i)) \/ UNCHANGED vars
  <2>1. UNCHANGED <<events, pc, lines, junk, tail>>
    BY <1>17 DEF BeginRead, ReadFile, ReadFails, storeVars, fileVars, vars
  <2>2. FileSize(j)' = FileSize(j)
    BY <2>1 DEF FileSize
  <2> QED BY <1>1, <2>1, <2>2
<1> QED
  BY <1>3, <1>4, <1>5, <1>6, <1>7, <1>8, <1>9, <1>10, <1>11, <1>12, <1>13, <1>14, <1>15, <1>16, <1>17
  DEF Next

\* An instance's file stays below the threshold of the rewrite, at the widest of
\* lines, and a line more for each rewrite that an accident prevented.
THEOREM StoreFileIsBounded == Spec => []FileIsBounded
<1>1. StoreInv /\ GrowthInv => FileIsBounded
  <2> SUFFICES ASSUME StoreInv, GrowthInv, NEW i \in Store, pc[i] = "idle"
               PROVE  FileSize(i) < (RewriteAt + faults + stops) * MaxLine
    BY DEF FileIsBounded
  <2>1. FileSize(i) < Bound(faults + stops)
    BY DEF GrowthInv, GrowthOf
  <2>2. faults \in Nat /\ stops \in Nat /\ RewriteAt \in Nat
    BY StoreAssumption DEF StoreInv, TypeInv, TypeOK
  <2>3. RewriteAt + (faults + stops) = RewriteAt + faults + stops
    BY <2>2
  <2> QED BY <2>1, <2>3 DEF Bound
<1>2. Init => GrowthInv
  BY GrowthInit
<1>3. StoreInv /\ GrowthInv /\ [Next]_vars => GrowthInv'
  BY GrowthStep
<1> QED BY <1>1, <1>2, <1>3, StoreInvariant, PTL DEF Spec
-----------------------------------------------------------------------------
(* What accidents cost                                                     *)

\* The events of the ring that are on no line of their own, but for those of a
\* ring whose rewrite failed.
Missing(i) == (ToSet(events[i]) \ dropped[i]) \ ToSet(Parsed(i))

\* Those of them that were there before the one that is being added.
MissingBefore(i) ==
  ((ToSet(events[i]) \ {Last(events[i])}) \ dropped[i]) \ ToSet(Parsed(i))

\* What torn lines and failed writes may have cost.
Cost(i) == (IF torn[i] = 0 THEN 0 ELSE 2) + 2 * failed[i]

\* What the last line, if it is unfinished, may still cost: the next event, glued
\* to it, and its own.
Pending(t) == IF t = << >> THEN 0 ELSE IF Parses(t) THEN 2 ELSE 1

LossOf(i) ==
  /\ tail[i] # << >> /\ pc[i] \notin {"newline", "flush"} => torn[i] # 0 \/ failed[i] # 0
  /\ pc[i] \in {"idle", "count", "truncate"} =>
       Cardinality(Missing(i)) + Pending(tail[i]) <= Cost(i)
  /\ pc[i] = "write" => Cardinality(MissingBefore(i)) + Pending(tail[i]) <= Cost(i)
  /\ pc[i] = "newline" => Cardinality(Missing(i)) <= Cost(i)

LossInv == \A i \in Store : LossOf(i)

LEMMA LossInit == Init => LossInv
BY DEF Init, LossInv, LossOf

LEMMA FewerEvents ==
  ASSUME NEW B \in SUBSET (1 .. MaxEvents), NEW A \in SUBSET B
  PROVE  Cardinality(A) \in Nat /\ Cardinality(B) \in Nat /\ Cardinality(A) <= Cardinality(B)
<1>1. IsFiniteSet(1 .. MaxEvents)
  BY StoreAssumption, IntervalSize
<1>2. IsFiniteSet(B)
  BY <1>1, FS_Subset
<1> QED BY <1>2, FS_Subset, FS_CardinalityType

LEMMA OneMoreEvent ==
  ASSUME NEW B \in SUBSET (1 .. MaxEvents), NEW e, NEW A \in SUBSET (B \cup {e})
  PROVE  Cardinality(A) \in Nat /\ Cardinality(B) \in Nat /\ Cardinality(A) <= Cardinality(B) + 1
<1>1. IsFiniteSet(1 .. MaxEvents)
  BY StoreAssumption, IntervalSize
<1>2. IsFiniteSet(B) /\ Cardinality(B) \in Nat
  BY <1>1, FS_Subset, FS_CardinalityType
<1>3. /\ IsFiniteSet(B \cup {e})
      /\ Cardinality(B \cup {e}) = IF e \in B THEN Cardinality(B) ELSE Cardinality(B) + 1
  BY <1>2, FS_AddElement
<1>4. Cardinality(A) \in Nat /\ Cardinality(A) <= Cardinality(B \cup {e})
  BY <1>3, FS_Subset, FS_CardinalityType
<1> QED BY <1>2, <1>3, <1>4

\* A trimmed sequence has no members but those of the whole.
LEMMA TrimMembers ==
  ASSUME NEW S, NEW s \in Seq(S), NEW n \in Nat
  PROVE  ToSet(Trim(s, n)) \subseteq ToSet(s)
<1>1. Trim(s, n) \in Seq(S) /\ Ends(Trim(s, n), Len(Trim(s, n)), s)
  BY TrimType, TrimEnds
<1> QED BY <1>1, EndsMembers

\* What an Add leaves out of the file is what was out of it before.
LEMMA AddLoss ==
  ASSUME StoreInv, NEW i \in Store, Add(i)
  PROVE  MissingBefore(i)' \subseteq Missing(i)
<1> DEFINE longer == Append(events[i], now + 1)
<1>1. /\ events[i] \in Seq(Event) /\ now + 1 \in Event
      /\ events'[i] = Trim(longer, MaxSize) /\ UNCHANGED <<lines, tail, dropped>>
  BY StoreAssumption DEF StoreInv, TypeInv, TypeOK, Add, Event, fileVars
<1>2. longer \in Seq(Event) /\ ToSet(longer) = ToSet(events[i]) \cup {now + 1}
  BY <1>1, AppendProperties, AppendMembers
<1> HIDE DEF longer
<1>3. ToSet(events'[i]) \subseteq ToSet(events[i]) \cup {now + 1}
  BY <1>1, <1>2, StoreAssumption, TrimMembers
<1>4. Last(events'[i]) = now + 1
  BY AddedLast DEF StoreInv, TypeInv
<1>5. Parsed(i)' = Parsed(i)
  BY <1>1 DEF Parsed
<1> QED BY <1>1, <1>3, <1>4, <1>5 DEF Missing, MissingBefore

\* What does not parse adds nothing to a scan.
LEMMA ScanSkips ==
  ASSUME NEW l \in Seq(Event), NEW t, ~Parses(t)
  PROVE  Scan(l, t) = l
<1>1. Scan(l, t) = l \o << >>
  BY DEF Scan
<1> QED BY <1>1, ConcatEmptySeq

\* What one append may add to the events out of the file, whatever the line it is
\* glued to.
LEMMA AppendLoss ==
  ASSUME StoreInv, NEW i \in Store, events[i] # << >>, UNCHANGED <<events, lines, dropped>>,
         NEW e \in Event \cup {Cut}, tail'[i] = Append(tail[i], e)
  PROVE  /\ Cardinality(Missing(i)') \in Nat /\ Cardinality(MissingBefore(i)) \in Nat
         /\ Cardinality(Missing(i)')
              <= Cardinality(MissingBefore(i)) + IF Parses(tail[i]) THEN 2 ELSE 1
         /\ tail[i] = << >> /\ e = Last(events[i]) =>
              Cardinality(Missing(i)') <= Cardinality(MissingBefore(i))
<1>1. /\ TypeOK /\ lines[i] \in Seq(Event) /\ events[i] \in Seq(Event)
      /\ tail[i] \in Seq(Event \cup {Cut}) /\ Last(events[i]) \in Event
  <2>1. /\ TypeOK /\ lines[i] \in Seq(Event) /\ events[i] \in Seq(Event)
        /\ tail[i] \in Seq(Event \cup {Cut})
    BY EventFacts DEF StoreInv, TypeInv, TypeOK, Event
  <2> QED BY <2>1, LastType
<1>2. tail'[i] \in Seq(Event \cup {Cut})
  BY <1>1, AppendProperties
<1>3. Parsed(i) = Scan(lines[i], tail[i]) /\ Parsed(i)' = Scan(lines'[i], tail'[i])
  BY DEF Parsed, Scan
<1>4. ToSet(Parsed(i)) = ToSet(lines[i]) \cup (IF Parses(tail[i]) THEN {tail[i][1]} ELSE {})
  BY <1>1, <1>3, ScanMembers
<1>5. ToSet(Parsed(i)') = ToSet(lines[i]) \cup (IF Parses(tail'[i]) THEN {tail'[i][1]} ELSE {})
  BY <1>1, <1>2, <1>3, ScanMembers
<1>6. MissingBefore(i) \in SUBSET (1 .. MaxEvents)
  BY <1>1, ReadType DEF MissingBefore
<1>7. /\ MissingBefore(i) \cup {Last(events[i])} \in SUBSET (1 .. MaxEvents)
      /\ Cardinality(MissingBefore(i)) \in Nat
      /\ Cardinality(MissingBefore(i) \cup {Last(events[i])}) \in Nat
      /\ Cardinality(MissingBefore(i) \cup {Last(events[i])}) <= Cardinality(MissingBefore(i)) + 1
  BY <1>1, <1>6, OneMoreEvent DEF Event
<1>8. CASE Parses(tail[i])
  <2>1. Missing(i)' \in SUBSET ((MissingBefore(i) \cup {Last(events[i])}) \cup {tail[i][1]})
    BY <1>4, <1>5 DEF Missing, MissingBefore
  <2>2. /\ Cardinality(Missing(i)') \in Nat
        /\ Cardinality(Missing(i)') <= Cardinality(MissingBefore(i) \cup {Last(events[i])}) + 1
    BY <1>7, <2>1, OneMoreEvent
  <2>3. tail[i] # << >>
    BY <1>8, NotParsed
  <2> QED BY <1>7, <1>8, <2>2, <2>3
<1>9. CASE ~Parses(tail[i])
  <2>1. Missing(i)' \in SUBSET (MissingBefore(i) \cup {Last(events[i])})
    BY <1>4, <1>5, <1>9 DEF Missing, MissingBefore
  <2>2. /\ Cardinality(Missing(i)') \in Nat
        /\ Cardinality(Missing(i)') <= Cardinality(MissingBefore(i)) + 1
    BY <1>6, <2>1, OneMoreEvent
  <2>3. ASSUME tail[i] = << >>, e = Last(events[i])
        PROVE  Cardinality(Missing(i)') <= Cardinality(MissingBefore(i))
    <3>1. tail'[i] = <<Last(events[i])>> /\ tail'[i][1] = Last(events[i])
      BY <2>3
    <3>2. Parses(tail'[i])
      BY <1>1, <3>1, EventFacts DEF Parses
    <3>3. Missing(i)' \in SUBSET MissingBefore(i)
      BY <1>4, <1>5, <1>9, <3>1, <3>2 DEF Missing, MissingBefore
    <3> QED BY <1>6, <3>3, FewerEvents
  <2> QED BY <1>7, <1>9, <2>2, <2>3
<1> QED BY <1>8, <1>9

LEMMA LossStep == StoreInv /\ LossInv /\ [Next]_vars => LossInv'
<1> SUFFICES ASSUME StoreInv, LossInv, [Next]_vars, NEW j \in Store PROVE LossOf(j)'
  BY DEF LossInv
<1>t. TypeOK /\ Adding /\ HistoryOf(j)
  BY DEF StoreInv, TypeInv, HistoryInv
<1>s. /\ events \in [Store -> Seq(Event)] /\ lines \in [Store -> Seq(Event)]
      /\ tail \in [Store -> Seq(Event \cup {Cut})] /\ pc \in [Store -> Labels]
      /\ torn \in [Store -> Nat] /\ failed \in [Store -> Nat]
      /\ dropped \in [Store -> SUBSET Event]
      /\ events[j] \in Seq(Event) /\ lines[j] \in Seq(Event) /\ tail[j] \in Seq(Event \cup {Cut})
      /\ pc[j] = "down" => events[j] = << >>
  BY <1>t, EventFacts DEF TypeOK, HistoryOf, Event
<1>l. /\ tail[j] # << >> /\ pc[j] \notin {"newline", "flush"} => torn[j] # 0 \/ failed[j] # 0
      /\ pc[j] \in {"idle", "count", "truncate"} =>
           Cardinality(Missing(j)) + Pending(tail[j]) <= Cost(j)
      /\ pc[j] = "write" => Cardinality(MissingBefore(j)) + Pending(tail[j]) <= Cost(j)
      /\ pc[j] = "newline" => Cardinality(Missing(j)) <= Cost(j)
  BY DEF LossInv, LossOf
<1>m. /\ Missing(j) \in SUBSET (1 .. MaxEvents) /\ MissingBefore(j) \in SUBSET (1 .. MaxEvents)
      /\ Cardinality(Missing(j)) \in Nat /\ Cardinality(MissingBefore(j)) \in Nat
      /\ Pending(tail[j]) \in 0 .. 2 /\ Pending(tail[j])' \in 0 .. 2
      /\ Cost(j) \in Nat /\ failed[j] \in Nat
  <2>1. Missing(j) \in SUBSET (1 .. MaxEvents) /\ MissingBefore(j) \in SUBSET (1 .. MaxEvents)
    BY <1>t, ReadType DEF Missing, MissingBefore
  <2>2. Cardinality(Missing(j)) \in Nat /\ Cardinality(MissingBefore(j)) \in Nat
    BY <2>1, FewerEvents
  <2>3. Cost(j) \in Nat /\ failed[j] \in Nat
    BY <1>s DEF Cost
  <2>4. Pending(tail[j]) \in 0 .. 2 /\ Pending(tail[j])' \in 0 .. 2
    BY DEF Pending
  <2> QED BY <2>1, <2>2, <2>3, <2>4
<1>p. Parsed(j) = Scan(lines[j], tail[j]) /\ Parsed(j)' = Scan(lines'[j], tail'[j])
  BY DEF Parsed, Scan
<1>q. Pending(tail[j])' = Pending(tail'[j])
  BY DEF Pending, Parses
\* Nothing is missing, and an unfinished line is accounted for.
<1>z. ASSUME pc'[j] \in {"idle", "count", "truncate"}, Missing(j)' = {},
             failed'[j] \in Nat, torn'[j] \in Nat,
             tail'[j] # << >> => torn'[j] # 0 \/ failed'[j] # 0
      PROVE  LossOf(j)'
  <2>1. Cardinality(Missing(j)') = 0
    BY <1>z, FS_EmptySet
  <2>2. Pending(tail[j])' <= Cost(j)'
    <3>1. CASE tail'[j] = << >>
      <4>1. Pending(tail[j])' = 0 /\ Cost(j)' \in Nat
        BY <1>z, <3>1 DEF Pending, Cost
      <4> QED BY <4>1
    <3>2. CASE tail'[j] # << >>
      <4>1. Cost(j)' >= 2 /\ Cost(j)' \in Nat
        <5>1. torn'[j] \in Nat /\ failed'[j] \in Nat /\ (torn'[j] # 0 \/ failed'[j] # 0)
          BY <1>z, <3>2
        <5>2. Cost(j)' = (IF torn'[j] = 0 THEN 0 ELSE 2) + 2 * failed'[j]
          BY DEF Cost
        <5>3. 2 * failed'[j] \in Nat /\ (failed'[j] # 0 => 2 * failed'[j] >= 2)
          BY <5>1
        <5> QED BY <5>1, <5>2, <5>3
      <4> QED BY <1>m, <4>1
    <3> QED BY <3>1, <3>2
  <2>3. Cardinality(Missing(j)') + Pending(tail[j])' <= Cost(j)'
    BY <1>m, <2>1, <2>2
  <2> QED BY <1>z, <2>3 DEF LossOf
\* Nothing has changed in ring and file.
<1>u. ASSUME pc'[j] \in {"idle", "count", "truncate"}, pc[j] \in {"idle", "count", "truncate"},
             events'[j] = events[j], lines'[j] = lines[j], tail'[j] = tail[j],
             torn'[j] = torn[j], failed'[j] = failed[j], dropped'[j] = dropped[j]
      PROVE  LossOf(j)'
  <2>1. Missing(j)' = Missing(j) /\ Cost(j)' = Cost(j)
    BY <1>u DEF Missing, Parsed, Cost
  <2> QED BY <1>l, <1>u, <1>q, <2>1 DEF LossOf
<1>1. ASSUME NEW i \in Store \ {j},
             \/ Add(i) \/ WriteLine(i) \/ PersistFails(i) \/ WriteNewline(i) \/ NewlineFails(i)
             \/ Count(i) \/ Truncate(i) \/ RewriteFails(i) \/ FlushPart(i) \/ Flush(i) \/ FlushFails(i)
             \/ Stop(i) \/ Load(i) \/ LoadFails(i)
      PROVE  LossOf(j)'
  <2>1. events'[j] = events[j] /\ pc'[j] = pc[j]
    BY <1>1, <1>s
    DEF Add, WriteLine, PersistFails, WriteNewline, NewlineFails, Count, Truncate, RewriteFails,
        FlushPart, Flush, FlushFails, Stop, Load, LoadFails, Goto, storeVars
  <2>2. lines'[j] = lines[j] /\ tail'[j] = tail[j]
    BY <1>1, <1>s
    DEF Add, WriteLine, PersistFails, WriteNewline, NewlineFails, Count, Truncate, RewriteFails,
        FlushPart, Flush, FlushFails, Stop, Load, LoadFails, fileVars
  <2>3. torn'[j] = torn[j] /\ failed'[j] = failed[j] /\ dropped'[j] = dropped[j]
    BY <1>1, <1>s
    DEF Add, WriteLine, PersistFails, WriteNewline, NewlineFails, Count, Truncate, RewriteFails,
        FlushPart, Flush, FlushFails, Stop, Load, LoadFails, historyVars
  <2>4. Missing(j)' = Missing(j) /\ MissingBefore(j)' = MissingBefore(j) /\ Cost(j)' = Cost(j)
    BY <2>1, <2>2, <2>3 DEF Missing, MissingBefore, Parsed, Cost
  <2> QED BY <1>l, <1>q, <2>1, <2>2, <2>3, <2>4 DEF LossOf
<1>2. CASE Add(j)
  <2>1. pc[j] = "idle" /\ pc'[j] = "write" /\ UNCHANGED <<tail, torn, failed>>
    BY <1>2, <1>s DEF Add, Goto, fileVars
  <2>2. MissingBefore(j)' \in SUBSET Missing(j)
    BY <1>2, AddLoss
  <2>3. /\ Cardinality(MissingBefore(j)') \in Nat
        /\ Cardinality(MissingBefore(j)') <= Cardinality(Missing(j))
    BY <1>m, <2>2, FewerEvents
  <2>4. Cost(j)' = Cost(j) /\ Pending(tail[j])' = Pending(tail[j])
    BY <1>q, <2>1 DEF Cost
  <2>5. Cardinality(MissingBefore(j)') + Pending(tail[j])' <= Cost(j)'
    BY <1>l, <1>m, <2>1, <2>3, <2>4
  <2> QED BY <1>l, <2>1, <2>5 DEF LossOf
<1>3. CASE WriteLine(j)
  <2>1. /\ pc[j] = "write" /\ pc'[j] = "newline"
        /\ UNCHANGED <<events, lines, torn, failed, dropped>>
        /\ tail'[j] = Append(tail[j], Last(events[j])) /\ events[j] # << >>
    BY <1>3, <1>s, <1>t DEF WriteLine, Goto, historyVars, Adding
  <2>2. Last(events[j]) \in Event \cup {Cut}
    BY <1>s, <2>1, LastType
  <2>3. /\ Cardinality(Missing(j)') \in Nat
        /\ Cardinality(Missing(j)')
             <= Cardinality(MissingBefore(j)) + IF Parses(tail[j]) THEN 2 ELSE 1
        /\ tail[j] = << >> => Cardinality(Missing(j)') <= Cardinality(MissingBefore(j))
    BY <2>1, <2>2, AppendLoss
  <2>4. Cardinality(Missing(j)') <= Cardinality(MissingBefore(j)) + Pending(tail[j])
    BY <1>m, <2>3 DEF Pending
  <2>5. Cost(j)' = Cost(j)
    BY <2>1 DEF Cost
  <2>6. Cardinality(Missing(j)') <= Cost(j)'
    BY <1>l, <1>m, <2>1, <2>3, <2>4, <2>5
  <2> QED BY <2>1, <2>6 DEF LossOf
<1>4. CASE PersistFails(j)
  <2>1. /\ pc[j] = "write" /\ pc'[j] \in {"newline", "count"}
        /\ UNCHANGED <<events, lines, torn, dropped>> /\ events[j] # << >>
        /\ failed'[j] = failed[j] + 1 /\ tail'[j] \in {tail[j], Append(tail[j], Cut)}
    BY <1>4, <1>s, <1>t DEF PersistFails, Goto, Adding
  <2>2. Cost(j)' = Cost(j) + 2 /\ failed'[j] # 0
    <3>1. failed[j] \in Nat /\ torn'[j] = torn[j] /\ failed'[j] = failed[j] + 1
      BY <1>m, <2>1
    <3>2. 2 * failed'[j] = 2 * failed[j] + 2 /\ 2 * failed[j] \in Nat /\ failed'[j] # 0
      BY <3>1
    <3>3. /\ Cost(j) = (IF torn[j] = 0 THEN 0 ELSE 2) + 2 * failed[j]
          /\ Cost(j)' = (IF torn'[j] = 0 THEN 0 ELSE 2) + 2 * failed'[j]
      BY DEF Cost
    <3> QED BY <3>1, <3>2, <3>3
  <2>3. CASE tail'[j] = tail[j]
    <3>1. Missing(j)' \in SUBSET (MissingBefore(j) \cup {Last(events[j])})
      BY <1>p, <2>1, <2>3 DEF Missing, MissingBefore
    <3>2. /\ Cardinality(Missing(j)') \in Nat
          /\ Cardinality(Missing(j)') <= Cardinality(MissingBefore(j)) + 1
      BY <1>m, <3>1, OneMoreEvent
    <3>3. Pending(tail[j])' = Pending(tail[j])
      BY <1>q, <2>3
    <3>4. Cardinality(Missing(j)') + Pending(tail[j])' <= Cost(j)'
      BY <1>l, <1>m, <2>1, <2>2, <3>2, <3>3
    <3>5. Cardinality(Missing(j)') <= Cost(j)'
      BY <1>l, <1>m, <2>1, <2>2, <3>2
    <3> QED BY <2>1, <2>2, <3>4, <3>5 DEF LossOf
  <2>4. CASE tail'[j] = Append(tail[j], Cut)
    <3>1. /\ Cardinality(Missing(j)') \in Nat
          /\ Cardinality(Missing(j)')
               <= Cardinality(MissingBefore(j)) + IF Parses(tail[j]) THEN 2 ELSE 1
      BY <2>1, <2>4, AppendLoss
    <3>2. Cardinality(Missing(j)') <= Cardinality(MissingBefore(j)) + Pending(tail[j]) + 1
      <4>1. Parses(tail[j]) => tail[j] # << >>
        BY NotParsed
      <4> QED BY <1>m, <3>1, <4>1 DEF Pending
    <3>3. Pending(tail[j])' <= 1
      <4>1. ~Parses(tail'[j])
        BY <1>s, <2>4, CutNotParsed
      <4> QED BY <1>q, <4>1 DEF Pending
    <3>4. Cardinality(Missing(j)') + Pending(tail[j])' <= Cost(j)'
      BY <1>l, <1>m, <2>1, <2>2, <3>1, <3>2, <3>3
    <3>5. Cardinality(Missing(j)') <= Cost(j)'
      BY <1>l, <1>m, <2>1, <2>2, <3>1, <3>2
    <3> QED BY <2>1, <2>2, <3>4, <3>5 DEF LossOf
  <2> QED BY <2>1, <2>3, <2>4
<1>5. CASE WriteNewline(j)
  <2>1. /\ pc[j] = "newline" /\ pc'[j] = "count" /\ UNCHANGED <<events, torn, failed, dropped>>
        /\ tail'[j] = << >>
        /\ lines'[j] = IF Parses(tail[j]) THEN lines[j] \o tail[j] ELSE lines[j]
    BY <1>5, <1>s DEF WriteNewline, Goto, historyVars
  <2>2. Parsed(j) = lines'[j] /\ lines'[j] \in Seq(Event)
    <3>1. Scan(lines[j], tail[j]) \in Seq(Event)
      BY <1>s, ScanType
    <3>2. ~Parses(tail[j]) => Scan(lines[j], tail[j]) = lines[j]
      BY <1>s, ScanSkips
    <3>3. Parses(tail[j]) => Scan(lines[j], tail[j]) = lines[j] \o tail[j]
      BY DEF Scan
    <3> QED BY <1>p, <2>1, <3>1, <3>2, <3>3
  <2>3. Parsed(j)' = lines'[j]
    <3>1. Scan(lines'[j], << >>) = lines'[j]
      BY <2>2, NotParsed, ScanSkips
    <3> QED BY <1>p, <2>1, <3>1
  <2>4. Missing(j)' = Missing(j) /\ Cost(j)' = Cost(j) /\ Pending(tail[j])' = 0
    BY <1>q, <2>1, <2>2, <2>3 DEF Missing, Cost, Pending
  <2>5. Cardinality(Missing(j)') + Pending(tail[j])' <= Cost(j)'
    BY <1>l, <1>m, <2>1, <2>4
  <2> QED BY <2>1, <2>5 DEF LossOf
<1>6. CASE NewlineFails(j)
  <2>1. /\ pc[j] = "newline" /\ pc'[j] = "count" /\ failed'[j] = failed[j] + 1
        /\ UNCHANGED <<events, lines, tail, torn, dropped>>
    BY <1>6, <1>s DEF NewlineFails, Goto, fileVars
  <2>2. Missing(j)' = Missing(j)
    BY <2>1 DEF Missing, Parsed
  <2>3. Cost(j)' = Cost(j) + 2 /\ failed'[j] # 0
    BY <1>m, <2>1 DEF Cost
  <2>4. Cardinality(Missing(j)') + Pending(tail[j])' <= Cost(j)'
    BY <1>l, <1>m, <2>1, <2>2, <2>3
  <2> QED BY <2>1, <2>3, <2>4 DEF LossOf
<1>7. CASE Count(j) \/ RewriteFails(j)
  <2>1. /\ pc[j] \in {"count", "truncate"} /\ pc'[j] \in {"idle", "truncate"}
        /\ UNCHANGED <<torn, failed, dropped, events, lines, tail>>
    BY <1>7, <1>s DEF Count, RewriteFails, Goto, historyVars, fileVars
  <2> QED BY <1>u, <2>1
<1>8. CASE Truncate(j) \/ FlushPart(j)
  <2>1. pc'[j] = "flush"
    BY <1>8, <1>s DEF Truncate, FlushPart, Goto, storeVars
  <2> QED BY <2>1 DEF LossOf
<1>9. CASE Flush(j)
  <2>1. /\ pc'[j] = "idle" /\ tail'[j] = << >> /\ events'[j] = events[j] /\ lines'[j] = events[j]
        /\ failed' = failed /\ torn' = torn
    BY <1>9, <1>s DEF Flush, Goto, historyVars
  <2>2. Scan(events[j], << >>) = events[j]
    BY <1>s, NotParsed, ScanSkips
  <2>3. Parsed(j)' = events[j]
    BY <1>p, <2>1, <2>2
  <2>4. Missing(j)' = {}
    BY <2>1, <2>3 DEF Missing
  <2> QED BY <1>s, <1>z, <2>1, <2>4
<1>10. CASE FlushFails(j)
  <2>1. /\ pc'[j] = "idle" /\ events' = events /\ torn' = torn /\ failed'[j] = failed[j] + 1
        /\ dropped'[j] = dropped[j] \cup ToSet(events[j])
    BY <1>10, <1>s DEF FlushFails, Goto
  <2>2. Missing(j)' = {}
    BY <2>1 DEF Missing
  <2>3. failed'[j] \in Nat /\ failed'[j] # 0 /\ torn'[j] \in Nat
    BY <1>s, <2>1
  <2> QED BY <1>z, <2>1, <2>2, <2>3
<1>11. CASE Stop(j)
  <2>1. pc'[j] = "down" /\ tail' = tail
    BY <1>11, <1>s DEF Stop, fileVars
  <2>2. tail[j] # << >> => torn'[j] = torn[j] + 1
    BY <1>11, <1>s DEF Stop
  <2>3. tail[j] # << >> => torn'[j] # 0
    BY <1>s, <2>2
  <2> QED BY <2>1, <2>3 DEF LossOf
<1>12. CASE Load(j) \/ LoadFails(j)
  <2>1. /\ pc[j] = "down" /\ pc'[j] \in {"idle", "truncate"}
        /\ UNCHANGED <<torn, failed, dropped, lines, tail>>
    BY <1>12, <1>s DEF Load, LoadFails, Goto, fileVars, historyVars
  <2>2. Parsed(j)' = Parsed(j) /\ Parsed(j) \in Seq(Event)
    <3>1. Scan(lines[j], tail[j]) \in Seq(Event)
      BY <1>s, ScanType
    <3> QED BY <1>p, <2>1, <3>1
  <2>3. ToSet(events'[j]) \subseteq ToSet(Parsed(j))
    <3>1. CASE Load(j)
      <4>1. events'[j] = Trim(Parsed(j), MaxSize)
        BY <1>s, <3>1 DEF Load
      <4> QED BY <2>2, <4>1, StoreAssumption, TrimMembers
    <3>2. CASE LoadFails(j)
      <4>1. events'[j] = << >>
        BY <1>s, <2>1, <3>2 DEF LoadFails
      <4> QED BY <4>1 DEF ToSet
    <3> QED BY <1>12, <3>1, <3>2
  <2>4. Missing(j)' = {}
    BY <2>2, <2>3 DEF Missing
  <2>5. failed'[j] \in Nat /\ torn'[j] \in Nat
    BY <1>s, <2>1
  <2> QED BY <1>l, <1>z, <2>1, <2>4, <2>5
<1>13. CASE BeginRead \/ (\E i \in Store : ReadFile(i) \/ ReadFails(i)) \/ UNCHANGED vars
  <2>1. UNCHANGED <<events, pc, lines, tail, torn, failed, dropped>>
    BY <1>13 DEF BeginRead, ReadFile, ReadFails, storeVars, fileVars, historyVars, vars
  <2>2. Missing(j)' = Missing(j) /\ MissingBefore(j)' = MissingBefore(j) /\ Cost(j)' = Cost(j)
    BY <2>1 DEF Missing, MissingBefore, Parsed, Cost
  <2> QED BY <1>l, <1>q, <2>1, <2>2 DEF LossOf
<1> QED
  BY <1>1, <1>2, <1>3, <1>4, <1>5, <1>6, <1>7, <1>8, <1>9, <1>10, <1>11, <1>12, <1>13 DEF Next

\* However often instances end in the middle of a line, at most two events of the
\* ring, and two for each write of the file that failed, are on no line of their own
\* but for those that were in the ring when a rewrite failed.
THEOREM StoreLossIsBounded == Spec => []LossIsBounded
<1>1. StoreInv /\ LossInv => LossIsBounded
  <2> SUFFICES ASSUME StoreInv, LossInv, NEW i \in Store, pc[i] = "idle"
               PROVE  Cardinality(ToSet(events[i]) \ (dropped[i] \cup ToSet(Parsed(i))))
                        <= (IF torn[i] = 0 THEN 0 ELSE 2) + 2 * failed[i]
    BY DEF LossIsBounded
  <2>1. Cardinality(Missing(i)) + Pending(tail[i]) <= Cost(i)
    BY DEF LossInv, LossOf
  <2>2. TypeOK
    BY DEF StoreInv, TypeInv
  <2>3. Missing(i) \in SUBSET (1 .. MaxEvents)
    BY <2>2, ReadType DEF Missing
  <2>4. Cardinality(Missing(i)) \in Nat /\ Cost(i) \in Nat /\ Pending(tail[i]) \in 0 .. 2
    <3>1. Cardinality(Missing(i)) \in Nat
      BY <2>3, FewerEvents
    <3>2. Cost(i) \in Nat
      BY <2>2 DEF TypeOK, Cost
    <3>3. Pending(tail[i]) \in 0 .. 2
      BY DEF Pending
    <3> QED BY <3>1, <3>2, <3>3
  <2>5. Cardinality(Missing(i)) <= Cost(i)
    BY <2>1, <2>4
  <2>6. Missing(i) = ToSet(events[i]) \ (dropped[i] \cup ToSet(Parsed(i)))
    BY DEF Missing
  <2> QED BY <2>5, <2>6 DEF Cost
<1>2. Init => LossInv
  BY LossInit
<1>3. StoreInv /\ LossInv /\ [Next]_vars => LossInv'
  BY LossStep
<1> QED BY <1>1, <1>2, <1>3, StoreInvariant, PTL DEF Spec
=============================================================================
