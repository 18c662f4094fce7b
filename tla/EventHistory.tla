---------------------------- MODULE EventHistory ----------------------------
(***************************************************************************)
(* What an event store (internal/logger/event.go) promises its callers,    *)
(* without files: it recalls events that it recorded, in the order they    *)
(* happened, each once, and no more than MaxSize of them.  A restart may   *)
(* forget some; it invents, repeats and reorders none.                     *)
(*                                                                         *)
(* An event stands for the instant of its time.Now(): a number that grows. *)
(***************************************************************************)
EXTENDS Naturals, Sequences

CONSTANTS
  Store,     \* the stores: one for each instance
  MaxSize    \* NewEventStore's maxSize, 100 in logger.New

VARIABLES
  recorded,  \* the events each store was given, since it was installed
  recall     \* the events each store would return

hvars == <<recorded, recall>>

\* The last n elements of s, or all of them.
Trim(s, n) == IF Len(s) > n THEN SubSeq(s, Len(s) - n + 1, Len(s)) ELSE s

Increasing(s) == \A k \in 1 .. Len(s) : \A l \in 1 .. Len(s) : k < l => s[k] < s[l]

Init ==
  /\ recorded = [i \in Store |-> {}]
  /\ recall = [i \in Store |-> << >>]

\* A new event is later than any before it, and is the last one recalled.
Record(i, e) ==
  /\ \A j \in Store : \A f \in recorded[j] : f < e
  /\ recorded' = [recorded EXCEPT ![i] = @ \cup {e}]
  /\ recall' = [recall EXCEPT ![i] = Trim(Append(@, e), MaxSize)]

\* The instance ends, and its memory with it.
Forget(i) == recall' = [recall EXCEPT ![i] = << >>] /\ UNCHANGED recorded

\* The instance is back and recalls some of what it recorded, in order.
Recover(i) ==
  /\ recall[i] = << >>
  /\ recall' = [recall EXCEPT ![i] = recall'[i]]
  /\ recall'[i] \in Seq(recorded[i])
  /\ Increasing(recall'[i])
  /\ Len(recall'[i]) <= MaxSize
  /\ UNCHANGED recorded

Next == \E i \in Store :
  \/ \E e \in recorded'[i] : Record(i, e)
  \/ Forget(i)
  \/ Recover(i)

Spec == Init /\ [][Next]_hvars
=============================================================================
