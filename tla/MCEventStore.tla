---------------------------- MODULE MCEventStore ----------------------------
(* EventStore for TLC: lines of two widths, and stores that look alike. *)
EXTENDS EventStore

MCLineSize == [e \in 1 .. MaxEvents |-> IF e % 3 = 1 THEN 2 ELSE 3]

\* No property says anything of a reading once a line is torn or a write failed,
\* and a reading changes nothing of the stores.
ReadingIsOwed == unread # {} => \A i \in Store : torn[i] = 0 /\ failed[i] = 0

StoreSymmetry == Permutations(Store)
=============================================================================
