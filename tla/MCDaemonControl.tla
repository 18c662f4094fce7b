--------------------------- MODULE MCDaemonControl ---------------------------
(* DaemonControl with two or three projects and one or two handlers, for TLC. *)
EXTENDS DaemonControl, TLC

CONSTANTS h1, h2, n1, n2

TwoNames    == {n1, n2}
OwnNames    == 1 :> n1 @@ 2 :> n2
SharedName  == 1 :> n1 @@ 2 :> n2 @@ 3 :> n1
OneHandler  == {h1}
TwoHandlers == {h1, h2}
=============================================================================
