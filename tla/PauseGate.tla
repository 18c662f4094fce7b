------------------------------ MODULE PauseGate ------------------------------
(***************************************************************************)
(* What one project guardian promises about pausing, and nothing else.     *)
(*                                                                         *)
(* The guardian looks at its pause flag once per tick.  A tick that found  *)
(* the flag clear is "armed": it may still run the start script, whatever  *)
(* happens to the flag meanwhile.  The promise is therefore not that a     *)
(* paused project is never started automatically, but that it is started   *)
(* at most once, by the tick that was under way when the pause arrived.    *)
(* Guardian.tla implements this module.                                    *)
(***************************************************************************)
EXTENDS Naturals

VARIABLES
  gatePaused,  \* the guardian is paused
  armed,       \* a tick found the flag clear and may still launch
  launches     \* automatic launches made since the guardian was last paused

gateVars == <<gatePaused, armed, launches>>

Init ==
  /\ gatePaused = FALSE
  /\ armed = FALSE
  /\ launches = 0

Pause ==
  /\ gatePaused' = TRUE
  /\ launches' = IF gatePaused THEN launches ELSE 0
  /\ UNCHANGED armed

Resume ==
  /\ gatePaused' = FALSE
  /\ UNCHANGED <<armed, launches>>

Arm ==
  /\ ~gatePaused
  /\ armed' = TRUE
  /\ UNCHANGED <<gatePaused, launches>>

Disarm ==
  /\ armed' = FALSE
  /\ UNCHANGED <<gatePaused, launches>>

Launch ==
  /\ armed
  /\ armed' = FALSE
  /\ launches' = IF gatePaused THEN launches + 1 ELSE launches
  /\ UNCHANGED gatePaused

Next == Pause \/ Resume \/ Arm \/ Disarm \/ Launch

Spec == Init /\ [][Next]_gateVars
=============================================================================
