----------------------------- MODULE MCGuardian -----------------------------
(* Guardian with one or two callers, for TLC. *)
EXTENDS Guardian, TLC

CONSTANTS loop, c1, c2

OneCaller  == {c1}
TwoCallers == {c1, c2}
CallerSymmetry == Permutations(TwoCallers)

\* All but fails, which no action and no property of the run reads.
SafetyView == <<fields, stopping, pc, reg, restarting, proc, requests,
                pausedLaunches, overlapped>>
=============================================================================
