---------------------------- MODULE MC_FraudAlertEntity ----------------------------
(* Two users and one confidence on each side of every severity boundary    *)
(* of NewFraudAlert (0.5, 0.75, 0.9) and of ShouldAutoEscalate (0.95).     *)
EXTENDS FraudAlertEntity, TLC

CONSTANTS u1, u2

MCUsers == {u1, u2}
MCConfidences == {49, 50, 74, 75, 89, 90, 94, 95}

UserSymmetry == Permutations(MCUsers)
=============================================================================
