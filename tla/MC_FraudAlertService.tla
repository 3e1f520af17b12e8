------------------------- MODULE MC_FraudAlertService -------------------------
(* Two users, two concurrent requests, and confidences on both sides of    *)
(* the auto-escalation threshold.                                          *)
EXTENDS FraudAlertService, TLC

CONSTANTS u1, u2, w1, w2, v1

MCUsers == {u1, u2}
MCConfidences == {49, 95}

UserSymmetry == Permutations(MCUsers)
=============================================================================
