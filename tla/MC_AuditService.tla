--------------------------- MODULE MC_AuditService ---------------------------
(* Instantiation of AuditService for TLC: one security event, two          *)
(* reviewers, two concurrent requests.                                     *)
EXTENDS AuditService

CONSTANTS e1, u1, u2, w1, w2

MCEventIds == {e1}
MCUsers == {u1, u2}
MCWorkers == {w1, w2}
=============================================================================
