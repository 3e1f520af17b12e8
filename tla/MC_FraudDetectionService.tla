----------------------- MODULE MC_FraudDetectionService -----------------------
(* Instantiation of FraudDetectionService for TLC: one call, at most one   *)
(* disconnect request, a size trigger of two events (50 in                 *)
(* fraud_handler.go) so that size-triggered flushes happen.               *)
EXTENDS FraudDetectionService, TLC

CONSTANTS c1, d1

MCOneCall == {c1}
MCOneCallLists == {<<c1>>}
=============================================================================
