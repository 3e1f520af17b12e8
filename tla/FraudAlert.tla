----------------------------- MODULE FraudAlert -----------------------------
(***************************************************************************)
(* The FraudAlert aggregate of                                            *)
(* src/voxguard/anti-call-masking-platform/internal/domain/fraud/entity/   *)
(* alert.go: NewFraudAlert and the four behaviour methods as operators on *)
(* an alert record.  FraudAlertEntity applies them to one alert in         *)
(* sequence; FraudAlertService applies them to the copies its requests     *)
(* load from the repository.                                               *)
(*                                                                         *)
(* Timestamps and ids are abstracted to whether they are set; the          *)
(* confidence is an integer number of hundredths.                          *)
(***************************************************************************)
EXTENDS Naturals

CONSTANTS
    Users,        \* user ids passed to Acknowledge and Resolve
    Confidences,  \* detector confidences, in hundredths
    NoAlert       \* model value: no alert saved under the id

NoUser == "none"

Statuses == {"pending", "acknowledged", "investigating", "resolved",
             "reported_ncc"}

Alert == [status : Statuses, severity : 1..4, confidence : Confidences,
          ackBy : Users \cup {NoUser}, ackAt : BOOLEAN,
          resolvedBy : Users \cup {NoUser}, resolvedAt : BOOLEAN,
          nccReported : BOOLEAN]

(* NewFraudAlert: severity from confidence (SeverityLow = 1 ..             *)
(* SeverityCritical = 4), status pending, nothing acknowledged, resolved   *)
(* or reported.                                                            *)
(* Fault model for the severity: levels counted from 0, as a Severity     *)
(* enum declared with iota would be.                                       *)
SeverityOfFromZero(conf) ==
    CASE conf >= 90 -> 3
      [] conf >= 75 -> 2
      [] conf >= 50 -> 1
      [] OTHER      -> 0

SeverityOf(conf) ==
    CASE conf >= 90 -> 4
      [] conf >= 75 -> 3
      [] conf >= 50 -> 2
      [] OTHER      -> 1

NewFraudAlert(conf) ==
    [status |-> "pending", severity |-> SeverityOf(conf), confidence |-> conf,
     ackBy |-> NoUser, ackAt |-> FALSE, resolvedBy |-> NoUser,
     resolvedAt |-> FALSE, nccReported |-> FALSE]

(* Each method is a guard (its error return leaves the alert unchanged)    *)
(* and the record it produces.                                             *)
CanAcknowledge(a) == a.status = "pending"

Acknowledged(a, u) ==
    [a EXCEPT !.status = "acknowledged", !.ackBy = u, !.ackAt = TRUE]

CanStartInvestigation(a) == a.status = "acknowledged"

Investigating(a) == [a EXCEPT !.status = "investigating"]

CanResolve(a) == a.status # "resolved"

Resolved(a, u) ==
    [a EXCEPT !.status = "resolved", !.resolvedBy = u, !.resolvedAt = TRUE]

(* ReportToNCC has no guard and cannot fail.                               *)
ReportedToNCC(a) == [a EXCEPT !.status = "reported_ncc", !.nccReported = TRUE]
=============================================================================
