-------------------------- MODULE FraudAlertEntity --------------------------
(***************************************************************************)
(* One FraudAlert (alert.go), its methods called one after the other, as  *)
(* the aggregate's own tests do.  StartInvestigation is reachable only     *)
(* here: FraudService exposes no use case for it.                          *)
(***************************************************************************)
EXTENDS FraudAlert

VARIABLES
    alert,      \* the aggregate, or NoAlert before NewFraudAlert
    passedAck   \* history: the alert has been in status acknowledged

avars == <<alert, passedAck>>

TypeOK ==
    /\ alert \in Alert \cup {NoAlert}
    /\ passedAck \in BOOLEAN

Init ==
    /\ alert = NoAlert
    /\ passedAck = FALSE

Create(conf) ==
    /\ alert = NoAlert
    /\ alert' = NewFraudAlert(conf)
    /\ UNCHANGED passedAck

Acknowledge(u) ==
    /\ alert # NoAlert
    /\ CanAcknowledge(alert)
    /\ alert' = Acknowledged(alert, u)
    /\ passedAck' = TRUE

StartInvestigation ==
    /\ alert # NoAlert
    /\ CanStartInvestigation(alert)
    /\ alert' = Investigating(alert)
    /\ UNCHANGED passedAck

Resolve(u) ==
    /\ alert # NoAlert
    /\ CanResolve(alert)
    /\ alert' = Resolved(alert, u)
    /\ UNCHANGED passedAck

ReportToNCC ==
    /\ alert # NoAlert
    /\ alert' = ReportedToNCC(alert)
    /\ UNCHANGED passedAck

Next ==
    \/ \E conf \in Confidences : Create(conf)
    \/ \E u \in Users : Acknowledge(u) \/ Resolve(u)
    \/ StartInvestigation
    \/ ReportToNCC

Spec == Init /\ [][Next]_avars

-----------------------------------------------------------------------------
(* Properties *)

(* Spec 6: acknowledged_at is set exactly when the alert has passed        *)
(* through acknowledged, and acknowledged_by with it: Resolve from pending *)
(* and ReportToNCC must not pretend an acknowledgement, and no later       *)
(* method may erase one.                                                   *)
AckRecordedIffPassedAck ==
    alert # NoAlert =>
        /\ alert.ackAt <=> passedAck
        /\ alert.ackAt <=> alert.ackBy # NoUser

(* The alert's status moves only along the lifecycle of AlertLifecycle.    *)
Lifecycle == INSTANCE AlertLifecycle
                 WITH lstatus <- IF alert = NoAlert THEN "none" ELSE alert.status

ImplementsLifecycle == Lifecycle!LSpec
=============================================================================
