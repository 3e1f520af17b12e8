----------------------------- MODULE Compliance -----------------------------
(***************************************************************************)
(* The Compliance entities of src/anti-call-masking/                       *)
(* anti-call-masking-platform/internal/domain/compliance/entity/           *)
(* compliance.go: one NCCReport, from NewNCCReport through Approve,        *)
(* Submit, MarkAccepted and MarkRejected, and one SettlementDispute, from  *)
(* NewSettlementDispute through AddEvidence, Resolve and Escalate.  Any    *)
(* method may be called at any time; a method's error leaves the entity    *)
(* as it was.  Titles, summaries, amounts and timestamps are left out.     *)
(***************************************************************************)
EXTENDS Naturals, Sequences

CONSTANTS
    ReportTypes,    \* daily, weekly, monthly, incident, audit
    Users,          \* generatedBy, approverID, submitterID
    References,     \* NCC references a submission receives
    Counts,         \* call counts SetStatistics may be given
    Evidence,       \* evidence ids
    Resolutions,    \* resolution texts
    MaxEvidence,    \* bound on AddEvidence calls
    None            \* model value: a nil pointer field

ReportStatuses == {"draft", "pending", "submitted", "accepted", "rejected"}

VARIABLES
    report,     \* the NCCReport's modelled fields
    dispute     \* the SettlementDispute's modelled fields

cvars == <<report, dispute>>

CTypeOK ==
    /\ report \in [type : ReportTypes, status : ReportStatuses,
                   generatedBy : Users, approvedBy : Users \cup {None},
                   submittedBy : Users \cup {None},
                   nccReference : References \cup {None},
                   totalCalls : Counts, fraudCalls : Counts]
    /\ dispute \in [status : {"open", "resolved", "escalated"},
                    evidence : Seq(Evidence), resolution : Resolutions \cup {None}]

(* NewNCCReport: a draft; NewSettlementDispute: open, no evidence.         *)
NewNCCReport(t, u) ==
    [type |-> t, status |-> "draft", generatedBy |-> u, approvedBy |-> None,
     submittedBy |-> None, nccReference |-> None, totalCalls |-> 0, fraudCalls |-> 0]

NewSettlementDispute == [status |-> "open", evidence |-> <<>>, resolution |-> None]

CInit ==
    /\ \E t \in ReportTypes, u \in Users : report = NewNCCReport(t, u)
    /\ dispute = NewSettlementDispute

(* SetStatistics overwrites the counts.                                    *)
SetStatistics(total, fraud) ==
    /\ report' = [report EXCEPT !.totalCalls = total, !.fraudCalls = fraud]
    /\ UNCHANGED dispute

(* Approve: only a draft; it becomes pending with its approver.            *)
Approve(u) ==
    /\ report.status = "draft"
    /\ report' = [report EXCEPT !.status = "pending", !.approvedBy = u]
    /\ UNCHANGED dispute

(* Fault model for Submit: the pending check is left out.                  *)
SubmitUnchecked(u, ref) ==
    /\ report' = [report EXCEPT !.status = "submitted", !.submittedBy = u,
                                !.nccReference = ref]
    /\ UNCHANGED dispute

(* Submit: only a pending report; it records submitter and reference.      *)
Submit(u, ref) ==
    /\ report.status = "pending"
    /\ report' = [report EXCEPT !.status = "submitted", !.submittedBy = u,
                                !.nccReference = ref]
    /\ UNCHANGED dispute

(* MarkAccepted and MarkRejected set the status whatever it was.           *)
MarkAccepted ==
    /\ report' = [report EXCEPT !.status = "accepted"]
    /\ UNCHANGED dispute

MarkRejected ==
    /\ report' = [report EXCEPT !.status = "rejected"]
    /\ UNCHANGED dispute

AddEvidence(e) ==
    /\ Len(dispute.evidence) < MaxEvidence
    /\ dispute' = [dispute EXCEPT !.evidence = Append(@, e)]
    /\ UNCHANGED report

(* Resolve and Escalate set the status whatever it was.                    *)
ResolveDispute(r) ==
    /\ dispute' = [dispute EXCEPT !.status = "resolved", !.resolution = r]
    /\ UNCHANGED report

Escalate ==
    /\ dispute' = [dispute EXCEPT !.status = "escalated"]
    /\ UNCHANGED report

CNext ==
    \/ \E t, f \in Counts : SetStatistics(t, f)
    \/ \E u \in Users : Approve(u)
    \/ \E u \in Users, ref \in References : Submit(u, ref)
    \/ MarkAccepted \/ MarkRejected
    \/ \E e \in Evidence : AddEvidence(e)
    \/ \E r \in Resolutions : ResolveDispute(r)
    \/ Escalate

CSpec == CInit /\ [][CNext]_cvars
-----------------------------------------------------------------------------
(* Properties *)

(* "Approve approves the report for submission": a report that carries an *)
(* NCC reference went through Approve first, whatever other methods were  *)
(* called in between, so its approver is recorded.                         *)
SubmissionFollowsApproval ==
    report.nccReference # None => report.approvedBy # None
=============================================================================
