----------------------------- MODULE AuditService -----------------------------
(***************************************************************************)
(* AuditService of src/services/management-api/internal/domain/security/   *)
(* service/audit_service.go over the audit_events and security_events      *)
(* tables of PostgresSecurityRepository.  LogAuthEvent and LogEvent insert *)
(* one audit row; LogSecurityEvent inserts a security event and then its   *)
(* audit row; ResolveSecurityEvent reads the event, refuses a resolved     *)
(* one, writes the resolution and audits it.  Every repository call is one *)
(* atomic SQL statement, and requests run concurrently.                    *)
(* GenerateComplianceReport reads the same audit_events table with a      *)
(* series of separate statements (GetAuditStats, then three                *)
(* QueryAuditEvents), each of which sees the table as it is when it runs.  *)
(***************************************************************************)
EXTENDS Integers, Sequences, FiniteSets

CONSTANTS
    EventIds,       \* security event ids (uuid.New in LogSecurityEvent)
    Users,          \* user ids
    AuthActions,    \* actions AuthService passes to LogAuthEvent
    Workers,        \* concurrent requests
    MaxRequests,    \* bound on requests in a behaviour
    DbFailures,     \* TRUE: an INSERT or UPDATE may fail
    NoRow,          \* model value: no row
    NoUser,         \* model value: resolved_by is NULL
    ReportLimit     \* the page size GenerateComplianceReport asks for (1000)

Severities == {"low", "medium", "high", "critical"}

(* The audit_events columns the model tells apart: what was done, to which *)
(* resource, by whom, with which status and severity.                      *)
AuditEvent == [action : STRING, resource : EventIds \cup {"auth"},
               user : Users, status : {"success", "failure"}, severity : Severities]

(* The security_events columns: severity, is_resolved and resolved_by.     *)
SecurityEvent == [severity : Severities, resolved : BOOLEAN, resolvedBy : Users \cup {NoUser}]

VARIABLES
    auditEvents,    \* audit_events rows in insertion order
    securityEvents, \* security_events row per id, or NoRow
    worker,         \* per request: pc, event id, user, copy of the row read
    requests,       \* requests started so far
    report          \* per request: the compliance report being read, or NoRow

vars == <<auditEvents, securityEvents, worker, requests, report>>

Worker == [pc : {"idle", "audit", "update", "report"}, ev : EventIds, user : Users,
           copy : SecurityEvent \cup {NoRow}, pending : AuditEvent \cup {NoRow}]

(* The figures of GenerateComplianceReport the model tells apart: the      *)
(* AuditStats counts (total, per severity, failures) and the number of    *)
(* events each of the three event lists holds; next is the statement the  *)
(* request runs next.                                                       *)
Report == [next : Nat, total : Nat, bySeverity : [Severities -> Nat],
           failures : Nat, high : Nat, critical : Nat, failedAuth : Nat]

TypeOK ==
    /\ auditEvents \in Seq(AuditEvent)
    /\ securityEvents \in [EventIds -> SecurityEvent \cup {NoRow}]
    /\ worker \in [Workers -> Worker]
    /\ requests \in 0..MaxRequests
    /\ report \in [Workers -> Report \cup {NoRow}]

Init ==
    /\ auditEvents = <<>>
    /\ securityEvents = [e \in EventIds |-> NoRow]
    /\ worker = [w \in Workers |-> [pc |-> "idle", ev |-> CHOOSE e \in EventIds : TRUE,
                                    user |-> CHOOSE u \in Users : TRUE,
                                    copy |-> NoRow, pending |-> NoRow]]
    /\ requests = 0
    /\ report = [w \in Workers |-> NoRow]

Start(w) ==
    /\ worker[w].pc = "idle"
    /\ requests < MaxRequests
    /\ requests' = requests + 1

(* The repository's statements on the two tables.  CreateAuditEvent       *)
(* inserts an audit row; CreateSecurityEvent inserts an unresolved event;  *)
(* GetSecurityEventByID reads the row (NoRow: "security event not found"); *)
(* UpdateSecurityEvent writes is_resolved and resolved_by of the given     *)
(* event WHERE id = $1, whatever the row holds now.                        *)
CreateAuditEvent(ev) == Append(auditEvents, ev)

InsertSecurityEvent(e, sev) ==
    [securityEvents EXCEPT ![e] = [severity |-> sev, resolved |-> FALSE, resolvedBy |-> NoUser]]

GetSecurityEventByID(e) == securityEvents[e]

UpdateSecurityEventRow(e, ev) == [securityEvents EXCEPT ![e] = ev]

(* LogEvent: CreateAuditEvent; its error is returned, and every caller     *)
(* only logs it.                                                            *)
LogEvent(ev) ==
    \/ auditEvents' = CreateAuditEvent(ev)
    \/ DbFailures /\ UNCHANGED auditEvents

(* LogAuthEvent: failure raises the severity to medium, a lock event to    *)
(* high whatever the outcome.                                              *)
AuthSeverity(action, success) ==
    IF action \in {"account_locked", "login_locked"} THEN "high"
    ELSE IF success THEN "low" ELSE "medium"

LogAuthEvent(w, u, action, success) ==
    /\ Start(w)
    /\ LogEvent([action |-> action, resource |-> "auth", user |-> u,
                status |-> IF success THEN "success" ELSE "failure",
                severity |-> AuthSeverity(action, success)])
    /\ UNCHANGED <<securityEvents, worker>>

(* LogSecurityEvent: CreateSecurityEvent under a fresh id (an error is      *)
(* returned) ...                                                            *)
CreateSecurityEvent(w, u, sev) ==
    /\ Start(w)
    /\ \E e \in EventIds :
          /\ securityEvents[e] = NoRow
          /\ \/ /\ securityEvents' = InsertSecurityEvent(e, sev)
                /\ worker' = [worker EXCEPT ![w].pc = "audit", ![w].pending =
                                 [action |-> "security_event", resource |-> e, user |-> u,
                                  status |-> "success", severity |-> sev]]
             \/ DbFailures /\ UNCHANGED <<securityEvents, worker>>
    /\ UNCHANGED auditEvents

(* ... and the audit row of a security event or of a resolution.           *)
LogPendingEvent(w) ==
    /\ worker[w].pc = "audit"
    /\ LogEvent(worker[w].pending)
    /\ worker' = [worker EXCEPT ![w].pc = "idle", ![w].pending = NoRow]
    /\ UNCHANGED <<securityEvents, requests>>

(* ResolveSecurityEvent: GetSecurityEventByID; a missing event or one that *)
(* IsResolved is an error.                                                  *)
ResolveRead(w, e, u) ==
    LET row == GetSecurityEventByID(e) IN
    /\ Start(w)
    /\ row # NoRow
    /\ worker' = [worker EXCEPT ![w] = [@ EXCEPT !.pc = IF row.resolved THEN "idle" ELSE "update",
                                               !.ev = e, !.user = u, !.copy = row]]
    /\ UNCHANGED <<auditEvents, securityEvents>>

(* then UpdateSecurityEvent writes is_resolved, resolved_by, resolved_at   *)
(* and the note from the copy (an error is returned), and LogEvent audits  *)
(* the resolution at medium severity.                                       *)
UpdateSecurityEvent(w) ==
    LET e == worker[w].ev IN
    /\ worker[w].pc = "update"
    /\ \/ /\ securityEvents' = UpdateSecurityEventRow(e,
                                  [worker[w].copy EXCEPT !.resolved = TRUE, !.resolvedBy = worker[w].user])
          /\ worker' = [worker EXCEPT ![w].pc = "audit", ![w].pending =
                           [action |-> "resolve_security_event", resource |-> e,
                            user |-> worker[w].user, status |-> "success", severity |-> "medium"]]
       \/ DbFailures /\ UNCHANGED securityEvents /\ worker' = [worker EXCEPT ![w].pc = "idle"]
    /\ UNCHANGED <<auditEvents, requests>>

(* The statements of GetAuditStats and QueryAuditEvents over the audit    *)
(* rows (the report's time window holds every row).  The counts by action  *)
(* and by resource_type are not observed here.                             *)
(* An AuditFilter's WHERE clause: an empty field puts no condition.      *)
Filter(action, status, severity) == [action |-> action, status |-> status, severity |-> severity]

CountWhere(f) ==
    Len(SelectSeq(auditEvents, LAMBDA ev : /\ f.action \in {"", ev.action}
                                           /\ f.status \in {"", ev.status}
                                           /\ f.severity \in {"", ev.severity}))

StatsTotal == Len(auditEvents)

StatsBySeverity == [s \in Severities |-> CountWhere(Filter("", "", s))]

StatsFailures == CountWhere(Filter("", "failure", ""))

(* QueryAuditEvents(filter, 1, pageSize): the first page of the matching  *)
(* rows; its row count, also returned, is discarded by the report.           *)
QueryAuditEvents(f, pageSize) ==
    LET n == CountWhere(f) IN IF n < pageSize THEN n ELSE pageSize

(* Fault model for GenerateComplianceReport: the three event lists are     *)
(* queried before the statistics.                                          *)
ReportStepsListsFirst == <<"high", "critical", "failedAuth", "total", "severity", "failures">>

(* GenerateComplianceReport: GetAuditStats (total, by severity and, when   *)
(* the total is not zero, the failure count for FailureRate), then the     *)
(* high-severity, critical and failed-login lists.                         *)
ReportSteps == <<"total", "severity", "failures", "high", "critical", "failedAuth">>

RunReportStatement(name, r) ==
    CASE name = "total"      -> [r EXCEPT !.total = StatsTotal]
      [] name = "severity"   -> [r EXCEPT !.bySeverity = StatsBySeverity]
      [] name = "failures"   -> [r EXCEPT !.failures = IF r.total > 0 THEN StatsFailures ELSE 0]
      [] name = "high"       -> [r EXCEPT !.high =
                                    QueryAuditEvents(Filter("", "", "high"), ReportLimit)]
      [] name = "critical"   -> [r EXCEPT !.critical =
                                    QueryAuditEvents(Filter("", "", "critical"), ReportLimit)]
      [] name = "failedAuth" -> [r EXCEPT !.failedAuth =
                                    QueryAuditEvents(Filter("login_failure", "failure", ""),
                                                     ReportLimit)]

StartReport(w) ==
    /\ Start(w)
    /\ worker' = [worker EXCEPT ![w].pc = "report"]
    /\ report' = [report EXCEPT ![w] =
                     [next |-> 1, total |-> 0, bySeverity |-> [s \in Severities |-> 0],
                      failures |-> 0, high |-> 0, critical |-> 0, failedAuth |-> 0]]
    /\ UNCHANGED <<auditEvents, securityEvents>>

(* One statement of the report; an error of any of them returns the error  *)
(* and no report, except the failure count (run only for a non-zero       *)
(* total), whose error GetAuditStats ignores: FailureRate stays zero.      *)
ReportStatement(w) ==
    LET r == report[w]
        name == ReportSteps[r.next]
    IN  /\ worker[w].pc = "report"
        /\ \/ /\ report' = [report EXCEPT ![w] =
                                [RunReportStatement(name, r) EXCEPT !.next = r.next + 1]]
              /\ worker' = IF r.next = Len(ReportSteps)
                           THEN [worker EXCEPT ![w].pc = "idle"] ELSE worker
           \/ /\ DbFailures
              /\ name # "failures"
              /\ report' = [report EXCEPT ![w] = NoRow]
              /\ worker' = [worker EXCEPT ![w].pc = "idle"]
           \/ /\ DbFailures
              /\ name = "failures"
              /\ r.total > 0
              /\ report' = [report EXCEPT ![w].next = r.next + 1]
              /\ UNCHANGED worker
        /\ UNCHANGED <<auditEvents, securityEvents, requests>>

Next ==
    \E w \in Workers :
       \/ StartReport(w)
       \/ ReportStatement(w)
       \/ /\ UNCHANGED report
          /\ \/ \E u \in Users :
                   \/ \E a \in AuthActions, s \in BOOLEAN : LogAuthEvent(w, u, a, s)
                   \/ \E sev \in Severities : CreateSecurityEvent(w, u, sev)
                   \/ \E e \in EventIds : ResolveRead(w, e, u)
             \/ LogPendingEvent(w)
             \/ UpdateSecurityEvent(w)

Spec == Init /\ [][Next]_vars
-----------------------------------------------------------------------------
(* Properties *)

(* ResolveSecurityEvent refuses an event that is already resolved ("security *)
(* event already resolved"): once a security event is resolved, no request *)
(* changes its resolution, so resolved_by names the one reviewer the audit *)
(* trail credits with it.                                                    *)
ResolutionNeverOverwritten ==
    [][\A e \in EventIds :
          securityEvents[e] # NoRow /\ securityEvents[e].resolved
            => securityEvents'[e] = securityEvents[e]]_vars

Quiescent == \A w \in Workers : worker[w].pc = "idle"

HasAuditRow(action, e, P(_)) ==
    \E i \in 1..Len(auditEvents) :
        auditEvents[i].action = action /\ auditEvents[i].resource = e /\ P(auditEvents[i])

(* A finished compliance report lists every high-severity and critical     *)
(* event its statistics count: GenerateComplianceReport runs GetAuditStats *)
(* before the list queries, and audit_events only grows, so events logged  *)
(* by concurrent requests between the statements can only add to the       *)
(* lists (up to the page size).                                            *)
ReportListsCountedEvents ==
    \A w \in Workers :
        (report[w] # NoRow /\ report[w].next > Len(ReportSteps)) =>
          /\ report[w].high >= IF report[w].bySeverity["high"] < ReportLimit
                               THEN report[w].bySeverity["high"] ELSE ReportLimit
          /\ report[w].critical >= IF report[w].bySeverity["critical"] < ReportLimit
                                   THEN report[w].bySeverity["critical"] ELSE ReportLimit
=============================================================================
