------------------------------ MODULE MC_Runtime ------------------------------
(***************************************************************************)
(* The management API's request pipeline (RateLimiter, JWTAuth,           *)
(* RequireRole, two requests in flight), the Vault client's token renewal, *)
(* the fraud-detection service's event buffer and disconnect path, and the *)
(* audit service's writers and compliance-report reader, put side by side  *)
(* for one TLC run.  They share no state, so a behaviour picks one of them *)
(* in its first state and only that one steps; the others' variables hold *)
(* Off.  Each keeps its own fairness.                                      *)
(***************************************************************************)
EXTENDS Integers, TLC

CONSTANTS
    Off,                            \* value of an idle component's variables
    ip1, ip2, w1, w2, NoToken, NoTtl, \* request pipeline
    c1, d1,                           \* fraud-detection service
    e1, u1, u2, NoRow, NoUser         \* audit service

Components == {"pipe", "vault", "fds", "audit"}

VARIABLES
    comp,
    counter, ttl, worker, requests,                         \* request pipeline
    vnow, tokenExpiry, client, renewer, nextTick, chanClosed, kv, lastCall, \* Vault
    dialog, outbox, handlers, activeCalls, buffer, spawned, inflight,
    received, dropped, dispatch, dreqs, accepted, \* fraud detection
    auditEvents, securityEvents, aWorker, aRequests, report           \* audit service

pv == <<counter, ttl, worker, requests>>
vv == <<vnow, tokenExpiry, client, renewer, nextTick, chanClosed, kv, lastCall>>
fv == <<dialog, outbox, handlers, activeCalls, buffer, spawned, inflight,
        received, dropped, dispatch, dreqs, accepted>>
av == <<auditEvents, securityEvents, aWorker, aRequests, report>>
vars == <<comp, pv, vv, fv, av>>

POff == counter = Off /\ ttl = Off /\ worker = Off /\ requests = Off
VOff ==
    /\ vnow = Off /\ tokenExpiry = Off /\ client = Off /\ renewer = Off
    /\ nextTick = Off /\ chanClosed = Off /\ kv = Off /\ lastCall = Off
FOff ==
    /\ dialog = Off /\ outbox = Off /\ handlers = Off /\ activeCalls = Off
    /\ buffer = Off /\ spawned = Off /\ inflight = Off /\ received = Off
    /\ dropped = Off /\ dispatch = Off /\ dreqs = Off
    /\ accepted = Off
AOff ==
    /\ auditEvents = Off /\ securityEvents = Off /\ aWorker = Off
    /\ aRequests = Off /\ report = Off
-----------------------------------------------------------------------------
(* Two clients, a limit of one request per window (100 in main.go) so that *)
(* a second request of one client is refused, a window of two ticks, and   *)
(* a valid admin, a valid analyst, an expired superadmin and an unsigned    *)
(* admin token.                                                            *)
P == INSTANCE RequestPipeline WITH
        IPs <- {ip1, ip2},
        Tokens <- { [alg |-> "HS256", expired |-> FALSE, roles |-> {"admin"}],
                    [alg |-> "HS256", expired |-> FALSE, roles |-> {"analyst"}],
                    [alg |-> "HS512", expired |-> TRUE,  roles |-> {"superadmin"}],
                    [alg |-> "none",  expired |-> FALSE, roles |-> {"admin"}] },
        Limit <- 1, Window <- 2, Workers <- {w1, w2}, RequestBound <- 3,
        RedisFailures <- FALSE

(* A client built with a token that lives two ticker periods and is given *)
(* two periods on renewal, RenewSelf failing or not, over three periods;   *)
(* its secret calls on the JWT and NCC paths in any order.                 *)
V == INSTANCE VaultClient WITH
        HasToken <- TRUE, InitialTTL <- 2, TokenTTL <- 2, RenewInterval <- 1,
        MaxTime <- 3, RenewFailures <- TRUE

(* One call, the SBC posting events singly or in batches, at most one     *)
(* disconnect request, a size trigger of two events (50 in               *)
(* fraud_handler.go) so that size-triggered flushes happen.               *)
F == INSTANCE FraudDetectionService WITH
        Calls <- {c1}, Dispatchers <- {d1}, DisconnectLists <- {<<c1>>},
        FlushHighWatermark <- 2, ReportModes <- {"single", "batch"},
        MaxDisconnectRequests <- 1

(* One security event, two reviewers and two concurrent requests, three   *)
(* requests in all: enough for a double resolution, or for a report with  *)
(* a security event and its audit row logged between its statements.      *)
A == INSTANCE AuditService WITH
        EventIds <- {e1}, Users <- {u1, u2}, AuthActions <- {"login_failure"},
        Workers <- {w1, w2}, MaxRequests <- 3, DbFailures <- FALSE,
        ReportLimit <- 1000, worker <- aWorker, requests <- aRequests
-----------------------------------------------------------------------------
Init ==
    /\ comp \in Components
    /\ IF comp = "pipe" THEN P!Init ELSE POff
    /\ IF comp = "vault" THEN V!VInit ELSE VOff
    /\ IF comp = "fds" THEN F!Init ELSE FOff
    /\ IF comp = "audit" THEN A!Init ELSE AOff

Next ==
    \/ comp = "pipe" /\ P!Next /\ UNCHANGED <<comp, vv, fv, av>>
    \/ comp = "vault" /\ V!VNext /\ UNCHANGED <<comp, pv, fv, av>>
    \/ comp = "fds" /\ F!Next /\ UNCHANGED <<comp, pv, vv, av>>
    \/ comp = "audit" /\ A!Next /\ UNCHANGED <<comp, pv, vv, fv>>

(* Each component's own fairness, on its own steps.                        *)
Fairness ==
    /\ WF_vars(comp = "pipe" /\ P!Tick /\ UNCHANGED <<comp, vv, fv, av>>)
    /\ \A w \in {w1, w2} :
          /\ WF_vars(comp = "pipe" /\ P!Expire(w) /\ UNCHANGED <<comp, vv, fv, av>>)
          /\ WF_vars(comp = "pipe" /\ P!Handle(w) /\ UNCHANGED <<comp, vv, fv, av>>)
    /\ WF_vars(comp = "vault" /\ V!TickerFires /\ UNCHANGED <<comp, pv, fv, av>>)
    /\ WF_vars(comp = "vault" /\ V!RenewSelf /\ UNCHANGED <<comp, pv, fv, av>>)
    /\ WF_vars(comp = "vault" /\ V!StopRenewal /\ UNCHANGED <<comp, pv, fv, av>>)
    /\ WF_vars(comp = "fds" /\ F!HandlerNext /\ UNCHANGED <<comp, pv, vv, av>>)
    /\ WF_vars(comp = "fds" /\ F!FlushGoroutine /\ UNCHANGED <<comp, pv, vv, av>>
                /\ UNCHANGED <<dialog, outbox, handlers, activeCalls, accepted,
                               dispatch, dreqs>>)
    /\ WF_vars(comp = "fds" /\ F!TickerFlush /\ UNCHANGED <<comp, pv, vv, av>>
                /\ UNCHANGED <<dialog, outbox, handlers, activeCalls, accepted,
                               dispatch, dreqs>>)
    /\ WF_vars(comp = "fds" /\ (\E b \in inflight : F!FlushPost(b))
                /\ UNCHANGED <<comp, pv, vv, av>>
                /\ UNCHANGED <<dialog, outbox, handlers, activeCalls, accepted,
                               dispatch, dreqs>>)
    /\ WF_vars(comp = "fds" /\ F!DispatcherStep(d1) /\ UNCHANGED <<comp, pv, vv, av>>)

Spec == Init /\ [][Next]_vars /\ Fairness
-----------------------------------------------------------------------------
(* Each component's properties of its own module, on its own behaviours.  *)
(* TLC evaluates the state predicates of a leads-to on every state, so the *)
(* component test comes first in each of them.                             *)

(* VaultClient's RenewalStopsAfterClose: once Close has closed tokenRenew, *)
(* renewToken returns.                                                     *)
RenewalStopsAfterClose ==
    (comp = "vault" /\ chanClosed) ~> (comp = "vault" /\ renewer \in {"none", "stopped"})

(* FraudDetectionService's type invariant.                                 *)
FdsTypeOK == comp = "fds" => F!TypeOK

(* FraudDetectionService's BufferConservation: every event a handler       *)
(* appended to callEventsBuffer is in exactly one place (the buffer, one   *)
(* pending POST, LumaDB once, or a failed POST) while handlers and flush   *)
(* goroutines swap the buffer concurrently.                                *)
BufferConservation == comp = "fds" => F!BufferConservation

(* FraudDetectionService's EventuallyHandedOver: every event appended to   *)
(* callEventsBuffer is eventually handed to a POST that completes; the     *)
(* 100 ms ticker flushes what the size trigger leaves.                     *)
EventuallyHandedOver ==
    \A e \in F!Event :
        (comp = "fds" /\ e \in accepted) ~> (comp = "fds" /\ e \in F!HandedOver)

(* AuditService's ReportListsCountedEvents: a finished compliance report   *)
(* lists every high-severity and critical event its GetAuditStats counted, *)
(* while concurrent requests keep logging between its statements.          *)
ReportListsCountedEvents == comp = "audit" => A!ReportListsCountedEvents
=============================================================================
