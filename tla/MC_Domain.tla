------------------------------ MODULE MC_Domain ------------------------------
(***************************************************************************)
(* The services and entities that each serve one request at a time, put   *)
(* side by side for one TLC run: FraudService (alerts and blacklist),      *)
(* GatewayService, RBACService, the management API's handlers, the        *)
(* Compliance entities, the MNP entity, the threat predictor, the        *)
(* AuthService (one client) and the revenue calculator.  They            *)
(* share no state (each has                                                *)
(* its own tables or its own object), so a behaviour picks one component  *)
(* in its first state and only that component steps; the others hold Off. *)
(* The reachable states are the union of each component's own, and every *)
(* property is that component's property, checked on its behaviours.      *)
(***************************************************************************)
EXTENDS Integers, Sequences, SequencesExt, TLC

CONSTANTS
    Off,                                    \* value of an idle component's variables
    u1, u2, w1, v1, NoAlert, NoValue,       \* FraudService
    g1, g2, g3, ip1, ip2, NoGateway, Nil,   \* GatewayService
    r0, r1, r2, p1, p2, q1, q2, NoRow,      \* RBACService
    e1, e2, m1, m2, n1, n2, gw1, c1, c2, Miss, \* management API
    ref1, ev1, res1, None,                  \* Compliance
    Panic, ErrInvalidMSISDN, NoRecord,      \* MNP
    t1,                                     \* threat predictor, revenue calculator
    NullCountry, NoImpact                   \* revenue calculator

Components == {"fas", "gws", "rbac", "mgmt", "compliance", "mnp", "tp", "auth", "rev"}

VARIABLES
    comp,
    fStore, fWorker, fRequests, fAckOk, fNccSaved, fBlacklist, fAdding, fBlCreated,
    gStore, gUsed, gWorker, gRequests,
    rRoles, rUsedIds, rUserRoles, rRolePerms, rPolicies, rWorker, rRequests,
    mBlacklist, mBlCache, mMnpDb, mMnpCache, mChanged, mGateways, mGrp66,
    mWorker, mRequests,
    report, dispute,
    msisdnIn, record,
    tTrends, tToday, tDays, tPredictions,
    aNow, aUser, aHistory, aTokens, aIssued, aWorker, aRequests,
    vAlerts, vCalls, vCalc, vImpact, vRequests

fv == <<fStore, fWorker, fRequests, fAckOk, fNccSaved, fBlacklist, fAdding, fBlCreated>>
gv == <<gStore, gUsed, gWorker, gRequests>>
rv == <<rRoles, rUsedIds, rUserRoles, rRolePerms, rPolicies, rWorker, rRequests>>
mv == <<mBlacklist, mBlCache, mMnpDb, mMnpCache, mChanged, mGateways, mGrp66,
        mWorker, mRequests>>
cv == <<report, dispute>>
nv == <<msisdnIn, record>>
tv == <<tTrends, tToday, tDays, tPredictions>>
av == <<aNow, aUser, aHistory, aTokens, aIssued, aWorker, aRequests>>
vv == <<vAlerts, vCalls, vCalc, vImpact, vRequests>>
vars == <<comp, fv, gv, rv, mv, cv, nv, tv, av, vv>>

(* An idle component: every variable of it is Off.                        *)
FOff ==
    /\ fStore = Off /\ fWorker = Off /\ fRequests = Off /\ fAckOk = Off
    /\ fNccSaved = Off /\ fBlacklist = Off /\ fAdding = Off /\ fBlCreated = Off
GOff == gStore = Off /\ gUsed = Off /\ gWorker = Off /\ gRequests = Off
ROff ==
    /\ rRoles = Off /\ rUsedIds = Off /\ rUserRoles = Off /\ rRolePerms = Off
    /\ rPolicies = Off /\ rWorker = Off /\ rRequests = Off
MOff ==
    /\ mBlacklist = Off /\ mBlCache = Off /\ mMnpDb = Off /\ mMnpCache = Off
    /\ mChanged = Off /\ mGateways = Off /\ mGrp66 = Off /\ mWorker = Off
    /\ mRequests = Off
COff == report = Off /\ dispute = Off
NOff == msisdnIn = Off /\ record = Off
TOff == tTrends = Off /\ tToday = Off /\ tDays = Off /\ tPredictions = Off
AOff ==
    /\ aNow = Off /\ aUser = Off /\ aHistory = Off /\ aTokens = Off
    /\ aIssued = Off /\ aWorker = Off /\ aRequests = Off
VOff ==
    /\ vAlerts = Off /\ vCalls = Off /\ vCalc = Off /\ vImpact = Off
    /\ vRequests = Off

-----------------------------------------------------------------------------
(* FraudService: two users, one request at a time, one blacklist value.   *)
F == INSTANCE FraudAlertService WITH
        Users <- {u1, u2}, Confidences <- {49, 95}, Workers <- {w1},
        MaxRequests <- 4, Values <- {v1},
        store <- fStore, worker <- fWorker, requests <- fRequests, ackOk <- fAckOk,
        nccSaved <- fNccSaved, blacklist <- fBlacklist, adding <- fAdding,
        blCreated <- fBlCreated

(* GatewayService: three ids for two IPs, one request at a time.           *)
G == INSTANCE GatewayService WITH
        Ids <- {g1, g2, g3}, IPs <- {ip1, ip2}, Workers <- {w1}, MaxRequests <- 4,
        CreateInputs <- [ip : {ip1, ip2}, fraudThreshold : {0, 150},
                         cpmLimit : {0, 2000}, acdThreshold : {0}],
        UpdateInputs <- {[fraudThreshold |-> Nil, cpmLimit |-> Nil, acdThreshold |-> Nil],
                         [fraudThreshold |-> -5, cpmLimit |-> 2000, acdThreshold |-> -1]},
        store <- gStore, used <- gUsed, worker <- gWorker, requests <- gRequests

(* RBACService: the superadmin system role and two custom role ids;        *)
(* gateway:read and gateway:*; checks with and without a region context.   *)
R == INSTANCE Rbac WITH
        Users <- {u1, u2}, RoleIds <- {r0, r1, r2}, Names <- {"superadmin", "analyst"},
        SystemRoles <- r0 :> [name |-> "superadmin", system |-> TRUE, active |-> TRUE],
        SystemGrants <- {}, PermIds <- {p1, p2},
        PermOf <- p1 :> <<"gateway", "read">> @@ p2 :> <<"gateway", "*">>,
        Checks <- [user : {u1}, res : {"gateway"}, act : {"read", "update"},
                   ctx : {"lagos", "absent"}],
        PolicyIds <- {q1, q2},
        PolicyInputs <- [res : {"gateway"}, act : {"update"}, effect : {"allow", "deny"},
                         priority : {1, 2}, active : {TRUE},
                         cond : {[kind |-> "none", vals |-> {}],
                                 [kind |-> "in", vals |-> {"lagos"}]}],
        Workers <- {w1}, MaxRequests <- 4,
        roles <- rRoles, usedIds <- rUsedIds, userRoles <- rUserRoles,
        rolePerms <- rRolePerms, policies <- rPolicies, worker <- rWorker,
        requests <- rRequests

(* Management API: two entries, two numbers, two networks, one gateway.    *)
M == INSTANCE ManagementApi WITH
        Entries <- {e1, e2}, Msisdns <- {m1, m2}, Networks <- {n1, n2},
        GatewayIds <- {gw1}, Carriers <- {c1, c2}, Workers <- {w1}, MaxRequests <- 5,
        blacklist <- mBlacklist, blCache <- mBlCache, mnpDb <- mMnpDb,
        mnpCache <- mMnpCache, changed <- mChanged, gateways <- mGateways,
        grp66 <- mGrp66, worker <- mWorker, requests <- mRequests

(* Compliance: one report type, two users, two call counts, one evidence. *)
C == INSTANCE Compliance WITH
        ReportTypes <- {"daily"}, Users <- {u1, u2}, References <- {ref1},
        Counts <- {0, 5}, Evidence <- {ev1}, Resolutions <- {res1}, MaxEvidence <- 1

(* MNP: a two-digit national number; every accepted form, each with one   *)
(* separator inserted anywhere, and every string of up to three symbols.   *)
MnpDigits == {"0", "2", "3", "4", "8"}
MnpForms == {p \o d : p \in {<<"0">>, <<"2", "3", "4">>, <<"+", "2", "3", "4">>},
                      d \in [1..2 -> MnpDigits]}
MnpInputs == MnpForms
               \cup UNION {{InsertAt(f, i, s) : i \in 1..Len(f), s \in {" ", "-"}} : f \in MnpForms}
               \cup SeqOf({"+", "0", "2", "3", "4", "-"}, 3)

N == INSTANCE MnpRecord WITH
        Digits <- MnpDigits, Separators <- {" ", "-"}, NationalLen <- 2,
        Networks <- {"MTN", "GLO"}, Inputs <- MnpInputs

(* Threat predictor: one event type, up to two alerts a day over eight    *)
(* days (so that the seven-day trend factor has an older part), seasonal  *)
(* averages of 0, 5/2 and 9/2 by weekday (enough for more than ten        *)
(* expected alerts, where the 1.2 boost applies), and the weekly counts of *)
(* TestPredictEmergingThreats with a type new this week.                   *)
T == INSTANCE ThreatPredictor WITH
        Types <- {t1}, MaxCount <- 2, MaxDays <- 8,
        Seasonal <- [t \in {t1} |-> [d \in 0..6 |->
                        CASE d = 1 -> [num |-> 5, den |-> 2]
                          [] d = 2 -> [num |-> 9, den |-> 2]
                          [] OTHER -> [num |-> 0, den |-> 1]]],
        WeekCounts <- {<<65, 35>>, <<120, 104>>, <<40, 30>>, <<200, 80>>, <<3, 0>>},
        trends <- tTrends, today <- tToday, days <- tDays, predictions <- tPredictions

(* AuthService: one client, two passwords that both pass validatePassword, *)
(* a lock after two failed attempts lasting two ticks, refresh tokens      *)
(* living one tick, five requests over three ticks.                        *)
A == INSTANCE AuthService WITH
        Workers <- {w1}, Passwords <- {p1, p2}, StrongPasswords <- {p1, p2},
        MaxLoginAttempts <- 2, LockPeriod <- 2, RefreshTTL <- 1, MaxTime <- 3,
        MaxRequests <- 5, DbFailures <- FALSE, Null <- Nil,
        now <- aNow, user <- aUser, history <- aHistory, tokens <- aTokens,
        issued <- aIssued, worker <- aWorker, requests <- aRequests

(* Revenue calculator: one daily report over up to two alerts of one type  *)
(* and one call record, with NGA, USA and NULL source countries, writes    *)
(* between its statements, and statement errors.                           *)
V == INSTANCE RevenueCalculator WITH
        EventTypes <- {t1}, Countries <- {"NGA", "USA", NullCountry}, Minutes <- {1},
        Periods <- {"Daily"}, MaxAlerts <- 2, MaxCalls <- 1, MaxRequests <- 1,
        DbFailures <- TRUE,
        alerts <- vAlerts, calls <- vCalls, calc <- vCalc, impact <- vImpact,
        requests <- vRequests
-----------------------------------------------------------------------------
Init ==
    /\ comp \in Components
    /\ IF comp = "fas" THEN F!SInit ELSE FOff
    /\ IF comp = "gws" THEN G!Init ELSE GOff
    /\ IF comp = "rbac" THEN R!Init ELSE ROff
    /\ IF comp = "mgmt" THEN M!Init ELSE MOff
    /\ IF comp = "compliance" THEN C!CInit ELSE COff
    /\ IF comp = "mnp" THEN N!MInit ELSE NOff
    /\ IF comp = "tp" THEN T!Init ELSE TOff
    /\ IF comp = "auth" THEN A!Init ELSE AOff
    /\ IF comp = "rev" THEN V!Init ELSE VOff

Next ==
    \/ comp = "fas" /\ F!SNext /\ UNCHANGED <<comp, gv, rv, mv, cv, nv, tv, av, vv>>
    \/ comp = "gws" /\ G!Next /\ UNCHANGED <<comp, fv, rv, mv, cv, nv, tv, av, vv>>
    \/ comp = "rbac" /\ R!Next /\ UNCHANGED <<comp, fv, gv, mv, cv, nv, tv, av, vv>>
    \/ comp = "mgmt" /\ M!Next /\ UNCHANGED <<comp, fv, gv, rv, cv, nv, tv, av, vv>>
    \/ comp = "compliance" /\ C!CNext /\ UNCHANGED <<comp, fv, gv, rv, mv, nv, tv, av, vv>>
    \/ comp = "mnp" /\ N!MNext /\ UNCHANGED <<comp, fv, gv, rv, mv, cv, tv, av, vv>>
    \/ comp = "tp" /\ T!Next /\ UNCHANGED <<comp, fv, gv, rv, mv, cv, nv, av, vv>>
    \/ comp = "auth" /\ A!Next /\ UNCHANGED <<comp, fv, gv, rv, mv, cv, nv, tv, vv>>
    \/ comp = "rev" /\ V!Next /\ UNCHANGED <<comp, fv, gv, rv, mv, cv, nv, tv, av>>

Spec == Init /\ [][Next]_vars

(* Role ids r1, r2, gateway ids and the management API's entries,         *)
(* numbers and networks are each interchangeable.                          *)
Symmetry == Permutations({r1, r2}) \cup Permutations({g1, g2, g3})
              \cup Permutations({e1, e2}) \cup Permutations({m1, m2})
              \cup Permutations({n1, n2})
-----------------------------------------------------------------------------
(* Each component's properties, stated in its own module, on its own      *)
(* behaviours.                                                             *)
STypeOK == comp = "fas" => F!STypeOK
GwsTypeOK == comp = "gws" => G!TypeOK
BlacklistedImpliesInactive == comp = "gws" => G!BlacklistedImpliesInactive
NoDanglingAssignment == comp = "rbac" => R!NoDanglingAssignment
SystemRolesImmutable == [][comp = "rbac" => R!SystemRolesUnchanged]_vars
MgmtTypeOK == comp = "mgmt" => M!TypeOK
SubmissionFollowsApproval == comp = "compliance" => C!SubmissionFollowsApproval
NormalizeIdempotent == comp = "mnp" => N!NormalizeIdempotent
NormalizeMatchesSpec == comp = "mnp" => N!NormalizeMatchesSpec
TrendIsLeastSquares == comp = "tp" => T!TrendIsLeastSquares
ProbabilityInUnitInterval == comp = "tp" => T!ProbabilityInUnitInterval
AuthTypeOK == comp = "auth" => A!TypeOK
LockedAfterMaxFailures == comp = "auth" => A!LockedAfterMaxFailures
RevTypeOK == comp = "rev" => V!TypeOK
RevenueWithinRates == comp = "rev" => V!RevenueWithinRates
=============================================================================
