# TLA+ models of VoxGuard

These modules model the concurrent and stateful parts of the Go source under
`src/`, and TLC checks them. Every module is translated from the code, with
one exception: `AlertLifecycle` is written from `spec.md`, because it states
what the alert code should implement. `PROJECT.json` maps each definition to
the source lines it models. It also lists the hazards of the code and the
properties that cover them.

## The system and how its parts interact

VoxGuard has two groups of code.

**The call path** (`anti-call-masking/integration/voice-switch-im`). The SBC
posts call events to `fraud_handler.go`, either one by one or in batches.
Each request is a goroutine. It records the call in the Active-Call Registry
(`activeCalls`, under `mu`) and appends the event to a buffer (under
`bufferMu`). Flush goroutines, started by the 100 ms ticker, by the size
trigger and by batch requests, POST the buffer to the external LumaDB
detection service. LumaDB calls back `POST /fraud/disconnect`. The dispatcher
looks the call up, sends `dlg.end_dlg` to the SBC over JSON-RPC, and deletes
the entry on HTTP 200.

`spec.md`'s Window Store, Detector and Blacklist Index are not in this source:
detection runs in LumaDB.

**The management side.**
* Alerts are domain aggregates (`alert.go`), driven by `FraudService`
  use cases (load, method, save).
* Gateways are aggregates (`gateway.go`) behind `GatewayService`.
* The management API exists in two versions:
  * an older monolith (`mnt/.../management-api/main.go`), with PostgreSQL
    rows and a Redis cache for blacklist entries and MNP lookups;
  * the Gin service `services/management-api`, whose router puts every
    request through `RateLimiter` (Redis INCR/EXPIRE), then through
    `JWTAuth` and `RequireRole`.
* Its security domain holds three library services: `AuthService` (login
  lockout, refresh tokens, password change), `RBACService` (roles,
  permissions, ABAC policies and `CheckAccess`) and `AuditService` (audit
  rows and security events). All three work over one PostgreSQL repository
  in which every call is one SQL statement. Beside them,
  `HashiCorpVaultClient` keeps a Vault token alive with a renewal goroutine
  and reads and writes secrets on a KV v2 mount.
* `RevenueCalculator` (`infrastructure/analytics`) reads `acm_alerts` and
  `acm_call_records`, which the detection side writes, and reports the
  revenue fraud detection protected. It issues five SQL statements one
  after another, with no transaction around them.
* Library entities with no caller in this tree: the MNP record
  (`mnp.go`, MSISDN validation and normalisation) and the compliance
  entities (`compliance.go`, `NCCReport` and `SettlementDispute`).

## Modules

Each service module has a worker for each request in flight. A worker holds a
program counter and whatever the request has read. Each SQL statement, Redis
command or critical section is one atomic step, and any other request, or the
environment, can act between two steps. The environment is the clock, key
expiry, number porting and the SBC. Identifiers are model values, and
payloads are abstracted to the fields the properties compare. Counters are
bounded by named constants (`MaxRequests`, `MaxTime`, `RequestBound`,
`MaxDisconnectRequests`).

| Module | Source | State | Actions |
|---|---|---|---|
| `FraudDetectionService` | `fraud_handler.go`, `call.go` | SBC dialogs and outbox, handler goroutines, `activeCalls`, `buffer`, spawned flush goroutines, pending POSTs, what LumaDB received or lost, disconnect requests; history: `accepted` | `HandleTrack` (`trackCall`), `HandleCallEventAppend` (append, `shouldFlush`, spawn), `HandleBatchAppend`, `FlushGoroutine` and `TickerFlush` (`TakeBuffer`), `FlushPost`, `ReceiveDisconnect`, `DisconnectLookup`, `DisconnectRpc`, `DisconnectReply`; the SBC's ring, answer, hang-up |
| `FraudAlert` | `alert.go` | none: operators | `NewFraudAlert` (severity from confidence), `Acknowledge`, `StartInvestigation`, `Resolve`, `ReportToNCC` as guard and result |
| `FraudAlertEntity` | `alert.go` | one alert | the methods in any order; refines `AlertLifecycle` |
| `AlertLifecycle` | `spec.md` 3 (spec-modelled) | alert state | the transitions the spec allows |
| `FraudAlertService` | `fraud_service.go` | the stored alert, workers; history: `ackOk`, `nccSaved` | `Load`, then `AcknowledgeAlert`, `ResolveAlert` or `ReportAlertToNCC` (method on the copy, then `Save`) |
| `Gateway` | `gateway.go` | none: operators | `NewGateway`, `UpdateThresholds` with its clamps, `Activate`, `Deactivate`, `Blacklist`, `Unblacklist` |
| `GatewayService` | `gateway_service.go` | gateway table, used ids, workers | `CheckIP` (`IPExists`), `CreateGateway`; `GetGateway`, then `UpdateGateway`, `DeleteGateway`, `Enable`/`Disable`/`Blacklist`/`UnblacklistGateway` (method on the copy, then `Save`) |
| `ManagementApi` | monolith `main.go` | blacklist rows and Redis keys, `mnp_data` and `mnp:` keys, gateway rows, group-66 addresses; history: `changed` | `addToBlacklist` (upsert, SET), `removeFromBlacklist` (SELECT, UPDATE, DEL), `mnpLookup` (GET, SELECT, SET), `refreshMNPCache`/`flushCache` (KEYS, DEL), gateway create/update/delete/block (two statements)/unblock; `PortNumber` and `Expire` from the environment |
| `AuthService` | `auth_service.go`, `postgres_repository.go`, `models.go` | clock, user row, password history, refresh tokens, workers; history: `issued` | `LoginRead` (lock check), `UnlockUser`, `IncrementLoginAttempts`, `LockUser`, `CreateRefreshToken`, `ResetLoginAttempts`; `RefreshRead`, `RefreshUser`; `Logout`; `ChangePasswordRead` (`ValidatePassword`), `CheckPasswordHistory`, `UpdatePassword`, `AddPasswordHistory`, `RevokeAllTokens`; `Tick` |
| `Rbac` | `rbac_service.go`, `postgres_repository.go` | roles, `user_roles` (none, permanent, expiring, expired), `role_permissions`, `resource_policies`, workers | `CheckRoles`, `CheckPermissions`, `CheckPolicies`; the read and write steps of role create/update/delete, role assign/revoke, permission assign/revoke; `CreateResourcePolicy`; `Expire` of a role assignment |
| `RequestPipeline` | `middleware.go`, `services.go`, router in `main.go` | Redis counter and TTL per client, workers | `Incr`, `Expire` (EXPIRE on the first hit, 429 above the limit), `Handle` (`JWTAuth` with `ValidateToken`, `RequireRole`, stub handler); `Tick` |
| `AuditService` | `audit_service.go`, `postgres_repository.go` | `audit_events`, `security_events`, workers, the compliance report each worker is reading | `LogAuthEvent`, `CreateSecurityEvent` then `LogPendingEvent`, `ResolveRead`, `UpdateSecurityEvent` then `LogPendingEvent`; `StartReport` then one `ReportStatement` per statement of `GenerateComplianceReport` (`ReportSteps`: total, per-severity and failure counts, then the high, critical and failed-login lists). The repository statements are operators (`CreateAuditEvent`, `InsertSecurityEvent`, `GetSecurityEventByID`, `UpdateSecurityEventRow`, `StatsTotal`, `StatsBySeverity`, `StatsFailures`, `QueryAuditEvents`) |
| `VaultClient` | `vault_client.go` | clock, the token's expiry on the server, client and goroutine state, next tick, `tokenRenew` closed, the KV v2 mount's latest version per path, the last secret call's outcome | `NewVaultClient`, `TickerFires`, `RenewSelf`, `StopRenewal`, `Close`, `VTick`; `StoreJWTSigningKey`, `StoreNCCCredentials` (`PutSecret`), `DeleteSecret`, `GetJWTSigningKey`, `GetNCCCredentials` (`GetSecret`, then the field assertions) |
| `MnpRecord` | `mnp.go` | the input string and the record built from it | `NewMNPRecord` (validation, then `NormalizeMSISDN`), `UpdateNetwork`; `IsValidMSISDN` and `NormalizeMSISDN` are operators over strings of one-character symbols |
| `ThreatPredictor` | `threat_predictor.go` | the daily counts `getHistoricalTrends` returns per type, the weekday, days passed, the last call's predictions | `EndOfDay` (a day's alerts; a day without alerts adds no row), `PredictNextWeek`, `PredictEmergingThreats`; the helpers (`calculateTrend`, `calculateProbability`, `determineRiskLevel`, `calculateConfidence`, `identifyContributingFactors`, `average`) and the weekly growth query are operators over exact rationals |
| `RevenueCalculator` | `revenue_calculator.go` | `acm_alerts` (type, country, status, resolution), `acm_call_records` (alert, minutes, suspicious), the report in progress, the last report returned; history: `snapshot` (no write since the first statement) | `StartImpact` (statement 1), `QueryBreakdown` (statement 2 and its loop, the rows in any order), `QueryFalsePositives`, `QueryTotalAlerts`, `QuerySuspicious` (and the report's arithmetic), `Fail` (a statement's error); the writers `InsertAlert`, `UpdateAlert` and `InsertCallRecord` between any two statements |
| `Compliance` | `compliance.go` | one `NCCReport`, one `SettlementDispute` | `SetStatistics`, `Approve`, `Submit`, `MarkAccepted`, `MarkRejected`, `AddEvidence`, `ResolveDispute`, `Escalate` |

Each `MC_*` module declares the model values and the constant definitions its
runs use. Two of them put several components side by side. `MC_Domain` holds
`FraudAlertService`, `GatewayService`, `Rbac`, `ManagementApi`, `Compliance`,
`MnpRecord`, `ThreatPredictor`, `AuthService` and `RevenueCalculator`, each
serving one request at a time.
`MC_Runtime` holds the concurrent components: `RequestPipeline`,
`VaultClient` and `FraudDetectionService`, which have liveness properties,
and `AuditService` with two requests in flight. These
components share no state. A behaviour therefore picks one component in its
first state, and only that component steps; the others hold the model value
`Off`. Each component is an `INSTANCE` with its own constants and renamed
variables. Each property is the component's own property, guarded by the
component test (`comp = "x" => X!P`). Action properties use a named action
of the component. Leads-to properties put the test on both sides. Fairness
is stated for each component's own steps. The reachable states are the
union of the components' own states, so every check is the check the
component would get alone.

## Runs

There are 12 runs: 2 pass and 10 find a violation. Each property is stated in a
comment above its definition.

| Run | Expect | States | What it shows |
|---|---|---|---|
| `domain_sequential` | pass | 951,204 | The `MC_Domain` components, one request at a time. For `AuthService`, with the clock running: `MaxLoginAttempts` failed logins lock the account. A revenue report with no write between its statements has its protected revenue between its fraud minutes priced at the local and at the international rate. Gateway thresholds stay clamped and a blacklisted gateway is never active, through every sequence of create, update, enable, disable, blacklist and delete. No role assignment outlives its role, and system roles never change. A report with an NCC reference was approved. `NormalizeMSISDN` is idempotent and agrees with spec 6's canonical form on every accepted form. `calculateTrend`'s normal equations give the least-squares slope of every history, and every probability `PredictNextWeek` and `PredictEmergingThreats` return lies in [0, 1]. |
| `runtime_concurrent` | pass | 351,046 | The `MC_Runtime` components. One call, with single and batch requests, one disconnect, the ticker and size-triggered flushes interleaved: every appended event is always in exactly one place (the buffer, one pending POST, delivered once, or lost) and eventually reaches a completed POST. The Vault client, with `RenewSelf` failing or not: once `Close` has closed `tokenRenew`, the renewal goroutine returns. Two concurrent audit requests among loggers, reviewers and a compliance report: a finished compliance report lists every high-severity and critical event its statistics counted. Two concurrent requests through the request pipeline run beside them; no property of the pipeline is checked (see below). |
| `revenue_breakdown` | violation | 172,221 (stopped at the violation) | `RevenueBreakdownSumsToTotal` (`TestRevenueImpactBreakdown`). Two alerts of one event type, from a NULL and an NGA source country, form two breakdown groups. `RevenueByFraudType` keeps the group that comes last, while `RevenueProtected` adds both, so the breakdown does not sum to the total. |
| `fds_per_call_order` | violation | 264 | `PerCallOrder` (spec 4.1). Concurrent handler goroutines of one call append its events out of submission order, and LumaDB receives a later status of the call before an earlier one. Which pair (ringing and active, or ringing and completed, and so on) depends on the counterexample TLC reports first. |
| `fas_double_ack` | violation | 458 (stopped at the violation) | `AcknowledgeSucceedsOnce` (spec 5 and 9). Two concurrent `AcknowledgeAlert` requests on one pending alert both load it pending, both pass `CanAcknowledge`, and both succeed. |
| `fa_lifecycle` | violation | 13 | `ImplementsLifecycle`. `Resolve` accepts a pending alert, `ReportToNCC` has no guard, and a reported alert can be resolved again: these are outside the spec's lifecycle. |
| `auth_lock_bypass` | violation | 12.2 M (stopped at the violation) | `NoLoginWhileLocked`. A login with the right password read the row before a concurrent fifth failure locked it, and it still issues tokens while the lock is active. |
| `audit_double_resolve` | violation | 2,486 | `ResolutionNeverOverwritten`. Two reviewers both pass the already-resolved check, and the second UPDATE overwrites the first resolution. |
| `fas_double_blacklist` | violation | 660 | `UniqueBlacklistValue`. Two concurrent `AddToBlacklist` requests for one value both find it absent and both save an entry. |
| `mnp_accepted_forms` | violation | 1,020 | `AcceptedFormsRecorded` (spec 6). `NewMNPRecord` validates the raw input against `^\+?234[0-9]{10}$` before normalising, so the national form `0XXXXXXXXXX` and forms with separators are rejected. |
| `rbac_inactive_role` | violation | 486,304 (stopped at the violation) | `AccessNeedsActiveRole`. A role created with a permission, deactivated by `UpdateRole` and then assigned still lets `CheckAccess` allow through that permission. |
| `vault_hour_ttl` | violation | 194 | `TokenLiveWhileOpen`. A token whose renewed TTL is one ticker period expires at the very tick that would renew it while the client is open. |

Every property of a passing run has a mutant, listed in `PROJECT.json`. A
mutant is a plausible fault in one mapped definition, written just before it
and marked "Fault model", for example a dropped guard, an off-by-one or a
skipped revocation. TLC finds the property violated under the mutant.

### What the checks found

Violation runs (see `findings` in `PROJECT.json`):

* **Events of one call reach LumaDB out of order.** `trackCall` and the append
  are two critical sections, and batches are POSTed concurrently.
* **One alert can be acknowledged twice.** `AcknowledgeAlert` loads, checks
  and saves without a lock or a version check, against spec 5's per-alert
  serialisation.
* **The alert aggregate does not implement the spec's lifecycle.**
* **Parallel password guesses are not stopped by the lockout.** `Login`
  checks the lock on a stale copy of the row.
* **Two resolutions of one security event both succeed.** The second
  overwrites `resolved_by` and the note, and both are audited.
* **One blacklist value can be stored twice.** `AddToBlacklist` checks
  `IsBlacklisted` and saves in a separate call.
* **The MNP entity rejects forms the spec accepts.** Validation runs on the
  raw input, before `NormalizeMSISDN` could turn it into the canonical form.
* **A deactivated role still grants its permissions.** `GetUserPermissions`
  joins `role_permissions` with `user_roles` and never reads
  `roles.is_active`, while `GetUserRoles` filters on it and `DeleteRole`
  calls deactivation a soft delete.
* **The revenue breakdown loses revenue.** `calculateImpact` groups by event
  type and country and assigns the per-type entry for each group, so a type
  seen from two countries keeps one country's revenue. The unit test that
  asserts the sum mocks one country per type.
* **A Vault token with a one-hour TTL is lost.** `renewToken` ticks every
  hour whatever the token's TTL, so the token expires at (or, after one
  failed `RenewSelf`, before) the tick that would renew it.

The models also reach two panics that no property forbids: a second `Close`
of the Vault client closes `tokenRenew` twice (nothing says `Close` may be
called twice), and
`GetJWTSigningKey` or `GetNCCCredentials` after `DeleteSecret` assert a
missing field to string. A third behaviour no property forbids: the SBC may
answer HTTP 200 with a JSON-RPC error body, and `disconnectCall` reports
success and deletes the registry entry while the dialog goes on. Spec 4.5
counts any 2xx as success and ignores the body, so no run asserts otherwise.

Passing runs use one request at a time, or fault-free Redis, so that they
check what the code gets right. With the bound changed, TLC finds the
following. Each was checked while modelling, and each is recorded as a hazard:

* `FraudAlertService` with two workers: besides the double acknowledgement of
  `fas_double_ack`, a stale save erases an NCC report.
* `GatewayService` with two workers:
  * two creates of one IP both pass `IPExists`;
  * a stale Update or Enable save clears the blacklist flag;
  * `DeleteGateway` deletes a gateway that was blacklisted after its read.
* `ManagementApi` with two workers:
  * `removeFromBlacklist` between `addToBlacklist`'s upsert and its SET leaves
    a key for an inactive row;
  * a port and a refresh between `mnpLookup`'s SELECT and SET leave a stale
    routing number.
* `AuthService` with two workers: a `Logout` between `RefreshRead` and
  `RefreshUser` lets RefreshToken issue an access token on a revoked token.
  With one worker, `RefreshToken` issues access tokens while the account is
  locked: `RefreshUser` checks `is_active` only. No comment, test or spec
  line says a refresh must fail during a lock, so no run asserts it.
* `RevenueCalculator`:
  * Without the no-write condition, `RevenueWithinRates` fails. A call
    record inserted between statements 1 and 2 gives a report with revenue
    protected and zero fraud minutes.
  * With two call records on one alert, `DetectionAccuracy` is above 100%:
    statement 1 counts joined rows, while `getTotalAlerts` counts alerts.
* `Rbac`:
  * With two workers, an `AssignRoleToUser` between `DeleteRole`'s
    `GetUsersWithRole` and its DELETE leaves a dangling assignment.
  * With one worker, re-assigning a role whose assignment expired reports
    success and changes nothing (`ON CONFLICT DO NOTHING`).
* `ThreatPredictor`: `TestCalculateProbability` asserts that a higher
  expected count never lowers the probability. For a history with alerts on
  every day (and `getHistoricalTrends` returns no other kind) the
  probability is 1 for 5 expected alerts and 0.95 for 50: the 1.2 boost is
  capped below the unboosted value.
* `RequestPipeline` with `RedisFailures = TRUE`: a failed EXPIRE leaves the
  counter without a TTL, and the client is refused with 429 for good.
* `AuditService` with `DbFailures = TRUE`: a failed audit INSERT is only
  logged, so a stored or resolved security event can lack its audit row. A
  failed failure count is ignored by `GetAuditStats`, and `FailureRate` stays
  zero.
* `AuditService`: a compliance report whose `GetAuditStats` counts the total
  before a failed login is logged, and the failures after it, has more
  failures than events, so its `FailureRate` is above 100%. The statements
  share no transaction. The report's lists are read after its statistics,
  so they can only gain events, which `ReportListsCountedEvents` checks.

## Bounds and why they are enough

* **`FraudDetectionService`.**
  * One call and a size trigger of two events (50 in the code). That is
    enough for the trigger to fire while the ticker and batch flushes are
    pending.
  * Both reporting modes, and a disconnect that races the handlers.
  * With two calls and both modes there are more than 30 million states. The
    two-goroutine orderings of one call are what the properties are about.
* **`AuthService`.**
  * Two passwords and a lock period of 2 ticks against `MaxTime = 3`, so
    locks both expire and stay live.
  * In `domain_sequential`, `MaxLoginAttempts = 2` and five requests:
    enough for the threshold to be reached, passed and followed by a login,
    a refresh and a password change. The threshold's value plays no part in
    the code's logic beyond the comparison.
  * In `auth_lock_bypass`, `MaxLoginAttempts = 5` as in the code, seven
    requests and two workers.
* **`Rbac`.**
  * Two users, three role ids (one system role), two permissions with
    wildcard patterns, and two policy slots with equal and different
    priorities.
  * Four requests in `domain_sequential`, enough to create, assign, delete or
    expire, and check; five in `rbac_inactive_role`, which also
    deactivates.
* **`RequestPipeline`.**
  * Limit 1 and a window of 2 ticks, so a second request in a window is
    refused and the window can end.
  * Two workers, two clients and three requests.
  * Four tokens: valid HS256 admin, valid HS256 analyst, expired HS512
    superadmin, and admin signed with `none`. `ValidateToken` accepts every
    HMAC method, so HS256, HS384 and HS512 are all accepted.
* **`ManagementApi`.** Two blacklist entries, two numbers and two networks,
  one gateway and five requests.
* **`GatewayService` and the alert modules.** Two or three ids, two IPs or
  users, and confidences on both sides of every severity boundary.
* **`AuditService`.** One event, two reviewers, two workers and three
  requests: one create and two resolutions, or a compliance report with a
  security event and its audit row logged between its statements. The
  report's page size is the code's 1000, which three requests never fill,
  so the lists' truncation is not reached.
* **`VaultClient`.** A clock of three ticker periods. In `runtime_concurrent`
  the token lives two periods and gets two on renewal, and `RenewSelf` may
  fail, so the token both survives and expires; secret calls happen before
  and after expiry and before and after `Close`. In `vault_hour_ttl` the
  renewed TTL is one period. The two paths are the ones the helpers use.
* **`MnpRecord`.** The national number has 2 digits instead of 10. That
  keeps every prefix and length check of the code and every separator
  position, over the digits `0 2 3 4 8` (enough to spell both prefixes).
  The inputs are every accepted form, each form with one separator inserted
  anywhere, and every string of up to three symbols (which covers the empty
  string and the short inputs).
* **`ThreatPredictor`.** One event type, up to two alerts a day, eight
  days: enough for the seven-day trend factor to have an older part, for
  days without alerts (no row), and, with seasonal averages of 0, 5/2 and
  9/2, for more than ten expected alerts, where the 1.2 boost and its cap
  apply. The weekly counts are those of `TestPredictEmergingThreats` and a
  type with no row last week (growth 100). Float arithmetic is exact; the
  properties are about the formulas, not about rounding.
* **`RevenueCalculator`.** One event type and the three kinds of source
  country (NULL, local NGA, international USA), so that every rate of
  `determineRate` applies. Up to two alerts: two are needed for two groups
  of one type, and for a false positive beside a fraud alert of the same
  key. One call record of one minute in `domain_sequential`. One report,
  with writes between all its statements and every statement's error. Money
  is in hundredths of a naira and durations are in whole minutes, so every
  figure is exact.
* **`Compliance`.** One report type, two users, two counts and one evidence
  id: every method can be called in every state of the entity.
* **`FraudAlertService` blacklist.** One value: two workers in
  `fas_double_blacklist` and one in `domain_sequential`.

Symmetry sets are used only in runs without liveness properties.

## Fairness

* **`FraudDetectionService`.** There is weak fairness on:
  * the handler goroutines;
  * each flush goroutine;
  * the ticker, which fires for as long as the process lives;
  * each pending POST: the `http.Client` has a 5 s timeout, so every POST
    completes;
  * each step of a disconnect request.

  The SBC and the clients get no fairness.
* **`RequestPipeline`.** There is weak fairness on each request's `Expire`
  and `Handle` steps, since a goroutine serving a request runs to its end.
  Time passes (`Tick`), so Redis TTLs run out. New requests get no fairness.
* **`VaultClient`.** There is weak fairness on the renewal goroutine's
  steps (`TickerFires`, `RenewSelf`, `StopRenewal`): its `select` takes a
  ready case, and `RenewSelf` has a 30 s context. `Close`, the secret calls
  and the clock get none.
* **Other modules.** They check safety only and assume no fairness.

Runs whose requests are bounded use `CHECK_DEADLOCK FALSE`. Once the requests
are served the system is idle, and that is not a deadlock. In
`runtime_concurrent` the request pipeline and the Vault client stop at their
bounds, so the run cannot check deadlock for `FraudDetectionService`, whose
ticker always has a next step.

## Not modelled, and why

* **Stateless or read-only code:**
  * LumaDB proxy endpoints;
  * the monolith's list, get and stats handlers and its stub threshold and
    dispute handlers;
  * the audit query, export and archive functions, which are single paged
    reads (`ArchiveOldLogs` only exports; it deletes nothing), and the
    report's counts by action and by resource type, which no property
    reads;
  * the entities' getters, `IsPorted`, `Blacklist.IsExpired` (an entry
    `AddToBlacklist` saves has no expiry).
* **Vault calls with no client state and no caller:** database credentials
  and leases, Transit key generation, signing and encryption, `Health`,
  `ListSecrets` and `GetSecretMetadata`.
* **Text-only methods:** `NCCReport.SetContent` writes the title and
  summary, which no property compares.
* **Read models with no state:**
  * the fraud analytics repository (dashboard counts, trends, hotspots,
    pattern analysis and `parsePGTextArray`). Each is one SQL read or a
    string split, and none writes anything.
  * `RevenueCalculator.GetRevenueProjection`: one SUM scaled by constants.
  * `NCCReport.FraudRate`.
* **Unreachable code.** `services.go`'s CRUD services are called by no
  handler: the handlers in `handlers.go` are stubs.
* **`AuthService.ValidateToken`.** It checks an RS256 signature and the
  expiry of a JWT and keeps no state; the access tokens it accepts are not
  tracked by the model, whose history `issued` records the tokens
  `RefreshToken` issues.
* **Configuration, connection setup and wiring.**

## Plan

1. Compose `AuditService` with `AuthService` and `Rbac`, which call it, and
   check that lockouts and role changes are audited.
2. Track access tokens in `AuthService` with `ValidateToken`, and check what
   `ChangePassword`'s "Revoke all existing tokens" promises of them.
3. Larger instances of the union runs with two workers, where the hazards
   recorded above need them.
