---------------------------- MODULE VaultClient ----------------------------
(***************************************************************************)
(* The token lifecycle of HashiCorpVaultClient, src/services/              *)
(* management-api/internal/domain/security/service/vault_client.go:        *)
(* NewVaultClient starts the renewToken goroutine when a token is given;   *)
(* renewToken selects between an hourly ticker, on which it calls          *)
(* RenewSelf, and the tokenRenew channel, which Close closes.  The Vault   *)
(* server's token expires TokenTTL after its last renewal.  A tick of the  *)
(* clock is RenewInterval-th of the ticker period; the goroutine and the   *)
(* 30 s RenewSelf call finish within one tick.                            *)
(***************************************************************************)
EXTENDS Naturals

CONSTANTS
    HasToken,       \* config.Token != ""
    InitialTTL,     \* time the token has left when the client is built
    TokenTTL,       \* the token's TTL after RenewSelf(0)
    RenewInterval,  \* the ticker period (1 hour)
    MaxTime,        \* bound on the clock
    RenewFailures   \* TRUE: RenewSelf may fail (network, Vault sealed)

ASSUME RenewInterval \in Nat \ {0} /\ InitialTTL \in Nat \ {0}

VARIABLES
    vnow,           \* the clock
    tokenExpiry,    \* when the Vault server expires the token
    client,         \* "unbuilt", "open", "failed" (no address), "closed", "panicked"
    renewer,        \* renewToken: "none", "waiting" (in select), "renewing", "stopped"
    nextTick,       \* when the ticker next fires
    chanClosed,     \* tokenRenew has been closed
    kv,             \* the KV v2 mount: each path's latest version
    lastCall        \* the path and outcome of the latest secret call

vvars == <<vnow, tokenExpiry, client, renewer, nextTick, chanClosed, kv, lastCall>>
kvvars == <<kv, lastCall>>

(* The two paths the client's helpers use, and the fields each writes.     *)
(* GetJWTSigningKey and GetNCCCredentials assert the Required fields to   *)
(* string, which panics when a field is missing.                           *)
Paths == {"jwt/signing-key", "ncc/credentials"}
Fields == [p \in Paths |->
             IF p = "jwt/signing-key" THEN {"private_key", "public_key", "created_at"}
             ELSE {"client_id", "client_secret", "api_base_url",
                   "sftp_host", "sftp_user", "sftp_private_key"}]
Required == [p \in Paths |->
               IF p = "jwt/signing-key" THEN {"private_key", "public_key"}
               ELSE {"client_id", "client_secret", "api_base_url"}]
Outcomes == {"none", "ok", "written", "deleted", "not_found", "denied", "panic"}

VTypeOK ==
    /\ vnow \in 0..MaxTime
    /\ tokenExpiry \in Nat
    /\ client \in {"unbuilt", "open", "failed", "closed", "panicked"}
    /\ renewer \in {"none", "waiting", "renewing", "stopped"}
    /\ nextTick \in Nat
    /\ chanClosed \in BOOLEAN
    /\ kv \in [Paths -> [state : {"absent", "live", "deleted"},
                          fields : SUBSET UNION {Fields[p] : p \in Paths}]]
    /\ lastCall \in [path : Paths \cup {"none"}, result : Outcomes]

VInit ==
    /\ vnow = 0
    /\ tokenExpiry = InitialTTL
    /\ client = "unbuilt"
    /\ renewer = "none"
    /\ nextTick = 0
    /\ chanClosed = FALSE
    /\ kv = [p \in Paths |-> [state |-> "absent", fields |-> {}]]
    /\ lastCall = [path |-> "none", result |-> "none"]

(* NewVaultClient: an empty address is an error; the health check's error *)
(* is only logged; with a token, go renewToken() (its ticker starts now).  *)
NewVaultClient(addressSet) ==
    /\ client = "unbuilt"
    /\ client' = IF addressSet THEN "open" ELSE "failed"
    /\ renewer' = IF addressSet /\ HasToken THEN "waiting" ELSE "none"
    /\ nextTick' = vnow + RenewInterval
    /\ UNCHANGED <<vnow, tokenExpiry, chanClosed, kvvars>>

(* The select takes the ticker case.                                       *)
TickerFires ==
    /\ renewer = "waiting"
    /\ vnow >= nextTick
    /\ renewer' = "renewing"
    /\ nextTick' = nextTick + RenewInterval
    /\ UNCHANGED <<vnow, tokenExpiry, client, chanClosed, kvvars>>

(* RenewSelfWithContext(ctx, 0): an unexpired token gets its TTL again; an *)
(* expired one, or a failed call, is an error that is only logged.         *)
RenewSelf ==
    /\ renewer = "renewing"
    /\ \/ vnow < tokenExpiry /\ tokenExpiry' = vnow + TokenTTL
       \/ (vnow >= tokenExpiry \/ RenewFailures) /\ UNCHANGED tokenExpiry
    /\ renewer' = "waiting"
    /\ UNCHANGED <<vnow, client, nextTick, chanClosed, kvvars>>

(* Fault model for renewToken: the select has no tokenRenew case.          *)
StopRenewalMissing == FALSE

(* The select takes the closed tokenRenew case and the goroutine returns.  *)
StopRenewal ==
    /\ renewer = "waiting"
    /\ chanClosed
    /\ renewer' = "stopped"
    /\ UNCHANGED <<vnow, tokenExpiry, client, nextTick, chanClosed, kvvars>>

(* Close: close(v.tokenRenew).  Closing a closed channel panics: a second *)
(* Close panics its caller.                                                *)
Close ==
    /\ client \in {"open", "closed"}
    /\ client' = IF client = "open" THEN "closed" ELSE "panicked"
    /\ chanClosed' = TRUE
    /\ UNCHANGED <<vnow, tokenExpiry, renewer, nextTick, kvvars>>

(* Time passes, from the client's construction on, once the goroutine has *)
(* taken a due tick.                                                       *)
VTick ==
    /\ vnow < MaxTime
    /\ client # "unbuilt"
    /\ renewer # "renewing"
    /\ ~(renewer = "waiting" /\ vnow >= nextTick)
    /\ vnow' = vnow + 1
    /\ UNCHANGED <<tokenExpiry, client, renewer, nextTick, chanClosed, kvvars>>

(* Secret calls go through v.client.Logical(), for any caller, as long as *)
(* the client was built; Close only stops the renewal.  Vault refuses     *)
(* (403) every call made without a token or after the token expired, and  *)
(* the helper returns that error.                                          *)
CanCall == client \in {"open", "closed"}
Denied == ~HasToken \/ vnow >= tokenExpiry

(* GetSecret: what ReadWithContext gives for path p.  A live version is   *)
(* unwrapped from its "data" field.  An absent path is a nil secret, so   *)
(* "secret not found".  A deleted KV v2 version is a 404 whose body holds *)
(* data: null and the metadata; the Vault API returns it as a secret, and *)
(* GetSecret, failing the map assertion, returns secret.Data itself.       *)
GetSecret(p) ==
    CASE kv[p].state = "live"   -> {[found |-> TRUE, fields |-> kv[p].fields]}
      [] kv[p].state = "absent" -> {[found |-> FALSE, fields |-> {}]}
      [] OTHER -> {[found |-> FALSE, fields |-> {}],
                   [found |-> TRUE, fields |-> {"data", "metadata"}]}

(* PutSecret: the data, wrapped in "data", becomes p's latest version.     *)
PutSecret(p, f) ==
    /\ CanCall
    /\ \/ Denied /\ UNCHANGED kv /\ lastCall' = [path |-> p, result |-> "denied"]
       \/ ~Denied /\ kv' = [kv EXCEPT ![p] = [state |-> "live", fields |-> f]]
                  /\ lastCall' = [path |-> p, result |-> "written"]
    /\ UNCHANGED <<vnow, tokenExpiry, client, renewer, nextTick, chanClosed>>

(* DeleteSecret: DeleteWithContext on the data path soft-deletes the       *)
(* latest version; on a path never written it is a no-op.                   *)
DeleteSecret(p) ==
    /\ CanCall
    /\ \/ Denied /\ UNCHANGED kv /\ lastCall' = [path |-> p, result |-> "denied"]
       \/ ~Denied /\ kv[p].state # "absent"
                  /\ kv' = [kv EXCEPT ![p] = [state |-> "deleted", fields |-> {}]]
                  /\ lastCall' = [path |-> p, result |-> "deleted"]
       \/ ~Denied /\ kv[p].state = "absent" /\ UNCHANGED kv
                  /\ lastCall' = [path |-> p, result |-> "deleted"]
    /\ UNCHANGED <<vnow, tokenExpiry, client, renewer, nextTick, chanClosed>>

(* GetJWTSigningKey and GetNCCCredentials: GetSecret, then the required    *)
(* fields asserted to string, which panics on a missing one; the optional  *)
(* fields (created_at and the three sftp ones) are read with the ok form. *)
ReadCredential(p) ==
    /\ CanCall
    /\ \/ Denied /\ lastCall' = [path |-> p, result |-> "denied"]
       \/ ~Denied /\ \E r \in GetSecret(p) :
             lastCall' = [path |-> p,
                          result |-> IF ~r.found THEN "not_found"
                                     ELSE IF Required[p] \subseteq r.fields THEN "ok"
                                     ELSE "panic"]
    /\ UNCHANGED <<vnow, tokenExpiry, client, renewer, nextTick, chanClosed, kv>>

GetJWTSigningKey == ReadCredential("jwt/signing-key")
GetNCCCredentials == ReadCredential("ncc/credentials")

(* StoreJWTSigningKey and StoreNCCCredentials write every field (an unset  *)
(* SFTP field is still an empty string).                                    *)
StoreJWTSigningKey == PutSecret("jwt/signing-key", Fields["jwt/signing-key"])
StoreNCCCredentials == PutSecret("ncc/credentials", Fields["ncc/credentials"])

VNext ==
    \/ \E a \in BOOLEAN : NewVaultClient(a)
    \/ TickerFires \/ RenewSelf \/ StopRenewal
    \/ Close \/ VTick
    \/ StoreJWTSigningKey \/ StoreNCCCredentials
    \/ GetJWTSigningKey \/ GetNCCCredentials
    \/ \E p \in Paths : DeleteSecret(p)

(* The renewal goroutine runs whenever one of its cases is ready.          *)
VFairness ==
    WF_vvars(TickerFires) /\ WF_vvars(RenewSelf) /\ WF_vvars(StopRenewal)

VSpec == VInit /\ [][VNext]_vvars /\ VFairness
-----------------------------------------------------------------------------
(* Properties *)

(* "renewToken automatically renews the Vault token before it expires":   *)
(* while a client built with a token is open, the token has not expired.   *)
TokenLiveWhileOpen ==
    (client = "open" /\ HasToken) => vnow < tokenExpiry

(* "Close stops the token renewal goroutine": once tokenRenew is closed,   *)
(* renewToken eventually returns.                                          *)
RenewalStopsAfterClose ==
    chanClosed ~> renewer \in {"none", "stopped"}

=============================================================================
