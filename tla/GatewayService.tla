--------------------------- MODULE GatewayService ---------------------------
(***************************************************************************)
(* GatewayService of src/voxguard/anti-call-masking-platform/internal/     *)
(* domain/gateway/service/gateway_service.go over the GatewayRepository    *)
(* (Save is an upsert, Delete removes the row, IPExists queries by IP).   *)
(* Every use case is a request with two steps separated by nothing but a  *)
(* database round trip: a read (IPExists or GetGateway -> FindByID) and a *)
(* write (Save or Delete) decided on what was read.  Nothing serialises   *)
(* two requests on the same gateway.                                       *)
(***************************************************************************)
EXTENDS Integers, Gateway

CONSTANTS
    Ids,            \* gateway ids (uuid.New in CreateGateway)
    Workers,        \* concurrent HTTP requests
    CreateInputs,   \* [ip, fraudThreshold, cpmLimit, acdThreshold] of creates
    UpdateInputs,   \* [fraudThreshold, cpmLimit, acdThreshold], Nil allowed
    MaxRequests,    \* bound on requests in a behaviour
    NoGateway       \* model value: no row under the id

Ops == {"create", "update", "delete", "enable", "disable", "blacklist",
        "unblacklist"}

VARIABLES
    store,      \* the gateways table: id -> row, or NoGateway
    used,       \* ids handed out so far
    worker,     \* per request: pc, use case, target id, input, loaded copy
    requests    \* requests started so far

vars == <<store, used, worker, requests>>

Worker == [pc : {"idle", "checked", "loaded"}, op : Ops, id : Ids \cup {NoGateway},
           input : CreateInputs \cup {NoGateway}, copy : Rec \cup {NoGateway}]

Idle == [pc |-> "idle", op |-> "create", id |-> NoGateway, input |-> NoGateway,
         copy |-> NoGateway]

TypeOK ==
    /\ store \in [Ids -> Rec \cup {NoGateway}]
    /\ used \subseteq Ids
    /\ worker \in [Workers -> Worker]
    /\ requests \in 0..MaxRequests

(* One gateway was created before; the rest of the ids are unused.         *)
Init ==
    /\ \E id \in Ids, ip \in IPs :
          /\ store = [i \in Ids |-> IF i = id THEN NewGateway(ip) ELSE NoGateway]
          /\ used = {id}
    /\ worker = [w \in Workers |-> Idle]
    /\ requests = 0

Finish(w) == worker' = [worker EXCEPT ![w] = Idle]

Start(w) ==
    /\ worker[w].pc = "idle"
    /\ requests < MaxRequests
    /\ requests' = requests + 1

IPExists(ip) == \E i \in Ids : store[i] # NoGateway /\ store[i].ip = ip

(* CreateGateway, first step: IPExists; an existing IP is                  *)
(* ErrGatewayAlreadyExists.                                                *)
CheckIP(w, in) ==
    /\ Start(w)
    /\ IF IPExists(in.ip)
       THEN Finish(w)
       ELSE worker' = [worker EXCEPT ![w] = [Idle EXCEPT !.pc = "checked",
                                                       !.input = in]]
    /\ UNCHANGED <<store, used>>

(* A positive request field is applied through UpdateThresholds.          *)
IfPositive(v) == IF v > 0 THEN v ELSE Nil

(* CreateGateway, second step: NewGateway (which may reject the name,      *)
(* type or carrier), thresholds, Save under a fresh id.                    *)
CreateGateway(w) ==
    LET in == worker[w].input IN
    /\ worker[w].pc = "checked"
    /\ Finish(w)
    /\ \/ UNCHANGED <<store, used>>
       \/ \E id \in Ids \ used :
             /\ store' = [store EXCEPT ![id] =
                            UpdateThresholds(NewGateway(in.ip),
                                             IfPositive(in.fraudThreshold),
                                             IfPositive(in.cpmLimit),
                                             IfPositive(in.acdThreshold))]
             /\ used' = used \cup {id}
    /\ UNCHANGED requests

(* GetGateway: FindByID; a missing row is ErrGatewayNotFound.              *)
GetGateway(w, op, id) ==
    /\ Start(w)
    /\ op # "create"
    /\ IF store[id] = NoGateway
       THEN Finish(w)
       ELSE worker' = [worker EXCEPT ![w] = [Idle EXCEPT !.pc = "loaded",
                                !.op = op, !.id = id, !.copy = store[id]]]
    /\ UNCHANGED <<store, used>>

Save(id, g) == store' = [store EXCEPT ![id] = g]

(* UpdateGateway: UpdateName/UpdateCarrier change no modelled field,       *)
(* UpdateThresholds clamps, Save.                                          *)
UpdateGateway(w, in) ==
    Save(worker[w].id, UpdateThresholds(worker[w].copy, in.fraudThreshold,
                                           in.cpmLimit, in.acdThreshold))

(* DeleteGateway: a blacklisted gateway is ErrCannotDeleteBlacklisted.     *)
DeleteGateway(w) ==
    /\ IF worker[w].copy.isBlacklisted
       THEN UNCHANGED store
       ELSE store' = [store EXCEPT ![worker[w].id] = NoGateway]

(* EnableGateway / DisableGateway: the entity's error is returned unsaved. *)
EnableGateway(w) ==
    /\ IF CanActivate(worker[w].copy)
       THEN Save(worker[w].id, Activated(worker[w].copy))
       ELSE UNCHANGED store

DisableGateway(w) ==
    /\ IF CanDeactivate(worker[w].copy)
       THEN Save(worker[w].id, Deactivated(worker[w].copy))
       ELSE UNCHANGED store

BlacklistGateway(w) ==
    Save(worker[w].id, Blacklisted(worker[w].copy))

UnblacklistGateway(w) ==
    Save(worker[w].id, Unblacklisted(worker[w].copy))

(* Second step of every use case but create, on the loaded copy.           *)
Write(w) ==
    /\ worker[w].pc = "loaded"
    /\ Finish(w)
    /\ \/ worker[w].op = "update" /\ \E in \in UpdateInputs : UpdateGateway(w, in)
       \/ worker[w].op = "delete"      /\ DeleteGateway(w)
       \/ worker[w].op = "enable"      /\ EnableGateway(w)
       \/ worker[w].op = "disable"     /\ DisableGateway(w)
       \/ worker[w].op = "blacklist"   /\ BlacklistGateway(w)
       \/ worker[w].op = "unblacklist" /\ UnblacklistGateway(w)
    /\ UNCHANGED <<used, requests>>

Next ==
    \E w \in Workers :
        \/ \E in \in CreateInputs : CheckIP(w, in)
        \/ CreateGateway(w)
        \/ \E op \in Ops, id \in used : GetGateway(w, op, id)
        \/ Write(w)

Spec == Init /\ [][Next]_vars

-----------------------------------------------------------------------------
(* Properties *)

(* Spec 3: a blacklisted gateway is never active.  Blacklist deactivates,  *)
(* Activate refuses a blacklisted gateway and Unblacklist leaves it        *)
(* inactive; the question is whether stale copies saved by concurrent     *)
(* requests can still combine into a blacklisted, active row.             *)
BlacklistedImpliesInactive ==
    \A id \in Ids :
        store[id] # NoGateway => (store[id].isBlacklisted => ~store[id].isActive)

=============================================================================
