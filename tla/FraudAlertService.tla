-------------------------- MODULE FraudAlertService --------------------------
(***************************************************************************)
(* FraudService's alert use cases, src/anti-call-masking/                  *)
(* anti-call-masking-platform/internal/domain/fraud/service/               *)
(* fraud_service.go: AcknowledgeAlert, ResolveAlert and ReportToNCC each   *)
(* load the alert (GetAlert -> alertRepo.FindByID), call the entity method *)
(* on the loaded copy and, when it succeeds, alertRepo.Save the copy.      *)
(* Nothing serialises two requests on the same alert: each request is a   *)
(* worker with a load step and a method+save step.  The method only reads *)
(* and writes the worker's own copy, so it is atomic with the save.       *)
(* AddToBlacklist is a check step (blacklistRepo.IsBlacklisted) and a save *)
(* step; RemoveFromBlacklist is one Delete.                                *)
(***************************************************************************)
EXTENDS Naturals, FraudAlert

CONSTANTS
    Workers,       \* concurrent HTTP requests on the same alert
    MaxRequests,   \* bound on requests in a behaviour
    Values,        \* blacklist values (numbers, prefixes)
    NoValue        \* model value: no AddToBlacklist in progress

Ops == {"acknowledge", "resolve", "report"}

VARIABLES
    store,      \* the alert row of the repository
    worker,     \* per request: pc, operation, user and loaded copy
    requests,   \* requests started so far
    ackOk,      \* history: AcknowledgeAlert calls that returned nil
    nccSaved,   \* history: a saved row has carried nccReported = TRUE
    blacklist,  \* blacklist rows: [id, value]
    adding,     \* per request: the value AddToBlacklist found absent, or NoValue
    blCreated   \* rows created so far (their ids)

svars == <<store, worker, requests, ackOk, nccSaved, blacklist, adding, blCreated>>

Worker == [pc : {"idle", "loaded"}, op : Ops, user : Users,
           copy : Alert \cup {NoAlert}]

STypeOK ==
    /\ store \in Alert
    /\ worker \in [Workers -> Worker]
    /\ requests \in 0..MaxRequests
    /\ ackOk \in Nat
    /\ nccSaved \in BOOLEAN
    /\ blacklist \subseteq [id : 0..MaxRequests, value : Values]
    /\ adding \in [Workers -> Values \cup {NoValue}]
    /\ blCreated \in 0..MaxRequests

(* The alert was created by the detector (NewFraudAlert, then Save).       *)
SInit ==
    /\ \E conf \in Confidences : store = NewFraudAlert(conf)
    /\ worker = [w \in Workers |-> [pc |-> "idle", op |-> "acknowledge",
                                    user |-> CHOOSE u \in Users : TRUE,
                                    copy |-> NoAlert]]
    /\ requests = 0
    /\ ackOk = 0
    /\ nccSaved = FALSE
    /\ blacklist = {}
    /\ adding = [w \in Workers |-> NoValue]
    /\ blCreated = 0

(* GetAlert: alertRepo.FindByID returns a copy of the row.                 *)
Load(w, op, u) ==
    /\ worker[w].pc = "idle"
    /\ requests < MaxRequests
    /\ worker' = [worker EXCEPT ![w] = [pc |-> "loaded", op |-> op,
                                        user |-> u, copy |-> store]]
    /\ requests' = requests + 1
    /\ UNCHANGED <<store, ackOk, nccSaved, blacklist, adding, blCreated>>

Done(w) ==
    /\ worker' = [worker EXCEPT ![w].pc = "idle", ![w].copy = NoAlert]
    /\ UNCHANGED <<blacklist, adding, blCreated>>

SaveCopy(a) ==
    /\ store' = a
    /\ nccSaved' = (nccSaved \/ a.nccReported)

(* AcknowledgeAlert: alert.Acknowledge(userID) on the copy; its error is   *)
(* returned without saving.                                                *)
AcknowledgeAlert(w) ==
    LET a == worker[w].copy IN
    /\ worker[w].pc = "loaded" /\ worker[w].op = "acknowledge"
    /\ Done(w)
    /\ IF CanAcknowledge(a)
       THEN /\ SaveCopy(Acknowledged(a, worker[w].user))
            /\ ackOk' = ackOk + 1
       ELSE UNCHANGED <<store, ackOk, nccSaved>>
    /\ UNCHANGED requests

(* ResolveAlert: alert.Resolve on the copy, saved when it succeeds.        *)
ResolveAlert(w) ==
    LET a == worker[w].copy IN
    /\ worker[w].pc = "loaded" /\ worker[w].op = "resolve"
    /\ Done(w)
    /\ IF CanResolve(a)
       THEN SaveCopy(Resolved(a, worker[w].user))
       ELSE UNCHANGED <<store, nccSaved>>
    /\ UNCHANGED <<requests, ackOk>>

(* ReportToNCC: alert.ReportToNCC cannot fail; the copy is saved.          *)
ReportAlertToNCC(w) ==
    LET a == worker[w].copy IN
    /\ worker[w].pc = "loaded" /\ worker[w].op = "report"
    /\ Done(w)
    /\ SaveCopy(ReportedToNCC(a))
    /\ UNCHANGED <<requests, ackOk>>

(* blacklistRepo.IsBlacklisted: a row with the value exists.  Entries      *)
(* AddToBlacklist saves have no expiry, so IsExpired never excludes one.   *)
IsBlacklisted(v) == \E e \in blacklist : e.value = v

(* AddToBlacklist, first call: IsBlacklisted; a found value is the error   *)
(* "entry already blacklisted" and ends the request.                       *)
CheckBlacklist(w, v) ==
    /\ adding[w] = NoValue
    /\ requests < MaxRequests
    /\ requests' = requests + 1
    /\ adding' = IF IsBlacklisted(v) THEN adding ELSE [adding EXCEPT ![w] = v]
    /\ UNCHANGED <<store, worker, ackOk, nccSaved, blacklist, blCreated>>

(* AddToBlacklist, second call: Save(NewBlacklistEntry(..., "manual", nil)) *)
(* with a fresh uuid.                                                      *)
SaveBlacklistEntry(w) ==
    /\ adding[w] # NoValue
    /\ blacklist' = blacklist \cup {[id |-> blCreated, value |-> adding[w]]}
    /\ blCreated' = blCreated + 1
    /\ adding' = [adding EXCEPT ![w] = NoValue]
    /\ UNCHANGED <<store, worker, requests, ackOk, nccSaved>>

(* RemoveFromBlacklist: blacklistRepo.Delete(id).                          *)
RemoveFromBlacklist(id) ==
    /\ requests < MaxRequests
    /\ requests' = requests + 1
    /\ blacklist' = {e \in blacklist : e.id # id}
    /\ UNCHANGED <<store, worker, ackOk, nccSaved, adding, blCreated>>

SNext ==
    \/ \E w \in Workers, op \in Ops, u \in Users : Load(w, op, u)
    \/ \E w \in Workers :
          AcknowledgeAlert(w) \/ ResolveAlert(w) \/ ReportAlertToNCC(w)
    \/ \E w \in Workers, v \in Values : CheckBlacklist(w, v)
    \/ \E w \in Workers : SaveBlacklistEntry(w)
    \/ \E e \in blacklist : RemoveFromBlacklist(e.id)

SSpec == SInit /\ [][SNext]_svars

-----------------------------------------------------------------------------
(* Properties *)

(* Spec 9 (Acknowledge applied twice: the second fails with               *)
(* AlreadyInState) and spec 5 (transitions serialised per alert): at most *)
(* one AcknowledgeAlert request on an alert ever succeeds, however the    *)
(* requests on it interleave.                                              *)
AcknowledgeSucceedsOnce == ackOk <= 1

(* AddToBlacklist refuses a value that is already blacklisted ("entry     *)
(* already blacklisted"): no two blacklist rows carry the same value,      *)
(* whatever additions and removals came before.                            *)
UniqueBlacklistValue ==
    \A e1, e2 \in blacklist : e1.value = e2.value => e1.id = e2.id
=============================================================================
