--------------------------- MODULE ManagementApi ---------------------------
(***************************************************************************)
(* The stateful handlers of the management API monolith, src/anti-call-    *)
(* masking/mnt/user-data/outputs/anti-call-masking-platform/management-    *)
(* api/main.go: the blacklist table with its Redis keys                    *)
(* "blacklist:<type>:<value>", the MNP read-through cache "mnp:<msisdn>"   *)
(* with its refresh and the pattern flush, and the gateway_profiles and    *)
(* address rows written by the gateway handlers.  Every SQL statement and  *)
(* every Redis command is one atomic step; handlers of other requests      *)
(* interleave between any two.                                             *)
(***************************************************************************)
EXTENDS Integers, FiniteSets

CONSTANTS
    Entries,        \* blacklist (entry_type, entry_value) pairs; also their ids
    Msisdns,        \* numbers looked up
    Networks,       \* routing numbers in mnp_data
    GatewayIds,     \* gateway_profiles ids
    Carriers,       \* carrier codes (address.tag)
    Workers,        \* concurrent HTTP requests
    MaxRequests,    \* bound on requests in a behaviour
    NoRow,          \* model value: no row / no cache key
    Miss            \* model value: no Redis key

(* Redis keys: tagged by the handler family that writes them.             *)
BlKey(e)  == <<"blacklist", e>>
MnpKey(m) == <<"mnp", m>>

(* flushCache's default "*", refreshMNPCache's "mnp:*", and a blacklist    *)
(* pattern a client may send.                                              *)
Patterns == {"*", "mnp", "blacklist"}
MatchesFamily(pattern, family) == pattern = "*" \/ pattern = family
Matches(pattern, key) == MatchesFamily(pattern, key[1])

VARIABLES
    blacklist,  \* blacklist.is_active per entry, or NoRow
    blCache,    \* entries with a blacklist key in Redis
    mnpDb,      \* mnp_data.routing_number per number, or NoRow
    mnpCache,   \* the cached routing number, or Miss
    changed,    \* history: numbers ported since the last mnp KEYS scan
    gateways,   \* gateway_profiles rows, or NoRow
    grp66,      \* carriers whose address rows are in group 66
    worker,     \* per request: pc, target, value read, KEYS snapshot
    requests    \* requests started so far

vars == <<blacklist, blCache, mnpDb, mnpCache, changed, gateways, grp66,
          worker, requests>>

Gateway == [carrier : Carriers, active : BOOLEAN, blacklisted : BOOLEAN]

Keys == {BlKey(e) : e \in Entries} \cup {MnpKey(m) : m \in Msisdns}

Pcs == {"idle", "blCache", "blDel", "mnpRead", "mnpSet", "del", "gwAddr"}

Worker == [pc : Pcs, target : Entries \cup Msisdns \cup GatewayIds,
           val : Networks \cup {NoRow}, snapshot : SUBSET Keys]

TypeOK ==
    /\ blacklist \in [Entries -> BOOLEAN \cup {NoRow}]
    /\ blCache \subseteq Entries
    /\ mnpDb \in [Msisdns -> Networks \cup {NoRow}]
    /\ mnpCache \in [Msisdns -> Networks \cup {Miss}]
    /\ changed \subseteq Msisdns
    /\ gateways \in [GatewayIds -> Gateway \cup {NoRow}]
    /\ grp66 \subseteq Carriers
    /\ worker \in [Workers -> Worker]
    /\ requests \in 0..MaxRequests

(* Any mnp_data contents; empty blacklist, caches and gateway table.       *)
Init ==
    /\ blacklist = [e \in Entries |-> NoRow]
    /\ blCache = {}
    /\ mnpDb \in [Msisdns -> Networks \cup {NoRow}]
    /\ mnpCache = [m \in Msisdns |-> Miss]
    /\ changed = {}
    /\ gateways = [g \in GatewayIds |-> NoRow]
    /\ grp66 = {}
    /\ \E t \in Entries :
          worker = [w \in Workers |-> [pc |-> "idle", target |-> t,
                                       val |-> NoRow, snapshot |-> {}]]
    /\ requests = 0

Start(w) ==
    /\ worker[w].pc = "idle"
    /\ requests < MaxRequests
    /\ requests' = requests + 1

Goto(w, pc) == worker' = [worker EXCEPT ![w].pc = pc]

Begin(w, pc, target) ==
    worker' = [worker EXCEPT ![w] = [@ EXCEPT !.pc = pc, !.target = target]]

caches == <<blCache, mnpCache, changed>>
db == <<blacklist, mnpDb, gateways, grp66>>

-----------------------------------------------------------------------------
(* Blacklist handlers *)

(* addToBlacklist: INSERT ... ON CONFLICT DO UPDATE SET is_active = true.  *)
AddToBlacklist(w, e) ==
    /\ Start(w)
    /\ blacklist' = [blacklist EXCEPT ![e] = TRUE]
    /\ Begin(w, "blCache", e)
    /\ UNCHANGED <<caches, mnpDb, gateways, grp66>>

(* then SET blacklist:<type>:<value> "1" EX 24h.                          *)
SetBlacklistKey(w) ==
    /\ worker[w].pc = "blCache"
    /\ blCache' = blCache \cup {worker[w].target}
    /\ Goto(w, "idle")
    /\ UNCHANGED <<db, mnpCache, changed, requests>>

(* removeFromBlacklist: SELECT type and value by id (columns no request    *)
(* changes), then UPDATE is_active = false.  A missing row makes the       *)
(* UPDATE a no-op and the DEL hit the key "blacklist::".                   *)
RemoveFromBlacklist(w, e) ==
    /\ Start(w)
    /\ IF blacklist[e] = NoRow
       THEN UNCHANGED blacklist /\ Goto(w, "idle")
       ELSE blacklist' = [blacklist EXCEPT ![e] = FALSE] /\ Begin(w, "blDel", e)
    /\ UNCHANGED <<caches, mnpDb, gateways, grp66>>

(* then DEL blacklist:<type>:<value>.                                      *)
DelBlacklistKey(w) ==
    /\ worker[w].pc = "blDel"
    /\ blCache' = blCache \ {worker[w].target}
    /\ Goto(w, "idle")
    /\ UNCHANGED <<db, mnpCache, changed, requests>>

-----------------------------------------------------------------------------
(* MNP handlers *)

(* mnpLookup: GET mnp:<msisdn>; a hit is answered from the cache.          *)
MnpCacheGet(w, m) ==
    /\ Start(w)
    /\ IF mnpCache[m] # Miss THEN Goto(w, "idle") ELSE Begin(w, "mnpRead", m)
    /\ UNCHANGED <<db, caches>>

(* Fault model for mnpLookup: no return after the 404, so the missing row  *)
(* is cached.                                                              *)
MnpDbReadNoReturn(w) ==
    /\ worker[w].pc = "mnpRead"
    /\ worker' = [worker EXCEPT ![w].pc = "mnpSet", ![w].val = mnpDb[worker[w].target]]
    /\ UNCHANGED <<db, caches, requests>>

(* then SELECT from mnp_data; no row is a 404.                             *)
MnpDbRead(w) ==
    /\ worker[w].pc = "mnpRead"
    /\ IF mnpDb[worker[w].target] = NoRow
       THEN Goto(w, "idle")
       ELSE worker' = [worker EXCEPT ![w].pc = "mnpSet",
                                     ![w].val = mnpDb[worker[w].target]]
    /\ UNCHANGED <<db, caches, requests>>

(* then SET mnp:<msisdn> EX 24h with the row read.                         *)
MnpCacheSet(w) ==
    /\ worker[w].pc = "mnpSet"
    /\ mnpCache' = [mnpCache EXCEPT ![worker[w].target] = worker[w].val]
    /\ Goto(w, "idle")
    /\ UNCHANGED <<db, blCache, changed, requests>>

(* refreshMNPCache (pattern "mnp:*") and flushCache: KEYS <pattern>.       *)
ScanKeys(w, pattern) ==
    /\ Start(w)
    /\ worker' = [worker EXCEPT ![w].pc = "del", ![w].snapshot =
                     {k \in {BlKey(e) : e \in blCache} \cup
                            {MnpKey(m) : m \in {n \in Msisdns : mnpCache[n] # Miss}} :
                         Matches(pattern, k)}]
    /\ changed' = IF MatchesFamily(pattern, "mnp") THEN {} ELSE changed
    /\ UNCHANGED <<db, blCache, mnpCache>>

(* then DEL of the keys listed, if any.                                    *)
DelKeys(w) ==
    /\ worker[w].pc = "del"
    /\ blCache' = blCache \ {e \in Entries : BlKey(e) \in worker[w].snapshot}
    /\ mnpCache' = [m \in Msisdns |->
                      IF MnpKey(m) \in worker[w].snapshot THEN Miss ELSE mnpCache[m]]
    /\ Goto(w, "idle")
    /\ UNCHANGED <<db, changed, requests>>

-----------------------------------------------------------------------------
(* Gateway handlers: each SQL statement is one step.  A missing id makes   *)
(* an UPDATE or DELETE a no-op.                                            *)

(* createGateway: INSERT; the table's defaults make the row active and     *)
(* not blacklisted.                                                        *)
CreateGateway(w, g, c) ==
    /\ Start(w)
    /\ gateways[g] = NoRow
    /\ gateways' = [gateways EXCEPT ![g] =
                      [carrier |-> c, active |-> TRUE, blacklisted |-> FALSE]]
    /\ UNCHANGED <<worker, caches, blacklist, mnpDb, grp66>>

(* updateGateway: carrier_code and is_active from the body, whatever       *)
(* is_blacklisted is.                                                      *)
UpdateGateway(w, g, c, a) ==
    /\ Start(w)
    /\ gateways' = IF gateways[g] = NoRow THEN gateways
                   ELSE [gateways EXCEPT ![g].carrier = c, ![g].active = a]
    /\ UNCHANGED <<worker, caches, blacklist, mnpDb, grp66>>

DeleteGateway(w, g) ==
    /\ Start(w)
    /\ gateways' = [gateways EXCEPT ![g] = NoRow]
    /\ UNCHANGED <<worker, caches, blacklist, mnpDb, grp66>>

(* blockGateway: UPDATE is_blacklisted = true (is_active untouched) ...    *)
BlockGateway(w, g) ==
    /\ Start(w)
    /\ gateways' = IF gateways[g] = NoRow THEN gateways
                   ELSE [gateways EXCEPT ![g].blacklisted = TRUE]
    /\ Begin(w, "gwAddr", g)
    /\ UNCHANGED <<caches, blacklist, mnpDb, grp66>>

(* ... then UPDATE address SET grp = 66 for the carrier the row has now    *)
(* (the error is ignored), and DEL gateway:<id>, a key nothing sets.       *)
BlockAddresses(w) ==
    LET g == worker[w].target IN
    /\ worker[w].pc = "gwAddr"
    /\ grp66' = IF gateways[g] = NoRow THEN grp66 ELSE grp66 \cup {gateways[g].carrier}
    /\ Goto(w, "idle")
    /\ UNCHANGED <<caches, blacklist, mnpDb, gateways, requests>>

(* unblockGateway: clears is_blacklisted; the address group is kept.       *)
UnblockGateway(w, g) ==
    /\ Start(w)
    /\ gateways' = IF gateways[g] = NoRow THEN gateways
                   ELSE [gateways EXCEPT ![g].blacklisted = FALSE]
    /\ UNCHANGED <<worker, caches, blacklist, mnpDb, grp66>>

-----------------------------------------------------------------------------
(* Environment: numbers are ported (the mnp_data import) and Redis keys    *)
(* reach their 24 h TTL.                                                   *)

PortNumber(m, n) ==
    /\ mnpDb[m] # n
    /\ mnpDb' = [mnpDb EXCEPT ![m] = n]
    /\ changed' = changed \cup {m}
    /\ UNCHANGED <<blacklist, blCache, mnpCache, gateways, grp66, worker, requests>>

Expire(k) ==
    /\ \/ k[1] = "blacklist" /\ k[2] \in blCache /\ blCache' = blCache \ {k[2]}
                                /\ UNCHANGED mnpCache
       \/ k[1] = "mnp" /\ mnpCache[k[2]] # Miss
                          /\ mnpCache' = [mnpCache EXCEPT ![k[2]] = Miss]
                          /\ UNCHANGED blCache
    /\ UNCHANGED <<db, changed, worker, requests>>

Next ==
    \/ \E w \in Workers :
          \/ \E e \in Entries : AddToBlacklist(w, e) \/ RemoveFromBlacklist(w, e)
          \/ SetBlacklistKey(w) \/ DelBlacklistKey(w)
          \/ \E m \in Msisdns : MnpCacheGet(w, m)
          \/ MnpDbRead(w) \/ MnpCacheSet(w)
          \/ \E p \in Patterns : ScanKeys(w, p)
          \/ DelKeys(w)
          \/ \E g \in GatewayIds, c \in Carriers :
                CreateGateway(w, g, c) \/ \E a \in BOOLEAN : UpdateGateway(w, g, c, a)
          \/ \E g \in GatewayIds :
                DeleteGateway(w, g) \/ BlockGateway(w, g) \/ UnblockGateway(w, g)
          \/ BlockAddresses(w)
    \/ \E m \in Msisdns, n \in Networks : PortNumber(m, n)
    \/ \E k \in Keys : Expire(k)

Spec == Init /\ [][Next]_vars

-----------------------------------------------------------------------------
(* Properties *)

Quiescent == \A w \in Workers : worker[w].pc = "idle"

====
