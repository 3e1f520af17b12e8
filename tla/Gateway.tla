------------------------------- MODULE Gateway -------------------------------
(***************************************************************************)
(* The Gateway aggregate of src/anti-call-masking/anti-call-masking-       *)
(* platform/internal/domain/gateway/entity/gateway.go as operators on a    *)
(* gateway record.  Name, carrier and type are validated by NewGateway and *)
(* otherwise only copied; they are abstracted to the validation outcome.   *)
(* The fraud threshold is in hundredths, the ACD threshold in seconds.     *)
(***************************************************************************)
EXTENDS Integers

CONSTANTS
    IPs,   \* gateway IP addresses (model values)
    Nil    \* model value: an absent optional field of a request


Rec == [ip : IPs, fraudThreshold : 0..100, cpmLimit : 1..1000,
        acdThreshold : Nat \ {0}, isActive : BOOLEAN, isBlacklisted : BOOLEAN]

(* NewGateway: defaults 0.8, 60 CPM and 10 s; active, not blacklisted.     *)
(* An invalid IP, type or empty carrier name is an error.                  *)
NewGateway(ip) ==
    [ip |-> ip, fraudThreshold |-> 80, cpmLimit |-> 60, acdThreshold |-> 10,
     isActive |-> TRUE, isBlacklisted |-> FALSE]

(* Fault model for UpdateThresholds: the CPM limit has no upper clamp.     *)
ClampCpmNoCeiling(c) == IF c < 1 THEN 1 ELSE c

ClampFraud(t) == IF t < 0 THEN 0 ELSE IF t > 100 THEN 100 ELSE t
ClampCpm(c)   == IF c < 1 THEN 1 ELSE IF c > 1000 THEN 1000 ELSE c
ClampAcd(a)   == IF a < 1 THEN 1 ELSE a

(* UpdateThresholds: each non-nil argument is clamped and stored.          *)
UpdateThresholds(g, ft, cpm, acd) ==
    [g EXCEPT
        !.fraudThreshold = IF ft = Nil THEN @ ELSE ClampFraud(ft),
        !.cpmLimit       = IF cpm = Nil THEN @ ELSE ClampCpm(cpm),
        !.acdThreshold   = IF acd = Nil THEN @ ELSE ClampAcd(acd)]

(* Activate fails on an active or a blacklisted gateway.                   *)
CanActivate(g) == ~g.isActive /\ ~g.isBlacklisted
Activated(g)   == [g EXCEPT !.isActive = TRUE]

(* Deactivate fails on an inactive gateway.                                *)
CanDeactivate(g) == g.isActive
Deactivated(g)   == [g EXCEPT !.isActive = FALSE]

(* Fault model for Blacklist: the gateway is flagged but left active.      *)
BlacklistedStillActive(g) == [g EXCEPT !.isBlacklisted = TRUE]

(* Blacklist sets the flag and deactivates; it cannot fail.               *)
Blacklisted(g) == [g EXCEPT !.isBlacklisted = TRUE, !.isActive = FALSE]

(* Unblacklist clears the flag and leaves the gateway inactive.            *)
Unblacklisted(g) == [g EXCEPT !.isBlacklisted = FALSE]
=============================================================================
