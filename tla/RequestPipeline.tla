-------------------------- MODULE RequestPipeline --------------------------
(***************************************************************************)
(* The middleware chain of the Gin router of src/services/management-api/  *)
(* main.go: router.Use(RateLimiter(redis, 100, time.Minute)) for every     *)
(* route, then JWTAuth for the protected group and RequireRole("admin") on *)
(* the admin routes, then the handler (a stub in handlers.go).  Requests   *)
(* run concurrently; the rate limiter's counter lives in Redis, and INCR,  *)
(* EXPIRE and TTL are separate commands.  A key's TTL is kept as the       *)
(* number of clock ticks it has left; Redis drops the key when it runs    *)
(* out.                                                                    *)
(***************************************************************************)
EXTENDS Integers, FiniteSets

CONSTANTS
    IPs,            \* client addresses (c.ClientIP())
    Tokens,         \* Authorization headers clients send, NoToken for none
    Limit,          \* maxRequests of RateLimiter (100)
    Window,         \* window of RateLimiter in ticks (time.Minute)
    Workers,        \* requests in flight at once
    RequestBound,   \* bound on requests in a behaviour
    RedisFailures,  \* TRUE: a Redis command may fail
    NoToken,        \* model value: no Authorization header
    NoTtl           \* model value: the key has no TTL

Routes == {"public", "protected", "admin"}

(* A token as ValidateToken sees it: its signing method (HS256, HS384 and *)
(* HS512 are one SigningMethodHMAC, verified with the service's secret),  *)
(* whether its ExpiresAt has passed, and the roles claim.                  *)
HMAC == {"HS256", "HS384", "HS512"}
Token == [alg : HMAC \cup {"RS256", "none"}, expired : BOOLEAN, roles : SUBSET {"admin", "superadmin", "analyst"}]

ASSUME Tokens \subseteq Token /\ Limit \in Nat \ {0} /\ Window \in Nat \ {0}

VARIABLES
    counter,    \* Redis: ratelimit:ip:<ip> -> value, 0 when the key is absent
    ttl,        \* Redis: ticks left before the key expires, or NoTtl
    worker,     \* per request: pc, client, route, header, INCR result, response
    requests    \* requests started so far

vars == <<counter, ttl, worker, requests>>

Responses == {"none", "handled", "401", "403", "429"}

Worker == [pc : {"idle", "expire", "auth"}, ip : IPs, route : Routes,
           tok : Tokens \cup {NoToken}, count : Nat, code : Responses]

TypeOK ==
    /\ counter \in [IPs -> Nat]
    /\ ttl \in [IPs -> (1..Window) \cup {NoTtl}]
    /\ worker \in [Workers -> Worker]
    /\ requests \in 0..RequestBound

Init ==
    /\ counter = [k \in IPs |-> 0]
    /\ ttl = [k \in IPs |-> NoTtl]
    /\ worker = [w \in Workers |->
                   [pc |-> "idle", ip |-> CHOOSE k \in IPs : TRUE, route |-> "public",
                    tok |-> NoToken, count |-> 0, code |-> "none"]]
    /\ requests = 0

(* The rate-limit key: the user id if the context holds one, the client IP *)
(* otherwise.  RateLimiter is registered on the router before JWTAuth, so  *)
(* the context never holds a user id when it runs.                         *)
RateLimitKey(ctxUser, ip) == IF ctxUser # NoToken THEN ctxUser ELSE ip

(* RateLimiter, Incr on the key; an error lets the request through (fail *)
(* open).                                                                  *)
Incr(w, ip, route, tok) ==
    LET k == RateLimitKey(NoToken, ip) IN
    /\ worker[w].pc = "idle"
    /\ requests < RequestBound
    /\ requests' = requests + 1
    /\ \/ /\ counter' = [counter EXCEPT ![k] = @ + 1]
          /\ worker' = [worker EXCEPT ![w] = [pc |-> "expire", ip |-> k, route |-> route,
                           tok |-> tok, count |-> counter[k] + 1, code |-> "none"]]
       \/ /\ RedisFailures
          /\ UNCHANGED counter
          /\ worker' = [worker EXCEPT ![w] = [pc |-> "auth", ip |-> k, route |-> route,
                           tok |-> tok, count |-> 0, code |-> "none"]]
    /\ UNCHANGED ttl

FirstInWindow(count) == count = 1

(* RateLimiter after Incr: Expire when the count is 1 (its error is not    *)
(* checked; on an absent key it does nothing), the TTL read for the        *)
(* headers, and 429 when the count is above maxRequests.                   *)
Expire(w) ==
    LET k == worker[w].ip
        count == worker[w].count
    IN
    /\ worker[w].pc = "expire"
    /\ IF FirstInWindow(count) /\ counter[k] > 0
       THEN \/ ttl' = [ttl EXCEPT ![k] = Window]
            \/ RedisFailures /\ UNCHANGED ttl
       ELSE UNCHANGED ttl
    /\ worker' = [worker EXCEPT ![w].pc = IF count > Limit THEN "idle" ELSE "auth",
                                 ![w].code = IF count > Limit THEN "429" ELSE "none"]
    /\ UNCHANGED <<counter, requests>>

(* JWTAuth: a header, of the Bearer form, whose token ValidateToken       *)
(* accepts: signed by an HMAC method and not past its ExpiresAt.           *)
ValidateToken(tok) == tok # NoToken /\ tok.alg \in HMAC /\ ~tok.expired

(* RequireRole(roles...): one of the roles, or "superadmin".               *)
RequireRole(userRoles, required) ==
    \E r \in userRoles : r \in required \/ r = "superadmin"

(* JWTAuth on the protected group, RequireRole("admin") on admin routes,   *)
(* then the handler.                                                       *)
Handle(w) ==
    LET tok == worker[w].tok IN
    /\ worker[w].pc = "auth"
    /\ worker' = [worker EXCEPT ![w].pc = "idle", ![w].code =
          CASE worker[w].route = "public"            -> "handled"
            [] ~ValidateToken(tok)                   -> "401"
            [] worker[w].route = "protected"         -> "handled"
            [] RequireRole(tok.roles, {"admin"})     -> "handled"
            [] OTHER                                 -> "403"]
    /\ UNCHANGED <<counter, ttl, requests>>

(* A clock tick: every TTL runs down; Redis drops a key whose TTL ran out. *)
Tick ==
    /\ \E k \in IPs : ttl[k] # NoTtl
    /\ ttl' = [k \in IPs |-> IF ttl[k] \in {NoTtl, 1} THEN NoTtl ELSE ttl[k] - 1]
    /\ counter' = [k \in IPs |-> IF ttl[k] = 1 THEN 0 ELSE counter[k]]
    /\ UNCHANGED <<worker, requests>>

Next ==
    \/ Tick
    \/ \E w \in Workers :
          \/ \E ip \in IPs, route \in Routes, tok \in Tokens \cup {NoToken} :
                Incr(w, ip, route, tok)
          \/ Expire(w)
          \/ Handle(w)

(* Goroutines serving a request keep running, and time keeps passing.      *)
Fairness ==
    /\ WF_vars(Tick)
    /\ \A w \in Workers : WF_vars(Expire(w)) /\ WF_vars(Handle(w))

Spec == Init /\ [][Next]_vars /\ Fairness
-----------------------------------------------------------------------------
(* Properties *)

=============================================================================
