---------------------------- MODULE AuthService ----------------------------
(***************************************************************************)
(* AuthService.Login, RefreshToken, Logout and ChangePassword of src/      *)
(* services/management-api/internal/domain/security/service/               *)
(* auth_service.go over                                                    *)
(* the users, password_history and refresh_tokens tables of               *)
(* PostgresSecurityRepository.  Each repository call is one atomic SQL     *)
(* statement; a request is a sequence of them, and requests of other       *)
(* clients interleave between any two.  One user account; its password     *)
(* hash is abstracted to the password it verifies.                          *)
(***************************************************************************)
EXTENDS Integers, SequencesExt, FiniteSets

CONSTANTS
    Workers,            \* concurrent HTTP requests
    Passwords,          \* passwords a client may submit (model values)
    StrongPasswords,    \* those validatePassword accepts
    MaxLoginAttempts,   \* Login locks at this many failed attempts (5)
    LockPeriod,         \* lock duration in clock ticks (30 minutes)
    RefreshTTL,         \* refresh token lifetime in clock ticks (7 days)
    MaxTime,            \* bound on the clock
    MaxRequests,        \* bound on requests in a behaviour
    DbFailures,         \* TRUE: a repository write may fail
    Null                \* model value: locked_until IS NULL

ASSUME StrongPasswords \subseteq Passwords
ASSUME MaxLoginAttempts \in Nat \ {0} /\ LockPeriod \in Nat \ {0}
ASSUME DbFailures \in BOOLEAN

VARIABLES
    now,        \* the wall clock, in ticks
    user,       \* the users row
    history,    \* password_history, oldest first
    tokens,     \* refresh_tokens, in creation order
    issued,     \* the refresh token each access token of RefreshToken used
    worker,     \* per request: program counter, inputs, the user row read
    requests    \* requests started so far

vars == <<now, user, history, tokens, issued, worker, requests>>

User == [password : Passwords, isActive : BOOLEAN, mfaEnabled : BOOLEAN,
         isLocked : BOOLEAN, lockedUntil : Nat \cup {Null},
         loginAttempts : Nat]

(* A refresh token remembers the password its Login verified.             *)
Token == [pwd : Passwords, revoked : BOOLEAN, expiresAt : Nat]

Pcs == {"idle", "unlock", "incr", "lock", "token", "reset",
        "history", "update", "addHistory", "revoke", "refreshUser"}

Worker == [pc : Pcs, pwd : Passwords, mfaCode : BOOLEAN, copy : User \cup {Null},
           tok : Nat]

TypeOK ==
    /\ now \in 0..MaxTime
    /\ user \in User
    /\ history \in Seq(Passwords)
    /\ tokens \in Seq(Token)
    /\ issued \in Seq(DOMAIN tokens)
    /\ worker \in [Workers -> Worker]
    /\ requests \in 0..MaxRequests

(* Any active or inactive account, with or without MFA, not locked.       *)
Init ==
    /\ now = 0
    /\ \E p \in Passwords, active, mfa \in BOOLEAN :
          user = [password |-> p, isActive |-> active, mfaEnabled |-> mfa,
                  isLocked |-> FALSE, lockedUntil |-> Null, loginAttempts |-> 0]
    /\ history = <<>>
    /\ tokens = <<>>
    /\ issued = <<>>
    /\ \E p \in Passwords :
          worker = [w \in Workers |-> [pc |-> "idle", pwd |-> p,
                                       mfaCode |-> FALSE, copy |-> Null, tok |-> 0]]
    /\ requests = 0

Idle(w) == worker[w].pc = "idle"

Goto(w, pc) == worker' = [worker EXCEPT ![w].pc = pc]

Start(w) ==
    /\ Idle(w)
    /\ requests < MaxRequests
    /\ requests' = requests + 1

(* A repository write that may fail; its error is logged and ignored.     *)
Write(v, new) == v' = new \/ (DbFailures /\ UNCHANGED v)

(* The repository's reads: GetUserByUsername and GetUserByID select the   *)
(* one users row; GetRefreshToken selects a token by its hash, revoked or  *)
(* not.  RevokeRefreshToken sets is_revoked of the token with that hash.   *)
GetUserByUsername == user
GetUserByID == user
GetRefreshToken(i) == tokens[i]
RevokeRefreshToken(i) == [tokens EXCEPT ![i].revoked = TRUE]

(* The clock advances.                                                     *)
Tick ==
    /\ now < MaxTime
    /\ now' = now + 1
    /\ UNCHANGED <<user, history, tokens, issued, worker, requests>>

-----------------------------------------------------------------------------
(* Login *)

(* user.IsLocked with LockedUntil in the future.                           *)
LockActive(u) == u.isLocked /\ u.lockedUntil # Null /\ now < u.lockedUntil

(* The password check and what follows it on the row read: a wrong       *)
(* password counts an attempt; an inactive account, or MFA enabled and no  *)
(* code, is an error; otherwise roles, permissions and tokens follow.      *)
AfterLockCheck(u, p, code) ==
    CASE u.password # p                          -> "incr"
      [] ~u.isActive \/ (u.mfaEnabled /\ ~code)  -> "idle"
      [] OTHER                                   -> "token"

(* GetUserByUsername, then the lock check on the row read: a lock in the   *)
(* future is an error, an expired one is lifted.                           *)
LoginRead(w) ==
    LET u == GetUserByUsername IN
    /\ Start(w)
    /\ \E p \in Passwords, code \in BOOLEAN :
          worker' = [worker EXCEPT ![w] = [@ EXCEPT !.pwd = p, !.mfaCode = code,
                        !.copy = u,
                        !.pc = CASE LockActive(u) -> "idle"
                                 [] u.isLocked    -> "unlock"
                                 [] OTHER         -> AfterLockCheck(u, p, code)]]
    /\ UNCHANGED <<now, issued, user, history, tokens>>

(* UnlockUser of an expired lock; the copy is treated as unlocked even if *)
(* the statement failed.                                                   *)
UnlockUser(w) ==
    /\ worker[w].pc = "unlock"
    /\ Write(user, [user EXCEPT !.isLocked = FALSE, !.lockedUntil = Null,
                                !.loginAttempts = 0])
    /\ Goto(w, AfterLockCheck(worker[w].copy, worker[w].pwd, worker[w].mfaCode))
    /\ UNCHANGED <<now, issued, history, tokens, requests>>

(* Fault model for the lock threshold: one attempt too many.               *)
ReachesThresholdLate(a) == a > MaxLoginAttempts

ReachesThreshold(a) == a >= MaxLoginAttempts

(* IncrementLoginAttempts: UPDATE ... RETURNING login_attempts; a failed   *)
(* statement returns 0.                                                    *)
IncrementLoginAttempts(w) ==
    /\ worker[w].pc = "incr"
    /\ \/ /\ user' = [user EXCEPT !.loginAttempts = @ + 1]
          /\ worker' = [worker EXCEPT ![w].pc =
                           IF ReachesThreshold(user.loginAttempts + 1)
                           THEN "lock" ELSE "idle"]
       \/ DbFailures /\ UNCHANGED user /\ Goto(w, "idle")
    /\ UNCHANGED <<now, issued, history, tokens, requests>>

(* Fault model for LockUser: the lock period is subtracted.                *)
LockUserBackdated(w) ==
    /\ worker[w].pc = "lock"
    /\ Write(user, [user EXCEPT !.isLocked = TRUE,
                                !.lockedUntil = now - LockPeriod])
    /\ Goto(w, "idle")
    /\ UNCHANGED <<now, issued, history, tokens, requests>>

(* LockUser until now + 30 minutes.                                        *)
LockUser(w) ==
    /\ worker[w].pc = "lock"
    /\ Write(user, [user EXCEPT !.isLocked = TRUE,
                                !.lockedUntil = now + LockPeriod])
    /\ Goto(w, "idle")
    /\ UNCHANGED <<now, issued, history, tokens, requests>>

(* The refresh_tokens row generateRefreshToken inserts: not revoked,       *)
(* expiring RefreshTokenExpiry after now.                                  *)
RefreshTokenRow(pwd) == [pwd |-> pwd, revoked |-> FALSE, expiresAt |-> now + RefreshTTL]

(* GetUserRoles/GetUserPermissions may fail; generateRefreshToken inserts  *)
(* the refresh token (a failed insert is an error).                        *)
CreateRefreshToken(w) ==
    /\ worker[w].pc = "token"
    /\ \/ /\ tokens' = Append(tokens, RefreshTokenRow(worker[w].pwd))
          /\ Goto(w, "reset")
       \/ UNCHANGED tokens /\ Goto(w, "idle")
    /\ UNCHANGED <<now, issued, user, history, requests>>

(* ResetLoginAttempts; UpdateLastLogin changes no modelled column.        *)
ResetLoginAttempts(w) ==
    /\ worker[w].pc = "reset"
    /\ Write(user, [user EXCEPT !.loginAttempts = 0])
    /\ Goto(w, "idle")
    /\ UNCHANGED <<now, issued, history, tokens, requests>>

-----------------------------------------------------------------------------
(* RefreshToken *)

(* GetRefreshToken by the token's hash; a revoked or an expired token is   *)
(* an error.                                                               *)
RefreshRead(w, i) ==
    LET t == GetRefreshToken(i) IN
    /\ Start(w)
    /\ worker' = [worker EXCEPT ![w].tok = i,
                     ![w].pc = IF t.revoked \/ now > t.expiresAt
                               THEN "idle" ELSE "refreshUser"]
    /\ UNCHANGED <<now, issued, user, history, tokens>>

(* GetUserByID, the is_active check, GetUserRoles and GetUserPermissions  *)
(* (either may fail) and generateAccessToken; UpdateRefreshTokenLastUsed   *)
(* changes no modelled column.  The lock is not consulted.                 *)
RefreshUser(w) ==
    /\ worker[w].pc = "refreshUser"
    /\ \/ GetUserByID.isActive /\ issued' = Append(issued, worker[w].tok)
       \/ UNCHANGED issued
    /\ Goto(w, "idle")
    /\ UNCHANGED <<now, user, history, tokens, requests>>

-----------------------------------------------------------------------------
(* Logout and ChangePassword *)

(* Logout: RevokeRefreshToken by the token's hash; its error is returned. *)
Logout(w, i) ==
    /\ Start(w)
    /\ Write(tokens, RevokeRefreshToken(i))
    /\ UNCHANGED <<now, issued, user, history, worker>>

(* validatePassword: at least 12 characters with an upper-case letter, a  *)
(* lower-case letter, a digit and one of !@#$%^&*; StrongPasswords are    *)
(* the passwords of the model that meet the policy.                        *)
ValidatePassword(p) == p \in StrongPasswords

(* GetUserByID, the old password check and validatePassword.               *)
ChangePasswordRead(w) ==
    /\ Start(w)
    /\ \E old, new \in Passwords :
          worker' = [worker EXCEPT ![w].pwd = new,
                        ![w].pc = IF old = GetUserByID.password /\ ValidatePassword(new)
                                  THEN "history" ELSE "idle"]
    /\ UNCHANGED <<now, issued, user, history, tokens>>

(* CheckPasswordHistory: the five most recent hashes.                      *)
RecentPasswords ==
    {history[i] : i \in (IF Len(history) > 5 THEN Len(history) - 4 ELSE 1)..Len(history)}

CheckPasswordHistory(w) ==
    /\ worker[w].pc = "history"
    /\ Goto(w, IF worker[w].pwd \in RecentPasswords THEN "idle" ELSE "update")
    /\ UNCHANGED <<now, issued, user, history, tokens, requests>>

(* UpdatePassword; a failure is returned as an error.                      *)
UpdatePassword(w) ==
    /\ worker[w].pc = "update"
    /\ \/ user' = [user EXCEPT !.password = worker[w].pwd] /\ Goto(w, "addHistory")
       \/ DbFailures /\ UNCHANGED user /\ Goto(w, "idle")
    /\ UNCHANGED <<now, issued, history, tokens, requests>>

AddPasswordHistory(w) ==
    /\ worker[w].pc = "addHistory"
    /\ Write(history, Append(history, worker[w].pwd))
    /\ Goto(w, "revoke")
    /\ UNCHANGED <<now, issued, user, tokens, requests>>

(* RevokeAllTokens -> RevokeAllUserTokens.                                 *)
RevokeAllTokens(w) ==
    /\ worker[w].pc = "revoke"
    /\ Write(tokens, [i \in DOMAIN tokens |-> [tokens[i] EXCEPT !.revoked = TRUE]])
    /\ Goto(w, "idle")
    /\ UNCHANGED <<now, issued, user, history, requests>>

Next ==
    \/ Tick
    \/ \E w \in Workers :
          \/ LoginRead(w) \/ UnlockUser(w) \/ IncrementLoginAttempts(w)
          \/ LockUser(w) \/ CreateRefreshToken(w) \/ ResetLoginAttempts(w)
          \/ \E i \in DOMAIN tokens : Logout(w, i) \/ RefreshRead(w, i)
          \/ RefreshUser(w)
          \/ ChangePasswordRead(w) \/ CheckPasswordHistory(w)
          \/ UpdatePassword(w) \/ AddPasswordHistory(w) \/ RevokeAllTokens(w)

Spec == Init /\ [][Next]_vars
-----------------------------------------------------------------------------
(* Properties *)

Quiescent == \A w \in Workers : Idle(w)

(* The lockout counts: when no request is in progress, an account with     *)
(* MaxLoginAttempts or more failed attempts recorded is locked.            *)
LockedAfterMaxFailures ==
    Quiescent => (user.loginAttempts >= MaxLoginAttempts => user.isLocked)

(* A step of NoLoginWhileLocked.                                            *)
NoLoginWhileLockedStep == Len(tokens') > Len(tokens) => ~LockActive(user)

(* A locked account cannot log in: no refresh token is issued while the    *)
(* account's lock is in force.                                             *)
NoLoginWhileLocked == [][NoLoginWhileLockedStep]_vars

=============================================================================
