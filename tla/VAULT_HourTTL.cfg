\* A client built with a token whose TTL after RenewSelf is one ticker
\* period (a token created with a one-hour TTL), RenewSelf never failing.
CONSTANTS
  HasToken = TRUE
  InitialTTL = 2
  TokenTTL = 1
  RenewInterval = 1
  MaxTime = 3
  RenewFailures = FALSE
SPECIFICATION VSpec
CHECK_DEADLOCK FALSE
INVARIANT TokenLiveWhileOpen
