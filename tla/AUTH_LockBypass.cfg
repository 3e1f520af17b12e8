SPECIFICATION Spec
CONSTANTS
  w1 = w1  w2 = w2  p1 = p1  p2 = p2  Null = Null
  Workers = {w1, w2}
  Passwords <- MCPasswords
  StrongPasswords <- MCPasswords
  MaxLoginAttempts = 5
  LockPeriod = 2
  RefreshTTL = 1
  MaxTime = 3
  MaxRequests = 7
  DbFailures = FALSE
\* Once MaxRequests requests are served and the clock is at MaxTime the
\* service is idle: quiescence, not a deadlock.
CHECK_DEADLOCK FALSE
PROPERTY NoLoginWhileLocked
