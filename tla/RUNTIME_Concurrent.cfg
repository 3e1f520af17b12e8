\* Two concurrent requests through the pipeline; the Vault client's renewal
\* goroutine against the clock and Close; the fraud-detection service's
\* handlers, flush goroutines and disconnect requests on one call; the audit
\* service's loggers, reviewers and compliance-report reader.
CONSTANTS
  Off = Off
  ip1 = ip1  ip2 = ip2  w1 = w1  w2 = w2
  NoToken = NoToken  NoTtl = NoTtl
  c1 = c1  d1 = d1
  e1 = e1  u1 = u1  u2 = u2  NoRow = NoRow  NoUser = NoUser
SPECIFICATION Spec
\* Once the bounded requests are served, the keys have expired and the
\* clock is at its bound, nothing is left to do: quiescence, not a deadlock.
CHECK_DEADLOCK FALSE
INVARIANT FdsTypeOK
INVARIANT BufferConservation
INVARIANT ReportListsCountedEvents
PROPERTY EventuallyHandedOver
PROPERTY RenewalStopsAfterClose
