\* FraudService, GatewayService, RBACService, the management API, the
\* Compliance entities and the MNP entity, one request at a time each, and
\* the threat predictor over the days' alert counts, the AuthService with one
\* client and the revenue calculator with writes between its statements.
CONSTANTS
    Off = Off
    u1 = u1  u2 = u2  w1 = w1  v1 = v1  NoAlert = NoAlert  NoValue = NoValue
    g1 = g1  g2 = g2  g3 = g3  ip1 = ip1  ip2 = ip2  NoGateway = NoGateway  Nil = Nil
    r0 = r0  r1 = r1  r2 = r2  p1 = p1  p2 = p2  q1 = q1  q2 = q2  NoRow = NoRow
    e1 = e1  e2 = e2  m1 = m1  m2 = m2  n1 = n1  n2 = n2  gw1 = gw1  c1 = c1  c2 = c2
    Miss = Miss
    ref1 = ref1  ev1 = ev1  res1 = res1  None = None
    Panic = Panic  ErrInvalidMSISDN = ErrInvalidMSISDN  NoRecord = NoRecord
    t1 = t1  NullCountry = NullCountry  NoImpact = NoImpact
SPECIFICATION Spec
SYMMETRY Symmetry
\* Each component's bounded requests end; it is then idle, not deadlocked.
CHECK_DEADLOCK FALSE
INVARIANT STypeOK
INVARIANT GwsTypeOK
INVARIANT BlacklistedImpliesInactive
INVARIANT NoDanglingAssignment
PROPERTY SystemRolesImmutable
INVARIANT MgmtTypeOK
INVARIANT SubmissionFollowsApproval
INVARIANT NormalizeIdempotent
INVARIANT NormalizeMatchesSpec
INVARIANT TrendIsLeastSquares
INVARIANT ProbabilityInUnitInterval
INVARIANT AuthTypeOK
INVARIANT LockedAfterMaxFailures
INVARIANT RevTypeOK
INVARIANT RevenueWithinRates
