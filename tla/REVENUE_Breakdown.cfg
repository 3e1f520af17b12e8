\* calculateImpact over up to two alerts and two call records, with the
\* detection engine writing between its statements.
SPECIFICATION Spec
CONSTANTS
  t1 = t1  t2 = t2  NullCountry = NullCountry  NoImpact = NoImpact
  EventTypes <- MCEventTypes
  Countries <- MCCountries
  Minutes = {1}
  Periods = {"Daily"}
  MaxAlerts = 2
  MaxCalls = 1
  MaxRequests = 2
  DbFailures = FALSE
\* After MaxRequests reports and full tables nothing is left to do.
CHECK_DEADLOCK FALSE
INVARIANT RevenueBreakdownSumsToTotal
