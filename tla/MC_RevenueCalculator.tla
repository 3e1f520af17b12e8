------------------------ MODULE MC_RevenueCalculator ------------------------
(* One event type seen from two countries, a local and an international   *)
(* one, so that statement 2 returns two groups of the same type.           *)
EXTENDS RevenueCalculator, TLC

CONSTANTS t1, t2

MCEventTypes == {t1}
MCCountries == {"NGA", "USA", NullCountry}
=============================================================================
