--------------------------- MODULE MC_AuthService ---------------------------
EXTENDS AuthService, TLC

CONSTANTS w1, w2, p1, p2

MCPasswords == {p1, p2}
=============================================================================
