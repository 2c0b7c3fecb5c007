---------------------------- MODULE MCAuthSession ----------------------------
\* Instances of AuthSession for TLC.
EXTENDS AuthSession, TLC

CONSTANTS r1, r2, c1, l1

TwoRequests == {r1, r2}
OneConnect == {c1}
OneLogout == {l1}

\* Requests are interchangeable.
RequestSymmetry == Permutations(Requests)
=============================================================================
