--------------------------- MODULE MCClientLifecycle ---------------------------
\* Instances of ClientLifecycle for TLC.
EXTENDS ClientLifecycle

CONSTANTS c1, c2, x1, s1, s2, w1

None == {}
OneConnect == {c1}
TwoConnects == {c1, c2}
OneDisconnect == {x1}
OneSelect == {s1}
TwoSelects == {s1, s2}
OneWaiter == {w1}
=============================================================================
