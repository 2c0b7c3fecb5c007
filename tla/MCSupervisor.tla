----------------------------- MODULE MCSupervisor -----------------------------
\* Instances of Supervisor for TLC.
EXTENDS Supervisor

CONSTANTS s1, s2, s3, d1, d2

TwoConsumers == {s1, s2}
ThreeConsumers == {s1, s2, s3}
OneCore == {s1}
OneDest == {d1}
TwoDests == {d1, d2}
=============================================================================
