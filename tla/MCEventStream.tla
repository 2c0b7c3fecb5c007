----------------------------- MODULE MCEventStream -----------------------------
\* Instances of EventStream for TLC.
EXTENDS EventStream

CONSTANTS c1, c2, k1

TwoConsumers == {c1, c2}
OneCloser == {k1}
=============================================================================
