-------------------------- MODULE MCOrderSubmission --------------------------
\* Instances of OrderSubmission for TLC.
EXTENDS OrderSubmission

CONSTANTS c1, c2, r1

TwoCalls == {c1, c2}
NoRaw == {}
OneRaw == {r1}
=============================================================================
