---------------------------- MODULE MCCandlePaging ----------------------------
\* Instances of CandlePaging for TLC.
EXTENDS CandlePaging
=============================================================================
