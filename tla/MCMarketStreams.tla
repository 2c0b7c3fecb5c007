---------------------------- MODULE MCMarketStreams ----------------------------
\* Instances of MarketStreams for TLC.
EXTENDS MarketStreams, TLC

CONSTANTS s1, s2, m1, m2

TwoStreams == {s1, s2}
TwoMarkets == {m1, m2}

\* Streams and markets are interchangeable.
StreamSymmetry == Permutations(TwoStreams) \cup Permutations(TwoMarkets)
=============================================================================
