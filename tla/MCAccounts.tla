------------------------------- MODULE MCAccounts -------------------------------
\* Instances of Accounts for TLC.
EXTENDS Accounts

CONSTANTS h1, h2, a1, a2, k1

TwoHandlers == {h1, h2}
TwoAccounts == {a1, a2}
OneSelector == {k1}
=============================================================================
