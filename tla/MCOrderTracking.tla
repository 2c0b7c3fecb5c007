--------------------------- MODULE MCOrderTracking ---------------------------
\* Instances of OrderTracking for TLC.
EXTENDS OrderTracking

CONSTANTS o1, o2, t1

TwoOrders == {o1, o2}
OneTask == {t1}

\* One of the four terminal statuses: they differ only by name.
WinOnly == {"WIN"}
=============================================================================
