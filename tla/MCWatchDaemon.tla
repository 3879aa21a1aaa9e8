--------------------------- MODULE MCWatchDaemon ---------------------------
\* Small instances of WatchDaemon.
EXTENDS WatchDaemon, TLC

CONSTANTS s1, s2, d1, d2

\* Overlapping daemons are interchangeable; used for safety only.
DaemonSymmetry == Permutations(Daemons)
=============================================================================
