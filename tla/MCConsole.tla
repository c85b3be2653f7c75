----------------------------- MODULE MCConsole -----------------------------
\* Small instances of the console for TLC.
EXTENDS ConsoleProperties, TLC

CONSTANTS w1, w2, d1, d2, s1, s2, r1

\* No profile's path is part of another's.
Apart == [w \in Workstations |-> {}]
=============================================================================
