----------------------------- MODULE MCDispatch -----------------------------
\* Small instances of the dispatch core for TLC.
EXTENDS DispatchProperties, TLC

CONSTANTS t1, t2, w1, w2, w3, p1, p2, j1, j2, j3

\* t2 continues the video of t1.
Chained == (t1 :> None) @@ (t2 :> t1)
Independent == [t \in Tasks |-> None]

OneRetry == [t \in Tasks |-> 1]

\* Jobs are interchangeable, and so are workstations as long as all are alike.
Symmetry == Permutations(Jobs) \cup Permutations(Workstations \ Absent)
AllSymmetry == Symmetry \cup Permutations(Procs)
=============================================================================
