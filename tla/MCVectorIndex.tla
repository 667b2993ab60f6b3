---------------------------- MODULE MCVectorIndex ----------------------------
EXTENDS VectorIndex, TLC

CONSTANTS p1, p2
Symmetry == Permutations(Proc)

Claim(text, status) == [text |-> text, status |-> status]
MCContent == {Absent, Claim(1, "verified"), Claim(2, "user-stated")}
MCInitially == [r \in Root |-> [x \in Page |-> IF x = "x" THEN Claim(1, "verified") ELSE Absent]]
MCRegistry == {[name |-> 1, root |-> "r1", enabled |-> TRUE], [name |-> 2, root |-> "r2", enabled |-> TRUE]}
MCEdits == [r \in Root |-> IF r = "r1" THEN 1 ELSE 0]
=============================================================================
