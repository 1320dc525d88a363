--------------------------- MODULE MCWorkerPool ---------------------------
(* Small instances of WorkerPool: which pool serves which file, and which  *)
(* file each request asks for.                                             *)
EXTENDS WorkerPool

CONSTANTS p1, p2, x1, x2, r1, r2, r3, r4

OnePool == {p1}
TwoPools == {p1, p2}
AllInOne == [x \in Paths |-> p1]
OneEach == [x \in Paths |-> IF x = x1 THEN p1 ELSE p2]
LastElsewhere == [r \in Requests |-> IF r = r3 THEN x2 ELSE x1]
LastTwoElsewhere == [r \in Requests |-> IF r \in {r3, r4} THEN x2 ELSE x1]
AllTheSame == [r \in Requests |-> x1]

(* Slots are interchangeable, and so are requests for the same file.       *)
Symmetry == Permutations(Workers) \cup Permutations(Requests \ {r3})
PairSymmetry ==
    Permutations(Workers) \cup Permutations({r1, r2}) \cup Permutations({r3, r4})
FullSymmetry == Permutations(Workers) \cup Permutations(Requests)
=============================================================================
