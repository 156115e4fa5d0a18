----------------------------- MODULE MCExclusive -----------------------------
EXTENDS Exclusive, FiniteSets, TLC
MCLocations ==
    {[at |-> 0, n |-> 1], [at |-> 0, n |-> 2], [at |-> 2, n |-> 2], [at |-> 0, n |-> 4]}
MCContents(l) == {[j \in 0..(l.n - 1) |-> x] : x \in Values}
MCGarbage == {[j \in 0..3 |-> x] : x \in Values}
MCSymmetry == Permutations(Contexts)
=============================================================================
