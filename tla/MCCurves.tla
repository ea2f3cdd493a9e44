------------------------------ MODULE MCCurves ------------------------------
(* Bulks with labels of every kind, of one or two chunk shapes.              *)
EXTENDS Curves

\* up to four labels of a kind the notation is made for, and others, fewer
Usual  == {Plain("A"), Plain("C"), At("C", 0), At("C", 1), At("C", 2)}
Others == {Plain(" A"), Plain("A"), At("C", 1), Zeros("C", 1), At("C", 3), Slice("C", 1, 2)}

Chunk(C, k) == [cols |-> C, number |-> k]

Bulk(C, D) == [chunks |-> {Chunk(C, 1), Chunk(D, 2)}, nbRows |-> 3]

\* a shape in two chunks
OneShape == {Bulk(C, C) : C \in {S \in (SUBSET Usual) \cup (SUBSET Others) : Cardinality(S) \in 1 .. 4}}

\* a shape and what it leaves of some labels
TwoShapes ==
    UNION {{Bulk(C, S \ C) : C \in (SUBSET S) \ {{}, S}} :
             S \in {T \in SUBSET Usual : Cardinality(T) \in 2 .. 4} \cup {{Plain("A"), Plain(" A"), At("C", 1), Zeros("C", 1)}}}

SmallBulks == OneShape \cup TwoShapes

Strip == [n \in {" A"} |-> "A"]
=============================================================================
