---------------------------- MODULE MCBulkWriter ----------------------------
(* Small instances of BulkWriter for TLC.  Every definition here gives a      *)
(* constant its value; requests of a kind are interchangeable.               *)
EXTENDS BulkWriter, TLC

CONSTANTS p1, p2, p3, c1, c2, w1, s1, s2, w2, nan, none

Shape(C, R) == [cols |-> C, rows |-> R]

\* shapes that share column 1 and row 1: posted twice they have one file name,
\* posted both they are misaligned and overlap
Crossing(s) == {Shape({1}, {0, 1}), Shape({1, 2}, {1, 2})}

\* shapes of one column group that overlap or not, and one of another
Mixed(s) == {Shape({1}, {0, 1}), Shape({1}, {1, 2}), Shape({2}, {0})}

\* each session has its own shapes: those of s2 reach into those of s1, or
\* go on below them
Layered(s) == IF s = s1 THEN {Shape({1}, {0, 1}), Shape({2}, {0, 1})}
              ELSE {Shape({1}, {1}), Shape({1, 2}, {2})}
WholeBulk == {Shape({1, 2}, {0, 1})}
Onto(s) == IF s = s1 THEN {none} ELSE Commits \cup Wholes

\* a session of one cell, committed onto whole bulks
OneCell(s)   == {Shape({1}, {1})}
OntoWhole(s) == Wholes

\* two columns with one index hash and different indexes
Colliding(s) == {Shape({1}, {0, 1, 3}), Shape({2}, {0, 2, 3})}

\* chunks of one column group; the first two overlap, and what they are merged
\* into has more values than the limit of four
Growing(s)  == {Shape({1, 2}, {0, 1}), Shape({1, 2}, {1, 2}), Shape({1, 2}, {3})}

\* these and others: conflicts of two to four columns
Assorted(s) == Growing(s) \cup Mixed(s)

Symmetry == Permutations(Posts) \cup Permutations(Commits) \cup Permutations(Wholes)

NoShapes == {}
NoUpdate(s) == {none}

=============================================================================
