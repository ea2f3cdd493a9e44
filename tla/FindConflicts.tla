--------------------------- MODULE FindConflicts ---------------------------
(***************************************************************************)
(* The algorithm of find_conflicts (conflict.py): passes over the list of  *)
(* chunks of a commit, cheap when the chunks share no column, then a loop  *)
(* that groups the conflicts found while it consumes the dictionary that   *)
(* holds them.  BulkWriter uses ConflictGroups, the definition of what     *)
(* this computes; here the one is checked against the other.               *)
(*                                                                         *)
(* The order in which Python visits a dict or a set is any order.          *)
(***************************************************************************)
EXTENDS Chunks, Sequences

CONSTANT Lists  \* the lists of chunk metadata: columns, kind of their dtype,
                \* first and last index value of each chunk

ASSUME ListsAssumption ==
    \A l \in Lists :
       /\ Len(l) \in Nat /\ DOMAIN l = 1 .. Len(l)
       /\ \A n \in DOMAIN l : /\ l[n].cols \subseteq Cols /\ l[n].cols # {}
                             /\ l[n].first \in Rows /\ l[n].last \in Rows
                             /\ l[n].first <= l[n].last

VARIABLES
    list,      \* chunk_meta_list
    pc,
    direct,    \* direct_chunk_conflicts: index |-> indexes
    outer,     \* keys of direct the outer loop has still to visit
    current,   \* i_ch_meta
    group,     \* all_conflict_transient
    inner,     \* indexes the inner loop has still to visit
    again,     \* keep_grouping
    groups     \* group_conflicting_chunks

vars == <<list, pc, direct, outer, current, group, inner, again, groups>>

Indexes == DOMAIN list

-----------------------------------------------------------------------------
(* First pass: chunks that share a column with one before, then after them   *)

AllCols(S) == UNION {list[n].cols : n \in S}

\* counts as the code does: adding the columns of n to those of S adds less
\* than their number
Repeats(n, S) ==
    Cardinality(AllCols(S)) + Cardinality(list[n].cols)
        > Cardinality(AllCols(S \cup {n}))

Forward  == {n \in Indexes : Repeats(n, {m \in Indexes : m < n})}
Backward == {n \in Indexes : Repeats(n, {m \in Indexes : m > n})}

\* Mutant: one direction only.
SharingForward == Forward

Sharing == IF Forward = {} THEN {} ELSE Forward \cup Backward

\* a column with dtypes of several kinds is refused: BulkValidationError
MixedKinds ==
    {c \in AllCols(Sharing) :
       Cardinality({list[n].kind : n \in {m \in Sharing : c \in list[m].cols}}) > 1}

-----------------------------------------------------------------------------
(* Second pass: all chunks of shapes that have a column in common conflict   *)

HashesOf(c) == {ColumnHash(list[n]) : n \in {m \in Sharing : c \in list[m].cols}}

MisalignedWith(n) ==
    UNION {{m \in Sharing : ColumnHash(list[m]) \in HashesOf(c)} :
             c \in {d \in AllCols(Sharing) :
                      /\ Cardinality(HashesOf(d)) > 1
                      /\ ColumnHash(list[n]) \in HashesOf(d)}}

-----------------------------------------------------------------------------
(* Third and final passes: chunks that overlap                               *)

Potential ==
    {n \in Sharing : \E m \in Sharing \ {n} : IndexOverlap(list[n], list[m])}

Overlapping(n) ==
    IF n \in Potential
    THEN {m \in Potential \ {n} : OverlapWith(list[n], list[m])} ELSE {}

ConflictsOf(n) ==
    (IF n \in Sharing THEN MisalignedWith(n) ELSE {}) \cup Overlapping(n)

-----------------------------------------------------------------------------

Init ==
    /\ list \in Lists
    /\ pc = "passes"
    /\ direct = <<>> /\ outer = {} /\ current = 0
    /\ group = {} /\ inner = {} /\ again = FALSE /\ groups = {}

Passes ==
    /\ pc = "passes"
    /\ IF MixedKinds # {}
       THEN pc' = "refused" /\ UNCHANGED <<direct, outer>>
       ELSE /\ direct' = [n \in {m \in Indexes : ConflictsOf(m) # {}} |-> ConflictsOf(n)]
            /\ outer'  = DOMAIN direct'
            /\ pc' = "outer"
    /\ UNCHANGED <<list, current, group, inner, again, groups>>

\* for i_ch_meta in list(direct_chunk_conflicts.keys())
Outer(n) ==
    /\ pc = "outer"
    /\ n \in outer
    /\ outer' = outer \ {n}
    /\ IF n \in DOMAIN direct
       THEN /\ current' = n /\ group' = direct[n] /\ inner' = direct[n] /\ again' = FALSE
            /\ pc' = "inner"
       ELSE UNCHANGED <<current, group, inner, again, pc>>
    /\ UNCHANGED <<list, direct, groups>>

\* Mutant: the conflicts of the conflicts are not followed.
InnerOnce(m) ==
    /\ pc = "inner"
    /\ m \in inner
    /\ inner' = inner \ {m}
    /\ direct' = [k \in DOMAIN direct \ ({m} \ {current}) |-> direct[k]]
    /\ UNCHANGED <<list, pc, outer, current, group, again, groups>>

\* for j_ch_meta in list(all_conflict_transient)
Inner(m) ==
    /\ pc = "inner"
    /\ m \in inner
    /\ inner' = inner \ {m}
    /\ IF m # current /\ m \in DOMAIN direct
       THEN /\ group'  = group \cup direct[m]
            /\ direct' = [k \in DOMAIN direct \ {m} |-> direct[k]]
            /\ again'  = TRUE
       ELSE UNCHANGED <<group, direct, again>>
    /\ UNCHANGED <<list, pc, outer, current, groups>>

\* Mutant: the loop goes on while anything is left in the group.
SweepForever ==
    /\ pc = "inner" /\ inner = {} /\ group # {}
    /\ inner' = group /\ again' = FALSE
    /\ UNCHANGED <<list, pc, direct, outer, current, group, groups>>

\* while keep_grouping
Sweep ==
    /\ pc = "inner" /\ inner = {} /\ again
    /\ inner' = group /\ again' = FALSE
    /\ UNCHANGED <<list, pc, direct, outer, current, group, groups>>

CloseGroup ==
    /\ pc = "inner" /\ inner = {} /\ ~again
    /\ direct' = [k \in DOMAIN direct \ {current} |-> direct[k]]
    /\ groups' = groups \cup {group}
    /\ pc' = "outer"
    /\ UNCHANGED <<list, outer, current, group, inner, again>>

Finish ==
    /\ pc = "outer" /\ outer = {}
    /\ pc' = "done"
    /\ UNCHANGED <<list, direct, outer, current, group, inner, again, groups>>

Next ==
    \/ Passes \/ (\E n \in outer : Outer(n)) \/ (\E m \in inner : Inner(m))
    \/ Sweep \/ CloseGroup \/ Finish

Spec == Init /\ [][Next]_vars /\ WF_vars(Next)

-----------------------------------------------------------------------------
(* Properties *)

ItemAt(n) == [chunk |-> [dir |-> n, meta |-> list[n]], old |-> FALSE]
Reference == {{i.chunk.dir : i \in g} : g \in ConflictGroups({ItemAt(n) : n \in Indexes})}

\* The groups returned are those of the definition: chunks that conflict,
\* directly or through others, whatever the order of the visits.
GroupsAreComponents == pc = "done" => groups = Reference

\* The list is refused if and only if two chunks give one column dtypes of
\* different kinds.
RefusedOnMixedKinds ==
    pc \in {"refused", "done"} =>
        (pc = "refused" <=> \E n, m \in Indexes : /\ list[n].cols \cap list[m].cols # {}
                                                  /\ list[n].kind # list[m].kind)

\* What merging a group gives, if it is not split.
Merged(g) == [cols  |-> AllCols(g),
              first |-> Min({list[n].first : n \in g}),
              last  |-> Max({list[n].last : n \in g})]

\* Conflicts are looked for once (resolve_conflicts does not start again on
\* its result): merging each group leaves no conflict among the merged chunks
\* and those that were in none.
OneRoundIsEnough ==
    pc = "done" =>
        LET kept   == {[chunk |-> [dir |-> n, meta |-> list[n]], old |-> FALSE] :
                         n \in Indexes \ UNION groups}
            merged == {[chunk |-> [dir |-> g, meta |-> Merged(g)], old |-> FALSE] :
                         g \in groups}
        IN  /\ \A i, j \in kept : ~InConflict(i, j)
            /\ \A i, j \in merged : ~InConflict(i, j)
            /\ \A i \in kept, j \in merged :
                 ~OverlapWith(i.chunk.meta, j.chunk.meta) /\ ~Misaligned(i.chunk.meta, j.chunk.meta)

-----------------------------------------------------------------------------
(* Invariant of the grouping loop, of which the properties above follow      *)

Components == [n \in Indexes |->
                 {m \in Indexes : ItemAt(m) \in GroupOf(ItemAt(n), {ItemAt(k) : k \in Indexes})}]

\* The passes went through, or the list was refused, as the kinds decide.
KindsDecide == /\ pc = "refused" => MixedKinds # {}
               /\ pc \in {"outer", "inner", "done"} => MixedKinds = {}

\* The dictionary holds nothing but the conflicts found, and a chunk in
\* conflict that left it is in a group that is complete, or in the one being
\* made, which has all it conflicts with.
Accounted ==
    pc \in {"outer", "inner", "done"} =>
        /\ \A k \in DOMAIN direct : /\ k \in Indexes /\ direct[k] = ConflictsOf(k)
                                   /\ ConflictsOf(k) # {} /\ k \notin UNION groups
        /\ \A k \in Indexes \ DOMAIN direct :
             ConflictsOf(k) # {} =>
                 \/ Components[k] \in groups
                 \/ pc = "inner" /\ k \in Components[current] /\ ConflictsOf(k) \subseteq group
        /\ groups \subseteq Reference

\* No key is missed by the copy of the keys the outer loop walks over.
KeysToVisit ==
    /\ pc = "outer" => DOMAIN direct \subseteq outer
    /\ pc = "inner" => DOMAIN direct \subseteq outer \cup {current}
    /\ pc = "done"  => DOMAIN direct = {}

\* The group being made does not leave the component of its first chunk, and
\* what the inner loop will not look at again has been followed.
Growing ==
    pc = "inner" =>
        /\ current \in DOMAIN direct /\ ConflictsOf(current) \subseteq group
        /\ inner \subseteq group /\ group \subseteq Components[current]
        /\ again \in BOOLEAN
        /\ ~again => \A m \in group \ inner : m = current \/ m \notin DOMAIN direct

ListKept == /\ list \in Lists /\ pc \in {"passes", "refused", "outer", "inner", "done"}
            /\ pc = "passes" => groups = {}

GroupingInv == ListKept /\ KindsDecide /\ Accounted /\ KeysToVisit /\ Growing

\* The grouping loop ends: it consumes the dictionary it walks over.
Terminates == <>(pc \in {"done", "refused"})
=============================================================================
