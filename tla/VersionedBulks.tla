--------------------------- MODULE VersionedBulks ---------------------------
(***************************************************************************)
(* What the write side promises to clients that post into a session, then  *)
(* commit it, when nothing fails.  A bulk id that was answered is that of  *)
(* a version: what each cell holds, all of it at once and for good.  A     *)
(* whole post is a version; so is a session, over the version it was       *)
(* committed onto, or over none.  Module BulkWriter implements it.         *)
(***************************************************************************)

CONSTANTS Posts, Commits, Wholes, Sessions,
          Cells,   \* of all bulks
          Frames,  \* the sets of cells that clients post
          None

VARIABLES
    posted,  \* acknowledged post |-> its session and its cells
    bulks,   \* bulk |-> cell |-> the writer of its value, in a set, or none
    closed   \* sessions that were committed

vars == <<posted, bulks, closed>>

Put(f, k, v) == [x \in DOMAIN f \cup {k} |-> IF x = k THEN v ELSE f[x]]

Init ==
    /\ posted = <<>>
    /\ bulks = <<>>
    /\ closed = {}

Post(p, s, C) ==
    /\ p \notin DOMAIN posted
    /\ s \notin closed
    /\ posted' = Put(posted, p, [session |-> s, cells |-> C])
    /\ UNCHANGED <<bulks, closed>>

Whole(w, C) ==
    /\ w \notin DOMAIN bulks
    /\ bulks' = Put(bulks, w, [x \in Cells |-> IF x \in C THEN {w} ELSE {}])
    /\ UNCHANGED <<posted, closed>>

PostsInto(s)  == {p \in DOMAIN posted : posted[p].session = s}
CellsIn(s)    == UNION {posted[p].cells : p \in PostsInto(s)}

\* whose value each cell takes, of the posts into a session that have it
Winners(s) == {w \in [CellsIn(s) -> PostsInto(s)] : \A x \in CellsIn(s) : x \in posted[w[x]].cells}

Before(prev, x) == IF prev = None THEN {} ELSE bulks[prev][x]

Commit(c, s, prev) ==
    /\ c \notin DOMAIN bulks
    /\ s \notin closed /\ closed' = closed \cup {s}
    /\ PostsInto(s) # {}
    /\ \E w \in Winners(s) :
         bulks' = Put(bulks, c,
                      [x \in Cells |-> IF x \in CellsIn(s) THEN {w[x]} ELSE Before(prev, x)])
    /\ UNCHANGED posted

Next ==
    \/ \E p \in Posts, s \in Sessions, C \in Frames : Post(p, s, C)
    \/ \E w \in Wholes, C \in Frames : Whole(w, C)
    \/ \E c \in Commits, s \in Sessions : \E prev \in {None} \cup DOMAIN bulks : Commit(c, s, prev)

Spec == Init /\ [][Next]_vars
=============================================================================
