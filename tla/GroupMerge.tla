----------------------------- MODULE GroupMerge -----------------------------
(***************************************************************************)
(* What resolve_single_conflict_group needs of its downloads, whatever     *)
(* order they end in: the chunks of each list are merged one by one, the   *)
(* ordered lists from first to last, and the group is resolved only with   *)
(* every chunk of every list merged.  Module Downloads implements it.      *)
(***************************************************************************)
EXTENDS Integers, Sequences, Functions

CONSTANTS Streams, Ordered

VARIABLES paths,   \* stream |-> the paths of its list
          merged,  \* stream |-> positions in its list, as merged
          verdict  \* "merging", "resolved" or "failed"

vars == <<paths, merged, verdict>>

NamesOf(s, P) == {paths[s][i] : i \in P}

Merge(s, i) ==
    /\ verdict = "merging"
    /\ i \in DOMAIN paths[s] \ Range(merged[s])
    /\ s \in Ordered => i = Len(merged[s]) + 1
    /\ merged' = [merged EXCEPT ![s] = Append(@, i)]
    /\ UNCHANGED <<paths, verdict>>

Resolve ==
    /\ verdict = "merging"
    /\ \A s \in Streams : NamesOf(s, Range(merged[s])) = Range(paths[s])
    /\ verdict' = "resolved"
    /\ UNCHANGED <<paths, merged>>

GiveUp ==
    /\ verdict = "merging"
    /\ verdict' = "failed"
    /\ UNCHANGED <<paths, merged>>

Init ==
    /\ merged = [s \in Streams |-> <<>>]
    /\ verdict = "merging"

Next ==
    \/ \E s \in Streams : \E i \in DOMAIN paths[s] : Merge(s, i)
    \/ Resolve
    \/ GiveUp

Spec == Init /\ [][Next]_vars
=============================================================================
