------------------------------ MODULE MCRoutes ------------------------------
(* Two requests at a time, for any routes. *)
EXTENDS Routes

Symmetric == Permutations(Requests)
=============================================================================
