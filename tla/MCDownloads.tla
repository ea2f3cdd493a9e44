----------------------------- MODULE MCDownloads ----------------------------
(* Instances of Downloads for TLC. *)
EXTENDS Downloads, TLC

CONSTANTS session, shape1, shape2

\* the chunks of the session may be listed twice, those of a bulk may not
Lists(s) ==
    CASE s = session -> {<<"a", "b">>, <<"a", "a">>}
      [] s = shape1  -> {<<"d", "e">>}
      [] s = shape2  -> {<<"g">>}
=============================================================================
