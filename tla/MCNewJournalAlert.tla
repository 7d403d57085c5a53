------------------------- MODULE MCNewJournalAlert --------------------------
(***************************************************************************)
(* Instance of NewJournalAlert for TLC: two users, two serials, two       *)
(* issues.  Both users subscribe to the first serial; the second user     *)
(* also to the second serial, directly or through a bundle.               *)
(***************************************************************************)
EXTENDS NewJournalAlert

MCMembers == [k \in {"s1", "s2"} |-> <<k>>] @@ [k \in {"bundle"} |-> <<"s1", "s2">>]

(* Both issues in the first serial. *)
MCSerialOfOne == [i \in {"i1", "i2"} |-> "s1"]

(* One issue in each serial. *)
MCSerialOfEach == [i \in {"i1", "i2"} |-> IF i = "i1" THEN "s1" ELSE "s2"]

MCSubscriptions == {<<"u1", "s1">>, <<"u2", "s1">>, <<"u2", "s2">>}

MCBundleSubscriptions == {<<"u1", "s1">>, <<"u2", "bundle">>}
=============================================================================
