----------------------------- MODULE MCDeleteIds -----------------------------
(***************************************************************************)
(* Instance of DeleteIds for TLC.  Three deletion lists: one title id      *)
(* followed by a newline, the same line as the last line of the file      *)
(* without one, and a local id before it.  One input of three records: p1 *)
(* with a well-formed local record holding l1, p2 with one holding l2,    *)
(* and p3 whose first local record lacks its "000" header.                *)
(***************************************************************************)
EXTENDS DeleteIds

L(t, i, n) == [type |-> t, id |-> i, nl |-> n]
F(t, c, i) == [tag |-> t, z |-> [c |-> c, id |-> i]]

MCDeletionLists ==
    { << L("A", "p1", TRUE) >>,
      << L("A", "p1", FALSE) >>,
      << L("9", "l1", TRUE), L("A", "p3", FALSE) >>,
      << L("A", "p3", TRUE), L("9", "l1", FALSE) >> }

MCInputs ==
    { << << F("001", "cn", "p1"), F("245", "none", ""),
           F("LOK", "000", ""), F("LOK", "001", "l1"), F("LOK", "oth", "") >>,
         << F("001", "cn", "p2"), F("LOK", "000", ""), F("LOK", "001", "l2") >>,
         << F("001", "cn", "p3"), F("LOK", "oth", ""), F("LOK", "001", "l1"),
            F("LOK", "000", ""), F("LOK", "001", "l2") >> >> }
====
