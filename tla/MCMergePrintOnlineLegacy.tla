--------------------- MODULE MCMergePrintOnlineLegacy ----------------------
(***************************************************************************)
(* Instance of MergePrintOnlineLegacy for TLC, every file in every order:  *)
(*   - serials 1 and 2, print and online editions linking each other;     *)
(*   - serial 4 (ISSN Y) linking serial 3, whose 029 names Y in return;   *)
(*   - serial 6 linking PPN 9, missing from the file;                     *)
(*   - article 5 with an uplink.                                          *)
(***************************************************************************)
EXTENDS MergePrintOnlineLegacy, Combinatorics

Rec(p, s, i, l, r, u) ==
    [ppn |-> p, serial |-> s, issns |-> i, partners |-> l, refs |-> r, uplink |-> u]

Serials ==
    { Rec(1, TRUE, {}, <<2>>, <<>>, NoUplink),
      Rec(2, TRUE, {}, <<1>>, <<>>, NoUplink),
      Rec(3, TRUE, {"X"}, <<>>, <<"Y">>, NoUplink),
      Rec(4, TRUE, {"Y"}, <<3>>, <<>>, NoUplink),
      Rec(6, TRUE, {}, <<9>>, <<>>, NoUplink) }

Article(u) == Rec(5, FALSE, {}, <<>>, <<>>, u)

(* All orders of a set of records. *)
Orders(recs) ==
    {f \in [1..Cardinality(recs) -> recs] : \A i, j \in DOMAIN f : i # j => f[i] # f[j]}

(* The article's uplink names a record that is written under its own PPN. *)
MergeFiles == UNION {Orders(Serials \cup {Article(u)}) : u \in {NoUplink, 1, 6}}

(* The article's uplink names serial 2, the larger of a merged pair. *)
UplinkFiles == Orders(Serials \cup {Article(2)})
=============================================================================
