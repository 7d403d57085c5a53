------------------------ MODULE MCMergePrintOnline -------------------------
(***************************************************************************)
(* Instance of MergePrintOnline for TLC: files with three serials (PPNs 1, *)
(* 2 and 3) that may cross link each other or the PPN 4 missing from the   *)
(* file, and an article (PPN 5) whose uplink names one of the serials, in  *)
(* every order; then the database patches.                                 *)
(***************************************************************************)
EXTENDS MergePrintOnline, Combinatorics

Serials == {1, 2, 3}

Serial(p, links) == [ppn |-> p, serial |-> TRUE, links |-> links, uplink |-> NoUplink]
Article(u) == [ppn |-> 5, serial |-> FALSE, links |-> {}, uplink |-> u]

(* All orders of the records of a link relation (a set of <<from, to>>). *)
FilesOf(rel, u) ==
    LET recs == {Serial(p, {q \in Serials \cup {4} : <<p, q>> \in rel}) : p \in Serials} \cup {Article(u)}
    IN  {f \in [1..4 -> recs] : \A i, j \in 1..4 : i # j => f[i] # f[j]}

Pairs == {<<p, q>> \in Serials \X Serials : p # q}

(* Print and online editions that link each other, some with a link to a *)
(* partner missing from the file.                                        *)
ReciprocalFiles ==
    UNION {FilesOf(rel \cup dangling, u) :
             rel \in {r \in SUBSET Pairs : \A e \in r : <<e[2], e[1]>> \in r},
             dangling \in {{}, {<<1, 4>>}},
             u \in Serials}
    \cup { << Serial(1, {2}), Serial(1, {2}) >> }

(* The VuFind tables Main may find: one user's journal subscriptions to   *)
(* any of the serials, with max_last_modification_times 1 or 2, and a PDA *)
(* subscription and a resource row for one serial.                        *)
MCDatabases ==
    { [subs |-> {[user |-> "u1", ppn |-> p, t |-> f[p]] : p \in {q \in Serials : f[q] # 0}},
       pda |-> {[id |-> 1, ppn |-> b]},
       resource |-> {[id |-> 1, ppn |-> b]}] :
         f \in [Serials -> 0..2], b \in Serials }

(* Cross links in any direction. *)
AnyFiles == UNION {FilesOf(rel, u) : rel \in SUBSET Pairs, u \in {3}}
=============================================================================
