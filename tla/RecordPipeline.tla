--------------------------- MODULE RecordPipeline ---------------------------
(***************************************************************************)
(* Two tools of the record pipeline run one after the other on the same   *)
(* data: fix_article_biblio_levels writes marc_input1 with the levels of   *)
(* serial component parts fixed, and flag_records_as_available_in_tuebingen *)
(* reads that output.  The second starts once the first has ended.         *)
(***************************************************************************)
EXTENDS FixArticleBiblioLevels

CONSTANTS
    Inputs,         \* the command lines of fix_article_biblio_levels: Seq of files
    Tue,
    ArticleLevels

VARIABLES flag_out, de21_superior_ppns, flag_pc, pos

Flag == INSTANCE FlagRecordsTue WITH flag_in <- fix_out

vars == <<fix_vars, flag_out, de21_superior_ppns, flag_pc, pos>>

Init ==
    /\ \E ins \in Inputs : FixInit(ins)
    /\ Flag!FlagInit

Next ==
    \/ FixNext /\ UNCHANGED <<flag_out, de21_superior_ppns, flag_pc, pos>>
    \/ fix_pc = "done" /\ Flag!FlagNext /\ UNCHANGED fix_vars
    \/ fix_pc = "done" /\ flag_pc = "done" /\ UNCHANGED vars

Spec == Init /\ [][Next]_vars
-----------------------------------------------------------------------------
TypeOK ==
    /\ fix_pc \in {"collect", "patch", "done"}
    /\ flag_pc \in {"load", "augment", "done"}
    /\ serial_control_numbers \subseteq PPNs
    /\ de21_superior_ppns \subseteq PPNs
    /\ Len(fix_out) <= Len(inputs[1]) /\ Len(flag_out) <= Len(fix_out)
    /\ \A i \in 1..Len(flag_out) : flag_out[i].ita \in {fix_out[i].ita, fix_out[i].ita + 1}

(* The cns flag_records flags in a sequence of records. *)
FlaggedCNs(out) == {out[i].cn : i \in {i \in 1..Len(out) : out[i].ita > 0}}

(* fix_article_biblio_levels changes no decision of flag_records: running *)
(* flag_records on its output flags the same records as running it on     *)
(* marc_input1 itself would, because the level it writes ('b') is one     *)
(* Leader::isArticle() accepts like the 'a' it replaces.                   *)
FixKeepsTuebingenFlags ==
    flag_pc = "done" =>
        FlaggedCNs(flag_out) =
            {inputs[1][i].cn :
                i \in {i \in 1..Len(inputs[1]) :
                         LET r == inputs[1][i] IN
                         \/ Flag!HasLOK852DE21(r)
                         \/ r.level \in ArticleLevels
                            /\ Flag!CollectSuperiorPPNs(r) \cap Flag!DE21Superiors(inputs[1]) # {}}}
====
