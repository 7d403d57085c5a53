-------------------------- MODULE FlagRecordsTue ----------------------------
(***************************************************************************)
(* flag_records_as_available_in_tuebingen                                  *)
(* (src/cpp/flag_records_as_available_in_tuebingen.cc).  Pass 1           *)
(* (LoadDE21PPNs) collects the control numbers of the superior works (an   *)
(* SPR field) that have a local 852 $a starting with DE-21.  Pass 2        *)
(* (AugmentRecords) rewinds the input and writes every record, adding an   *)
(* ITA $a 1 field to one that has such an 852 itself, or that is an        *)
(* article with a superior PPN among those collected.                      *)
(*                                                                         *)
(* Besides the fields FixArticleBiblioLevels reads, a record has spr (the  *)
(* SPR field is not empty), lok852 (the $a values of the 852 fields of its *)
(* local blocks) and ita (the number of ITA fields).                       *)
(***************************************************************************)
EXTENDS Integers, Sequences

CONSTANTS
    Tue,            \* the 852 $a values "^DE-21.*" matches
    ArticleLevels   \* the leader[7] values Leader::isArticle() accepts

VARIABLES
    flag_in,        \* spr_augmented_marc_input
    flag_out,       \* marc_output
    de21_superior_ppns,
    flag_pc,        \* "load", "augment" or "done"
    pos             \* index of the record read next

flag_vars == <<flag_in, flag_out, de21_superior_ppns, flag_pc, pos>>

(* findAllLocalDataBlocks, findFieldsInLocalBlock("852", "??") and        *)
(* extractSubfieldWithPattern('a', tue_sigil_matcher) over every block.   *)
HasLOK852DE21(r) == r.lok852 \cap Tue # {}

(* ProcessSuperiorRecord: a superior work with a DE-21 852 is collected. *)
ProcessSuperiorRecord ==
    /\ flag_pc = "load"
    /\ pos <= Len(flag_in)
    /\ LET r == flag_in[pos]
       IN de21_superior_ppns' =
            IF r.spr /\ HasLOK852DE21(r) THEN de21_superior_ppns \cup {r.cn}
            ELSE de21_superior_ppns
    /\ pos' = pos + 1
    /\ UNCHANGED <<flag_in, flag_out, flag_pc>>

(* The end of LoadDE21PPNs; AugmentRecords rewinds the reader. *)
Rewind ==
    /\ flag_pc = "load"
    /\ pos > Len(flag_in)
    /\ flag_pc' = "augment"
    /\ pos' = 1
    /\ UNCHANGED <<flag_in, flag_out, de21_superior_ppns>>

SuperiorTags == {"800", "810", "830", "773", "776"}

(* CollectSuperiorPPNs: every $w of every field with one of the tags; the *)
(* superior_ppn_matcher strips a (DE-576) prefix; any other value stays  *)
(* as it is.                                                              *)
CollectSuperiorPPNs(r) ==
    {IF w[1] = "DE-576" THEN w[2] ELSE "(" \o w[1] \o ")" \o w[2] :
        w \in UNION {{ws[j] : j \in 1..Len(ws)} :
                       ws \in {r.links[i][2] : i \in {i \in 1..Len(r.links) : r.links[i][1] \in SuperiorTags}}}}

(* FlagRecordAsInTuebingenAvailable: insertSubfield("ITA", 'a', "1"). *)
Flagged(r) == [r EXCEPT !.ita = @ + 1]

(* Mutant: the superior PPNs are looked up without the article check. *)
ProcessedRecordAnyLevel(r) ==
    IF HasLOK852DE21(r) \/ CollectSuperiorPPNs(r) \cap de21_superior_ppns # {}
    THEN Flagged(r) ELSE r

(* ProcessRecord's record. *)
ProcessedRecord(r) ==
    IF \/ HasLOK852DE21(r)
       \/ r.level \in ArticleLevels /\ CollectSuperiorPPNs(r) \cap de21_superior_ppns # {}
    THEN Flagged(r) ELSE r

(* ProcessRecord: every record is written, flagged or not. *)
ProcessRecord ==
    /\ flag_pc = "augment"
    /\ pos <= Len(flag_in)
    /\ flag_out' = Append(flag_out, ProcessedRecord(flag_in[pos]))
    /\ pos' = pos + 1
    /\ UNCHANGED <<flag_in, de21_superior_ppns, flag_pc>>

FlagDone ==
    /\ flag_pc = "augment"
    /\ pos > Len(flag_in)
    /\ flag_pc' = "done"
    /\ UNCHANGED <<flag_in, flag_out, de21_superior_ppns, pos>>

FlagInit ==
    /\ flag_out = <<>>
    /\ de21_superior_ppns = {}
    /\ flag_pc = "load"
    /\ pos = 1

FlagNext == ProcessSuperiorRecord \/ Rewind \/ ProcessRecord \/ FlagDone
-----------------------------------------------------------------------------
(* The superior works of the input held in Tuebingen, as a set. *)
DE21Superiors(in) == {in[i].cn : i \in {i \in 1..Len(in) : in[i].spr /\ HasLOK852DE21(in[i])}}
====
