----------------------- MODULE FixArticleBiblioLevels -----------------------
(***************************************************************************)
(* fix_article_biblio_levels (src/cpp/fix_article_biblio_levels.cc).      *)
(* Pass 1 reads every input and collects the control numbers of the       *)
(* records whose leader[7] is 's'.  Pass 2 rewinds the first input and    *)
(* writes each of its records, with leader[7] changed from 'a' to 'b'     *)
(* when the first 800, 810, 830 or 773 field has a first $w naming such a *)
(* record.                                                                 *)
(*                                                                         *)
(* A record is [cn, level, links, ...]: links is the sequence of its      *)
(* linking fields in tag order, each <<tag, ws>> with ws the sequence of  *)
(* its $w values <<sigil, id>>.  An id in PPNs is what the regex          *)
(* "\\(.+\\)(\\d{8}[\\dX])" captures; any other id (a ZDB number) fails it.  *)
(***************************************************************************)
EXTENDS Integers, Sequences

CONSTANTS
    PPNs            \* nine-character control numbers

VARIABLES
    inputs,         \* marc_input1 .. marc_inputN
    fix_out,        \* marc_output
    serial_control_numbers,
    fix_pc,         \* "collect", "patch" or "done"
    file,           \* index of the input pass 1 reads
    rec             \* index of the record read next

fix_vars == <<inputs, fix_out, serial_control_numbers, fix_pc, file, rec>>

(* The subfields HasAtLeastOneSerialParent is given, split at ':'. *)
ParentSubfields == <<"800", "810", "830", "773">>

(* getFieldIndex(tag): the first field with the tag, if any. *)
FirstField(r, tag) ==
    LET is == {i \in 1..Len(r.links) : r.links[i][1] = tag}
    IN IF is = {} THEN <<>> ELSE r.links[CHOOSE i \in is : \A j \in is : i <= j][2]

(* HasSerialParent: the first $w of the first field, through the regex. *)
HasSerialParent(tag, r, serials) ==
    LET ws == FirstField(r, tag)
    IN /\ ws # <<>>
       /\ ws[1][2] \in PPNs
       /\ ws[1][2] \in serials

HasAtLeastOneSerialParent(r, serials) ==
    \E i \in 1..Len(ParentSubfields) : HasSerialParent(ParentSubfields[i], r, serials)

(* RecordSerialControlNumbers, called by CollectSerials for every record  *)
(* of every input.                                                         *)
RecordSerialControlNumbers ==
    /\ fix_pc = "collect"
    /\ rec <= Len(inputs[file])
    /\ LET r == inputs[file][rec]
       IN serial_control_numbers' =
            IF r.level = "s" THEN serial_control_numbers \cup {r.cn}
            ELSE serial_control_numbers
    /\ rec' = rec + 1
    /\ UNCHANGED <<inputs, fix_out, fix_pc, file>>

(* The end of one input; after the last, main rewinds marc_input1. *)
NextInput ==
    /\ fix_pc = "collect"
    /\ rec > Len(inputs[file])
    /\ rec' = 1
    /\ IF file = Len(inputs)
       THEN fix_pc' = "patch" /\ file' = 1
       ELSE fix_pc' = "collect" /\ file' = file + 1
    /\ UNCHANGED <<inputs, fix_out, serial_control_numbers>>

(* Mutant: leader[7] is not checked before the parents are looked at. *)
PatchedLevelAnyLevel(r) ==
    IF HasAtLeastOneSerialParent(r, serial_control_numbers)
    THEN [r EXCEPT !.level = "b"] ELSE r

(* PatchUpArticle's record: leader[7] 'a' with a serial parent becomes 'b'. *)
PatchedLevel(r) ==
    IF r.level = "a" /\ HasAtLeastOneSerialParent(r, serial_control_numbers)
    THEN [r EXCEPT !.level = "b"] ELSE r

(* Mutant: a patched record is written before and after the change. *)
PatchUpArticleWritesTwice ==
    /\ fix_pc = "patch"
    /\ rec <= Len(inputs[1])
    /\ LET r == inputs[1][rec]
       IN fix_out' = IF PatchedLevel(r) = r THEN Append(fix_out, r)
                     ELSE fix_out \o <<r, PatchedLevel(r)>>
    /\ rec' = rec + 1
    /\ UNCHANGED <<inputs, serial_control_numbers, fix_pc, file>>

(* PatchUpArticle, called by PatchUpSerialComponentParts for every record *)
(* of marc_input1: every record is written, patched or not.               *)
PatchUpArticle ==
    /\ fix_pc = "patch"
    /\ rec <= Len(inputs[1])
    /\ fix_out' = Append(fix_out, PatchedLevel(inputs[1][rec]))
    /\ rec' = rec + 1
    /\ UNCHANGED <<inputs, serial_control_numbers, fix_pc, file>>

(* The end of marc_input1: main closes the files. *)
FixDone ==
    /\ fix_pc = "patch"
    /\ rec > Len(inputs[1])
    /\ fix_pc' = "done"
    /\ UNCHANGED <<inputs, fix_out, serial_control_numbers, file, rec>>

FixInit(ins) ==
    /\ inputs = ins
    /\ fix_out = <<>>
    /\ serial_control_numbers = {}
    /\ fix_pc = "collect"
    /\ file = 1
    /\ rec = 1

FixNext == RecordSerialControlNumbers \/ NextInput \/ PatchUpArticle \/ FixDone
-----------------------------------------------------------------------------
(* The control numbers of the serials of all inputs, as a set. *)
SerialsOf(ins) ==
    UNION {{ins[i][j].cn : j \in {j \in 1..Len(ins[i]) : ins[i][j].level = "s"}} : i \in 1..Len(ins)}

(* Two passes make the order of the records irrelevant: once the program  *)
(* has ended, marc_output is marc_input1 record for record, with exactly  *)
(* those 'a' records made 'b' whose first 800/810/830/773 $w names a      *)
(* serial of any input, also one that comes later or in another input.    *)
LevelsFollowSerialParents ==
    fix_pc = "done" =>
        fix_out = [i \in 1..Len(inputs[1]) |->
                     LET r == inputs[1][i] IN
                     IF r.level = "a" /\ HasAtLeastOneSerialParent(r, SerialsOf(inputs))
                     THEN [r EXCEPT !.level = "b"] ELSE r]
====
