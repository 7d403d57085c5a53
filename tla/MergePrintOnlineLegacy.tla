----------------------- MODULE MergePrintOnlineLegacy -----------------------
(***************************************************************************)
(* The older merge_print_and_online (src/cpp/merge_print_and_online.cc),   *)
(* three passes over one MARC file:                                        *)
(*   1. PopulateISSNtoControlNumberMap: the ISSNs of every serial, the     *)
(*      first record of an ISSN winning;                                   *)
(*   2. CollectMappings: for every "Erscheint auch als" partner link       *)
(*      (776 $w (DE-576)) the partner is mapped to the offset of the       *)
(*      linking record, and the pair to ppn_to_ppn_map with the smaller    *)
(*      PPN as key; a record without such a link is paired through its    *)
(*      029 ISSNs instead; partners missing from the file are then erased  *)
(*      from the offset map and listed;                                    *)
(*   3. ProcessRecords: the larger PPN of every pair is skipped; a record  *)
(*      some record linked to is merged with that record; any other        *)
(*      record has its uplinks patched through ppn_to_ppn_map.             *)
(*                                                                         *)
(* A record is [ppn, serial, issns, partners, refs, uplink]: partners are  *)
(* the (DE-576) PPNs of its 776 fields, refs the $a ISSNs of its 029 x c/d *)
(* fields, both in field order.  A written record is [cn, ppns, uplink,   *)
(* target]: its control number, the PPNs merged into it, its uplink after *)
(* PatchUplink and the uplink it had in the input.                        *)
(***************************************************************************)
EXTENDS Integers, Sequences, FiniteSets, SequencesExt

CONSTANTS
    Files,      \* the MARC input files: sequences of records
    ISSNs,      \* ISSNs, normalised
    NoUplink    \* a record without a (DE-576) uplink

VARIABLES
    input,      \* the file
    pc,         \* "issn", "collect", "erase", "process", "done"
    pos,        \* index of the record marc_reader->read() returns next
    issn_map,   \* issn_to_control_number_map
    all_ppns,   \* all_ppns of CollectMappings
    offsets,    \* control_number_to_offset_map, offsets as record indices
    p2p,        \* ppn_to_ppn_map
    missing,    \* PPNs written to missing_ppn_partners_list
    written     \* records passed to marc_writer->write()

vars == <<input, pc, pos, issn_map, all_ppns, offsets, p2p, missing, written>>

InputPPNs == {input[i].ppn : i \in 1..Len(input)}

(* Moves to the next pass once the reader is at the end; rewind(). *)
EndOfPass(next) == pos > Len(input) /\ pc' = next /\ pos' = 1

(* PopulateISSNtoControlNumberMap, one loop iteration: emplace() keeps   *)
(* the first control number of an ISSN.                                  *)
PopulateISSN ==
    LET r == input[pos] IN
    /\ pc = "issn"
    /\ pos <= Len(input)
    /\ issn_map' = IF r.serial
                   THEN issn_map @@ [x \in r.issns |-> r.ppn]
                   ELSE issn_map
    /\ pos' = pos + 1
    /\ UNCHANGED <<input, pc, all_ppns, offsets, p2p, missing, written>>

EndISSNPass ==
    /\ pc = "issn"
    /\ EndOfPass("collect")
    /\ UNCHANGED <<input, issn_map, all_ppns, offsets, p2p, missing, written>>

(* Mutant: the larger PPN is used as the key. *)
MapPairLargerKey(m, a, b) ==
    IF a < b THEN (b :> a) @@ m ELSE (a :> b) @@ m

(* "Consistently use the alphanumerically smaller PPN as the key". *)
MapPair(m, a, b) ==
    IF a < b THEN (a :> b) @@ m ELSE (b :> a) @@ m

(* The 029 fallback: each ISSN found in the map pairs the record with    *)
(* the ISSN's record.                                                    *)
PairThroughISSNs(m, r) ==
    LET step(acc, x) == IF x \in DOMAIN issn_map THEN MapPair(acc, issn_map[x], r.ppn) ELSE acc
    IN  FoldLeft(step, m, r.refs)

(* Mutant: the offset is taken with tell() after read(), the offset of *)
(* the next record.                                                    *)
CollectMappingsOffsetAfterRead ==
    LET r == input[pos] IN
    /\ pc = "collect"
    /\ pos <= Len(input)
    /\ all_ppns' = all_ppns \cup {r.ppn}
    /\ offsets' = [o \in Range(r.partners) |-> pos + 1] @@ offsets
    /\ p2p' = IF r.partners # <<>>
              THEN FoldLeft(LAMBDA m, o : MapPair(m, o, r.ppn), p2p, r.partners)
              ELSE PairThroughISSNs(p2p, r)
    /\ pos' = pos + 1
    /\ UNCHANGED <<input, pc, issn_map, missing, written>>

(* CollectMappings, one loop iteration: last_offset is the offset of the *)
(* record just read.                                                     *)
CollectMappings ==
    LET r == input[pos] IN
    /\ pc = "collect"
    /\ pos <= Len(input)
    /\ all_ppns' = all_ppns \cup {r.ppn}
    /\ offsets' = [o \in Range(r.partners) |-> pos] @@ offsets
    /\ p2p' = IF r.partners # <<>>
              THEN FoldLeft(LAMBDA m, o : MapPair(m, o, r.ppn), p2p, r.partners)
              ELSE PairThroughISSNs(p2p, r)
    /\ pos' = pos + 1
    /\ UNCHANGED <<input, pc, issn_map, missing, written>>

EndCollectPass ==
    /\ pc = "collect"
    /\ pos > Len(input)
    /\ pc' = "erase"
    /\ UNCHANGED <<input, pos, issn_map, all_ppns, offsets, p2p, missing, written>>

(* The end of CollectMappings: partners missing from the file are listed *)
(* and erased from control_number_to_offset_map; then rewind().          *)
EraseMissingPartners ==
    /\ pc = "erase"
    /\ missing' = DOMAIN offsets \ all_ppns
    /\ offsets' = [p \in DOMAIN offsets \cap all_ppns |-> offsets[p]]
    /\ pc' = "process"
    /\ pos' = 1
    /\ UNCHANGED <<input, issn_map, all_ppns, p2p, written>>

(* PatchUplink: the (DE-576) uplink of a field found as a key of         *)
(* ppn_to_ppn_map is replaced by the key's value, but the range-for       *)
(* `for (auto field : *record)` binds each field by value: setContents()  *)
(* rewrites the copy and the record keeps its uplink.                     *)
PatchUplink(u) == u

(* Mutant: nothing is skipped. *)
SkipPPNsNone == {}

(* skip_ppns: the values of ppn_to_ppn_map. *)
SkipPPNs == Range(p2p)

(* ProcessRecords, one loop iteration.  A merged record keeps the        *)
(* control number of record1, the record just read; ReadRecordFromOffset *)
(* OrDie supplies record2 and seeks back.                                *)
ProcessRecord ==
    LET r == input[pos] IN
    /\ pc = "process"
    /\ pos <= Len(input)
    /\ pos' = pos + 1
    /\ written' =
         CASE r.ppn \in SkipPPNs -> written
           [] r.ppn \in DOMAIN offsets ->
                Append(written, [cn |-> r.ppn, ppns |-> {r.ppn, input[offsets[r.ppn]].ppn},
                                 uplink |-> r.uplink, target |-> r.uplink])
           [] OTHER ->
                Append(written, [cn |-> r.ppn, ppns |-> {r.ppn},
                                 uplink |-> PatchUplink(r.uplink), target |-> r.uplink])
    /\ UNCHANGED <<input, pc, issn_map, all_ppns, offsets, p2p, missing>>

EndProcessPass ==
    /\ pc = "process"
    /\ pos > Len(input)
    /\ pc' = "done"
    /\ UNCHANGED <<input, pos, issn_map, all_ppns, offsets, p2p, missing, written>>

Init ==
    /\ input \in Files
    /\ pc = "issn"
    /\ pos = 1
    /\ issn_map = <<>>
    /\ all_ppns = {}
    /\ offsets = <<>>
    /\ p2p = <<>>
    /\ missing = {}
    /\ written = <<>>

(* The program has exited. *)
Terminated == pc = "done" /\ UNCHANGED vars

Next ==
    \/ PopulateISSN \/ EndISSNPass
    \/ CollectMappings \/ EndCollectPass \/ EraseMissingPartners
    \/ ProcessRecord \/ EndProcessPass
    \/ Terminated

Spec == Init /\ [][Next]_vars

(***************************************************************************)
(* Properties.                                                             *)
(***************************************************************************)
Uplink == Nat \cup {NoUplink}
Record == [ppn : Nat, serial : BOOLEAN, issns : SUBSET ISSNs, partners : Seq(Nat),
           refs : Seq(ISSNs), uplink : Uplink]

TypeOK ==
    /\ input \in Seq(Record)
    /\ pc \in {"issn", "collect", "erase", "process", "done"}
    /\ pos \in 1..Len(input) + 1
    /\ DOMAIN issn_map \subseteq ISSNs /\ Range(issn_map) \subseteq InputPPNs
    /\ all_ppns \subseteq InputPPNs
    /\ DOMAIN offsets \subseteq Nat /\ Range(offsets) \subseteq 1..Len(input)
    /\ DOMAIN p2p \subseteq Nat /\ Range(p2p) \subseteq Nat
    /\ missing \subseteq Nat
    /\ written \in Seq([cn : Nat, ppns : SUBSET Nat, uplink : Uplink, target : Uplink])

(* Once ProcessRecords is done, every record of the input was written,   *)
(* on its own or merged: a record whose PPN ProcessRecords skips as the   *)
(* larger of a pair has been merged into the record of the smaller one.   *)
NoRecordLost ==
    pc = "done" => \A p \in InputPPNs : \E i \in 1..Len(written) : p \in written[i].ppns

(* No input record ends up in two written records. *)
NoRecordWrittenTwice ==
    \A i, j \in 1..Len(written) :
        i # j => written[i].ppns \cap written[j].ppns = {}

(* Once ProcessRecords is done, an uplink that named a record of the     *)
(* input names the written record that record ended up in, as the comment *)
(* on PatchUplink promises: "Make inferior works point to the new merged  *)
(* superior parent".                                                      *)
UplinksFollowMerge ==
    pc = "done" =>
        \A i \in 1..Len(written) :
            written[i].target \in InputPPNs =>
                \E j \in 1..Len(written) :
                    /\ written[j].cn = written[i].uplink
                    /\ written[i].target \in written[j].ppns
=============================================================================
