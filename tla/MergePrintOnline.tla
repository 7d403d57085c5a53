-------------------------- MODULE MergePrintOnline --------------------------
(***************************************************************************)
(* The record phase of merge_print_and_online                              *)
(* (src/cpp/pipelines/merge_print_and_online.cc).  A first pass over the   *)
(* MARC file records each PPN's offset and groups serials that cross link  *)
(* their print and online editions: the largest PPN of a group is its      *)
(* canonical PPN, ppn_to_canonical_ppn_map maps the others to it and       *)
(* canonical_ppn_to_ppn_map maps it back to each of them.  Groups with a   *)
(* member missing from the file are then dropped.  After a rewind a second *)
(* pass skips every mapped PPN, merges each group into the record of its   *)
(* canonical PPN, patches uplinks through ppn_to_canonical_ppn_map and     *)
(* writes the record; a final sanity check compares the number of merges   *)
(* with the size of canonical_ppn_to_ppn_map.                              *)
(*                                                                         *)
(* PPNs are numbers, ordered as the fixed-width PPN strings compare.  A    *)
(* record is [ppn, serial, links, uplink]: its control number, whether it  *)
(* is a serial, the PPNs of its cross link fields, and the PPN of its      *)
(* uplink field or NoUplink.  A merged record is represented by the set    *)
(* of PPNs merged into it.  After the merge Main patches three tables of   *)
(* the VuFind database through ppn_to_canonical_ppn_map: journal           *)
(* subscriptions, PDA subscriptions and resources.                         *)
(***************************************************************************)
EXTENDS Integers, Sequences, FiniteSets, SequencesExt

CONSTANTS
    Files,      \* the MARC input files: sequences of records
    NoUplink,   \* a record without an uplink carrying a (DE-576) PPN
    Databases   \* the tables Main may find: [subs, pda, resource]

VARIABLES
    input,        \* the file being processed
    pc,           \* "collect", "merge", "done" or "failed" (LOG_ERROR)
    pos,          \* index of the next record marc_reader->read() returns
    offsets,      \* the PPNs ppn_to_offset_map has an offset for
    p2c,          \* ppn_to_canonical_ppn_map
    c2p,          \* canonical_ppn_to_ppn_map, as a set of <<canonical, ppn>>
    merged_count, \* merged_count
    unprocessed,  \* unprocessed_ppns
    written,      \* records passed to marc_writer->write(): [cn, ppns, uplink]
    subs,         \* ixtheo_journal_subscriptions: [user, ppn, t] rows
    pda,          \* ixtheo_pda_subscriptions: [id, ppn] rows
    resource,     \* resource: [id, ppn] rows
    db0           \* the tables as Main found them (history)

db_vars == <<subs, pda, resource, db0>>
vars == <<input, pc, pos, offsets, p2c, c2p, merged_count, unprocessed, written, db_vars>>

InputPPNs == {input[i].ppn : i \in 1..Len(input)}

(* The PPNs a std::multimap equal_range() over key c yields. *)
Members(c) == {e[2] : e \in {x \in c2p : x[1] = c}}
Canonicals == {e[1] : e \in c2p}

(* The map f with the keys K erased. *)
EraseKeys(f, K) == [p \in DOMAIN f \ K |-> f[p]]

(***************************************************************************)
(* CollectRecordOffsetsAndCrosslinks, one loop iteration per record.       *)
(***************************************************************************)
(* The range-for over the std::set cross_link_ppns while it grows: each   *)
(* visited PPN adds its canonical PPN and its members; the loop goes on   *)
(* with the next larger element, so an element inserted below the        *)
(* current one is never visited.                                          *)
RECURSIVE Expand(_, _)
Expand(S, c) ==
    LET S2    == S \cup (IF c \in DOMAIN p2c THEN {p2c[c]} ELSE {}) \cup Members(c)
        later == {x \in S2 : x > c}
    IN  IF later = {} THEN S2 ELSE Expand(S2, Min(later))

(* Mutant: the maps are not searched for further members. *)
CrossLinkGroupNoLookup(r) == r.links \cup {r.ppn}

(* The group the record r joins: its expanded cross links and its own     *)
(* control number, added after the expansion.                             *)
CrossLinkGroup(r) == Expand(r.links, Min(r.links)) \cup {r.ppn}

(* Erase every member of the group from both maps, then map every member  *)
(* but the largest to the largest.                                        *)
RegroupP2C(S) ==
    LET m == Max(S)
    IN  [p \in (DOMAIN p2c \ S) \cup (S \ {m}) |-> IF p \in S THEN m ELSE p2c[p]]

RegroupC2P(S) ==
    {e \in c2p : e[1] \notin S} \cup {<<Max(S), p>> : p \in S \ {Max(S)}}

CollectRecord ==
    LET r == input[pos] IN
    /\ pc = "collect"
    /\ pos <= Len(input)
    /\ IF r.ppn \in offsets
       THEN /\ pc' = "failed"
            /\ UNCHANGED <<pos, offsets, p2c, c2p>>
       ELSE /\ offsets' = offsets \cup {r.ppn}
            /\ pos' = pos + 1
            /\ IF r.serial /\ r.links # {}
               THEN /\ p2c' = RegroupP2C(CrossLinkGroup(r))
                    /\ c2p' = RegroupC2P(CrossLinkGroup(r))
               ELSE UNCHANGED <<p2c, c2p>>
            /\ UNCHANGED pc
    /\ UNCHANGED <<input, merged_count, unprocessed, written, db_vars>>

(***************************************************************************)
(* EliminateDanglingOrUnreferencedCrossLinks, then the rewind and the      *)
(* set-up of unprocessed_ppns in MergeRecordsAndPatchUplinks.             *)
(***************************************************************************)
DroppedGroups ==
    {c \in Canonicals : c \notin offsets \/ \E p \in Members(c) : p \notin offsets}

(* Mutant: dropped groups stay in ppn_to_canonical_ppn_map. *)
EliminateKeepingP2C ==
    LET c2p_left == {e \in c2p : e[1] \notin DroppedGroups}
    IN
    /\ pc = "collect"
    /\ pos > Len(input)
    /\ c2p' = c2p_left
    /\ unprocessed' = {e[2] : e \in c2p_left}
    /\ pc' = "merge"
    /\ pos' = 1
    /\ UNCHANGED <<input, offsets, p2c, merged_count, written, db_vars>>

(* Mutant: the rewind leaves the reader one record before the first. *)
EliminateRewindOffByOne ==
    LET dropped_members == UNION {Members(c) : c \in DroppedGroups}
        c2p_left        == {e \in c2p : e[1] \notin DroppedGroups}
    IN
    /\ pc = "collect"
    /\ pos > Len(input)
    /\ p2c' = EraseKeys(p2c, dropped_members)
    /\ c2p' = c2p_left
    /\ unprocessed' = {e[2] : e \in c2p_left}
    /\ pc' = "merge"
    /\ pos' = 0
    /\ UNCHANGED <<input, offsets, merged_count, written, db_vars>>

EliminateDanglingOrUnreferencedCrossLinks ==
    LET dropped_members == UNION {Members(c) : c \in DroppedGroups}
        c2p_left        == {e \in c2p : e[1] \notin DroppedGroups}
    IN
    /\ pc = "collect"
    /\ pos > Len(input)
    /\ p2c' = EraseKeys(p2c, dropped_members)
    /\ c2p' = c2p_left
    /\ unprocessed' = {e[2] : e \in c2p_left}
    /\ pc' = "merge"
    /\ pos' = 1
    /\ UNCHANGED <<input, offsets, merged_count, written, db_vars>>

(***************************************************************************)
(* MergeRecordsAndPatchUplinks, one loop iteration per record.             *)
(***************************************************************************)
(* PatchUplinks: an uplink to a mapped PPN is redirected to its canonical *)
(* PPN.                                                                   *)
(* Mutant: uplinks are left as they are. *)
PatchUplinksNone(u) == u

PatchUplinks(u) == IF u \in DOMAIN p2c THEN p2c[u] ELSE u

(* Mutant: mapped PPNs are not skipped. *)
SkippedNever(p) == FALSE

(* A record whose PPN is mapped will be merged into its canonical one. *)
Skipped(p) == p \in DOMAIN p2c

MergeRecord ==
    LET r == input[pos]
        M == Members(r.ppn)
    IN
    /\ pc = "merge"
    /\ pos <= Len(input)
    /\ pos' = pos + 1
    /\ CASE Skipped(r.ppn) ->
                UNCHANGED <<pc, merged_count, unprocessed, written>>
         [] M # {} /\ ~(M \subseteq offsets) ->
                /\ pc' = "failed"
                /\ UNCHANGED <<merged_count, unprocessed, written>>
         [] OTHER ->
                /\ written' = Append(written, [cn |-> r.ppn, ppns |-> {r.ppn} \cup M,
                                               uplink |-> PatchUplinks(r.uplink)])
                /\ merged_count' = merged_count + Cardinality(M)
                /\ unprocessed' = unprocessed \ M
                /\ UNCHANGED pc
    /\ UNCHANGED <<input, offsets, p2c, c2p, db_vars>>

(* The sanity check after the loop. *)
SanityCheck ==
    /\ pc = "merge"
    /\ pos > Len(input)
    /\ pc' = IF merged_count # Cardinality(c2p) THEN "failed" ELSE "connect"
    /\ UNCHANGED <<input, pos, offsets, p2c, c2p, merged_count, unprocessed, written, db_vars>>

(***************************************************************************)
(* The database patches of Main (debug off).                               *)
(***************************************************************************)
record_vars == <<input, pos, offsets, p2c, c2p, merged_count, unprocessed, written>>

(* DbConnection db_connection(mysql_url): the tables as they are. *)
ConnectDb ==
    /\ pc = "connect"
    /\ \E db \in Databases :
         /\ subs' = db.subs /\ pda' = db.pda /\ resource' = db.resource
         /\ db0' = db
    /\ pc' = "subs"
    /\ UNCHANGED record_vars

(* Mutant: the subscription is renamed without looking for one to second. *)
PatchSubscriptionsOfAlwaysRename(S, first, second) ==
    {IF r.ppn = first THEN [r EXCEPT !.ppn = second] ELSE r : r \in S}

(* One iteration of the outer loop of PatchSerialSubscriptions, for the    *)
(* map entry first |-> second: a user's subscription to first is renamed   *)
(* to second if the user has none to second.  Otherwise it is deleted, and *)
(* second's row is updated to the smaller of the two times only if first's *)
(* time is greater than that minimum.                                      *)
PatchSubscriptionsOf(S, first, second) ==
    LET RowOf(u, q) == {r \in S : r.user = u /\ r.ppn = q}
        Merged(r2) ==
            IF RowOf(r2.user, first) = {} THEN r2
            ELSE LET t1 == (CHOOSE r1 \in RowOf(r2.user, first) : TRUE).t
                     m  == IF r2.t < t1 THEN r2.t ELSE t1
                 IN  IF t1 > m THEN [r2 EXCEPT !.t = m] ELSE r2
        Renamed(r1) ==
            IF RowOf(r1.user, second) = {} THEN {[r1 EXCEPT !.ppn = second]} ELSE {}
    IN  {Merged(r) : r \in {x \in S : x.ppn = second}}
          \cup {r \in S : r.ppn \notin {first, second}}
          \cup UNION {Renamed(r) : r \in {x \in S : x.ppn = first}}

(* The map is an std::unordered_map: its entries come in any order. *)
PatchSerialSubscriptions ==
    /\ pc = "subs"
    /\ \E order \in SetToSeqs(DOMAIN p2c) :
         subs' = FoldLeft(LAMBDA S, p : PatchSubscriptionsOf(S, p, p2c[p]), subs, order)
    /\ pc' = "pda"
    /\ UNCHANGED <<pda, resource, db0>>
    /\ UNCHANGED record_vars

(* SELECT the rows with book_ppn = first, then UPDATE ... SET book_ppn =   *)
(* first WHERE id = <row> AND book_ppn = second.                           *)
PatchPDASubscriptions ==
    LET Update(rows, p) ==
            LET selected == {r.id : r \in {x \in rows : x.ppn = p}}
            IN  {IF r.id \in selected /\ r.ppn = p2c[p] THEN [r EXCEPT !.ppn = p] ELSE r : r \in rows}
    IN
    /\ pc = "pda"
    /\ pda' = FoldLeft(Update, pda, SetToSeq(DOMAIN p2c))
    /\ pc' = "resource"
    /\ UNCHANGED <<subs, resource, db0>>
    /\ UNCHANGED record_vars

(* Mutant: the UPDATE sets record_id to the mapped PPN itself. *)
PatchResourceTableSameId ==
    /\ pc = "resource"
    /\ resource' = resource
    /\ pc' = "done"
    /\ UNCHANGED <<subs, pda, db0>>
    /\ UNCHANGED record_vars

(* Every row whose record_id is mapped gets the canonical PPN. *)
PatchResourceTable ==
    /\ pc = "resource"
    /\ resource' = {IF r.ppn \in DOMAIN p2c THEN [r EXCEPT !.ppn = p2c[r.ppn]] ELSE r : r \in resource}
    /\ pc' = "done"
    /\ UNCHANGED <<subs, pda, db0>>
    /\ UNCHANGED record_vars

Init ==
    /\ input \in Files
    /\ pc = "collect"
    /\ pos = 1
    /\ offsets = {}
    /\ p2c = <<>>
    /\ c2p = {}
    /\ merged_count = 0
    /\ unprocessed = {}
    /\ written = <<>>
    /\ subs = {} /\ pda = {} /\ resource = {}
    /\ db0 = [subs |-> {}, pda |-> {}, resource |-> {}]

(* The program has exited. *)
Terminated == pc \in {"done", "failed"} /\ UNCHANGED vars

Next ==
    \/ CollectRecord
    \/ EliminateDanglingOrUnreferencedCrossLinks
    \/ MergeRecord
    \/ SanityCheck
    \/ ConnectDb
    \/ PatchSerialSubscriptions
    \/ PatchPDASubscriptions
    \/ PatchResourceTable
    \/ Terminated

Spec == Init /\ [][Next]_vars

(***************************************************************************)
(* Properties.                                                             *)
(***************************************************************************)
Record == [ppn : Nat, serial : BOOLEAN, links : SUBSET Nat, uplink : Nat \cup {NoUplink}]

TypeOK ==
    /\ input \in Seq(Record)
    /\ pc \in {"collect", "merge", "connect", "subs", "pda", "resource", "done", "failed"}
    /\ pos \in 1..Len(input) + 1
    /\ offsets \subseteq InputPPNs
    /\ DOMAIN p2c \subseteq Nat /\ \A p \in DOMAIN p2c : p2c[p] \in Nat
    /\ c2p \subseteq Nat \X Nat
    /\ merged_count \in Nat
    /\ unprocessed \subseteq Nat
    /\ written \in Seq([cn : Nat, ppns : SUBSET Nat, uplink : Nat \cup {NoUplink}])
    /\ db0 \in Databases \cup {[subs |-> {}, pda |-> {}, resource |-> {}]}
    /\ \A r \in subs : r.ppn \in Nat /\ r.t \in Nat
    /\ \A r \in pda \cup resource : r.ppn \in Nat

(* The two maps CollectRecordOffsetsAndCrosslinks builds stay mirror      *)
(* images, whatever order the cross links arrive in: a PPN maps to c in   *)
(* ppn_to_canonical_ppn_map exactly when canonical_ppn_to_ppn_map holds   *)
(* (c, PPN), and no canonical PPN is itself mapped.  The merge pass       *)
(* skips the records of the first map and merges those of the second.     *)
MapsMirror ==
    /\ \A p \in DOMAIN p2c : <<p2c[p], p>> \in c2p
    /\ \A e \in c2p : e[2] \in DOMAIN p2c /\ p2c[e[2]] = e[1]
    /\ \A p \in DOMAIN p2c : p2c[p] \notin DOMAIN p2c

(* Once the program has finished without an error, every record of the   *)
(* input was written, on its own or merged into the record of its         *)
(* canonical PPN: skipping the PPNs of ppn_to_canonical_ppn_map loses     *)
(* nothing.                                                               *)
NoRecordLost ==
    pc = "done" => \A p \in InputPPNs : \E i \in 1..Len(written) : p \in written[i].ppns

(* No input record ends up in two written records. *)
NoRecordWrittenTwice ==
    \A i, j \in 1..Len(written) :
        i # j => written[i].ppns \cap written[j].ppns = {}

(* Once the program has finished without an error, every uplink that      *)
(* PatchUplinks left or redirected to a PPN of the input names a written  *)
(* record.                                                                *)
UplinksResolve ==
    pc = "done" =>
        \A i \in 1..Len(written) :
            written[i].uplink \in InputPPNs =>
                \E j \in 1..Len(written) : written[j].cn = written[i].uplink

(* The PPNs merged into the record of canonical PPN c. *)
GroupOf(c) == {c} \cup {p \in DOMAIN p2c : p2c[p] = c}

(* Once the database is patched, journal subscriptions follow the merge:  *)
(* no subscription names a PPN that was merged away, a user subscribed to *)
(* any edition of a merged serial has exactly one subscription, to its    *)
(* canonical PPN, and subscriptions to other serials are untouched.       *)
SubscriptionsFollowMerge ==
    pc = "done" =>
        /\ \A r \in subs : r.ppn \notin DOMAIN p2c
        /\ \A c \in Range(p2c), u \in {r.user : r \in db0.subs} :
              (\E r \in db0.subs : r.user = u /\ r.ppn \in GroupOf(c))
                => Cardinality({r \in subs : r.user = u /\ r.ppn = c}) = 1
        /\ {r \in subs : r.ppn \notin Range(p2c)}
             = {r \in db0.subs : r.ppn \notin DOMAIN p2c \cup Range(p2c)}

(* The comment on PatchSerialSubscriptions: the remaining subscription    *)
(* keeps the minimum of the max_last_modification_times of the editions,  *)
(* so that no issue newer than the user's earliest time is skipped.       *)
SubscriptionKeepsEarliest ==
    pc = "done" =>
        \A r \in subs :
            r.ppn \in Range(p2c) =>
                r.t = Min({x.t : x \in {y \in db0.subs : y.user = r.user /\ y.ppn \in GroupOf(r.ppn)}})

(* Once the database is patched, no PDA subscription and no resource row  *)
(* names a PPN that was merged away.                                      *)
PdaFollowsMerge ==
    pc = "done" => \A r \in pda : r.ppn \notin DOMAIN p2c

ResourcesFollowMerge ==
    pc = "done" =>
        /\ \A r \in resource : r.ppn \notin DOMAIN p2c
        /\ {r.id : r \in resource} = {r.id : r \in db0.resource}

=============================================================================
