---------------------------- MODULE PatchUpPPNs -----------------------------
(***************************************************************************)
(* patch_up_ppns_for_k10plus (src/cpp/pipelines/patch_up_ppns_for_k10plus *)
(* .cc), run by the pipeline on every new MARC dump.                       *)
(*                                                                         *)
(* Persistent state: the map file k10+_ppn_map.map of <<old PPN, sigil>>   *)
(* pairs already swapped, the record id columns of the MySQL tables, and   *)
(* the Kyoto Cabinet notified databases of new_journal_alert.  One run of  *)
(* Main: read the map (unless --store-only), collect from the 035 fields   *)
(* of the dump every (DE-576)/(DE-627) PPN not yet in the map, and then    *)
(* either only store them in the map (--store-only), or rewrite the        *)
(* notified databases, patch every table in its own transaction (with an   *)
(* extra COMMIT whenever the batch counter has reached MAX_BATCH_SIZE) and *)
(* finally add them to the map.  A run may die anywhere (queryOrDie,       *)
(* LOG_ERROR, a kill): MySQL rolls back the open transaction, nothing else *)
(* is undone.                                                              *)
(*                                                                         *)
(* A table is the set of values of the patched column; UPDATE IGNORE      *)
(* leaves a row alone when the new value would break a unique key.        *)
(***************************************************************************)
EXTENDS Integers, Sequences, SequencesExt

CONSTANTS
    PPNs,           \* control numbers, old and new
    Sigils,         \* prefixes of 035 $a, among them the two the regex accepts
    Dumps,          \* Seq of MARC dumps, one per run: Seq of [cn, ids : Seq(<<sigil, ppn>>)]
    Tables,         \* Seq of the tables Main patches, in its order
    UniqueKey,      \* the tables whose patched column is a unique key
    UserTypes,      \* <<"ixtheo", "relbib">>: the notified databases, in Main's order
    NotifiedDBs,    \* the user types whose notified database exists
    InitRows,       \* [Tables -> SUBSET PPNs]: the columns before the first run
    InitNotified,   \* [UserTypes -> SUBSET PPNs]: notified keys before the first run
    MAX_BATCH_SIZE, \* PatchTable's MAX_BATCH_SIZE
    MaxRuns,        \* bound on the invocations
    MaxCrashes      \* bound on the invocations that die before their end

(* The sigils of "^\\((DE-576|DE-627)\\)(.+)" (line 68). *)
BSZSigils == {"DE-576", "DE-627"}

VARIABLES
    map,            \* k10+_ppn_map.map, as a set of <<old_ppn, old_sigil>>
    rows,           \* committed contents of the tables
    notified,       \* keys of the notified databases
    pc,             \* "idle", "notified", "table" or "finish"
    store_only,
    processed,      \* already_processed_ppns_and_sigils of the run
    mappings,       \* old_ppns_sigils_and_new_ppns of the run
    db,             \* index into UserTypes of PatchNotifiedDB
    removed,        \* PatchNotifiedDB has removed the current key, not yet added it
    t,              \* index into Tables of PatchTable
    k,              \* index into mappings of the loops
    txn,            \* the column as the open transaction sees it
    batch_size,
    runs,
    crashes,
    ignored,        \* history: <<table, old_ppn>> whose UPDATE IGNORE was ignored
    stored_only     \* history: pairs the map holds from a --store-only run

vars == <<map, rows, notified, pc, store_only, processed, mappings, db, removed,
          t, k, txn, batch_size, runs, crashes, ignored, stored_only>>

TableNames == {Tables[i] : i \in 1..Len(Tables)}

Pairs(ms) == {<<ms[i].old, ms[i].sigil>> : i \in 1..Len(ms)}

(* LoadMapping over every input: the first $a of each 035 field that the   *)
(* regex matches, unless the run's map already holds its PPN and sigil.    *)
LoadMapping(dump, already_processed) ==
    LET Field(acc, f, cn) ==
            IF f[1] \in BSZSigils /\ <<f[2], f[1]>> \notin already_processed
            THEN Append(acc, [old |-> f[2], sigil |-> f[1], new |-> cn])
            ELSE acc
        Record(acc, r) == FoldLeft(LAMBDA a, f : Field(a, f, r.cn), acc, r.ids)
    IN FoldLeft(Record, <<>>, dump)

(* The rows an UPDATE IGNORE ... SET column=new WHERE column=old leaves. *)
UpdateIgnore(table, col, m) ==
    IF m.old \in col /\ ~(table \in UniqueKey /\ m.new \in col)
    THEN (col \ {m.old}) \cup {m.new}
    ELSE col

IsIgnored(table, col, m) == m.old \in col /\ table \in UniqueKey /\ m.new \in col

(* DeserialiseMap unless --store-only. *)
ReadMap(so) == IF so THEN {} ELSE map

(* Mutant: --store-only returns before SerialiseMap. *)
StoreOnlyMapUnsaved(done, ms) == map

(* --store-only: AddPPNsAndSigilsToMultiMap and SerialiseMap. *)
StoreOnlyMap(done, ms) == done \cup Pairs(ms)

(* Main up to the first write: read the map unless --store-only, load the *)
(* mappings, return when there are none, or store them and return.        *)
Start ==
    /\ pc = "idle"
    /\ runs < MaxRuns
    /\ \E so \in BOOLEAN :
        LET done == ReadMap(so)
            ms == LoadMapping(Dumps[Min({runs + 1, Len(Dumps)})], done)
        IN /\ store_only' = so
           /\ processed' = done
           /\ mappings' = ms
           /\ IF ms = <<>> \/ so
              THEN /\ pc' = "idle"
                   /\ map' = IF ms = <<>> THEN map ELSE StoreOnlyMap(done, ms)
                   /\ stored_only' = IF ms = <<>> THEN stored_only ELSE Pairs(ms)
              ELSE /\ pc' = "notified"
                   /\ UNCHANGED <<map, stored_only>>
    /\ runs' = runs + 1
    /\ db' = 1
    /\ k' = 1
    /\ removed' = FALSE
    /\ UNCHANGED <<rows, notified, t, txn, batch_size, crashes, ignored>>

NotifiedUnchanged == UNCHANGED <<map, rows, pc, store_only, processed, mappings,
                                 t, txn, batch_size, runs, crashes, ignored, stored_only>>

CurrentDB == UserTypes[db]

(* PatchNotifiedDB: the database cannot be opened. *)
NotifiedDBMissing ==
    /\ pc = "notified" /\ db <= Len(UserTypes) /\ k = 1 /\ ~removed
    /\ CurrentDB \notin NotifiedDBs
    /\ k' = Len(mappings) + 1
    /\ UNCHANGED <<notified, removed, db>> /\ NotifiedUnchanged

(* db->get finds the old PPN; db->remove removes it. *)
RemoveNotified ==
    /\ pc = "notified" /\ db <= Len(UserTypes) /\ k <= Len(mappings) /\ ~removed
    /\ CurrentDB \in NotifiedDBs
    /\ mappings[k].old \in notified[CurrentDB]
    /\ notified' = [notified EXCEPT ![CurrentDB] = @ \ {mappings[k].old}]
    /\ removed' = TRUE
    /\ UNCHANGED <<db, k>> /\ NotifiedUnchanged

(* db->add(old_ppn_, value): the key added back is the old PPN. *)
AddNotified ==
    /\ pc = "notified" /\ removed
    /\ notified' = [notified EXCEPT ![CurrentDB] = @ \cup {mappings[k].old}]
    /\ removed' = FALSE
    /\ k' = k + 1
    /\ UNCHANGED db /\ NotifiedUnchanged

(* db->get does not find the old PPN. *)
SkipNotified ==
    /\ pc = "notified" /\ db <= Len(UserTypes) /\ k <= Len(mappings) /\ ~removed
    /\ CurrentDB \in NotifiedDBs
    /\ mappings[k].old \notin notified[CurrentDB]
    /\ k' = k + 1
    /\ UNCHANGED <<notified, removed, db>> /\ NotifiedUnchanged

(* End of one PatchNotifiedDB; after the last one, BEGIN on the first table. *)
NextNotifiedDB ==
    /\ pc = "notified" /\ db <= Len(UserTypes) /\ k > Len(mappings)
    /\ db' = db + 1
    /\ k' = 1
    /\ IF db = Len(UserTypes)
       THEN /\ pc' = "table" /\ t' = 1 /\ txn' = rows[Tables[1]] /\ batch_size' = 0
       ELSE UNCHANGED <<pc, t, txn, batch_size>>
    /\ UNCHANGED <<map, rows, notified, store_only, processed, mappings, removed,
                   runs, crashes, ignored, stored_only>>

TableUnchanged == UNCHANGED <<map, notified, store_only, processed, mappings, db,
                              removed, runs, crashes, stored_only>>

(* One UPDATE IGNORE of PatchTable's loop, and the COMMIT; BEGIN that     *)
(* follows once batch_size has reached MAX_BATCH_SIZE (it is never reset).*)
PatchTableUpdate ==
    /\ pc = "table" /\ k <= Len(mappings)
    /\ LET table == Tables[t]
           after == UpdateIgnore(table, txn, mappings[k])
       IN /\ txn' = after
          /\ ignored' = IF IsIgnored(table, txn, mappings[k])
                        THEN ignored \cup {<<table, mappings[k].old>>}
                        ELSE ignored
          /\ rows' = IF batch_size + 1 >= MAX_BATCH_SIZE
                     THEN [rows EXCEPT ![table] = after]
                     ELSE rows
    /\ batch_size' = batch_size + 1
    /\ k' = k + 1
    /\ UNCHANGED <<pc, t>> /\ TableUnchanged

(* Mutant: PatchTable's final COMMIT is missing. *)
PatchTableCommitMissing ==
    /\ pc = "table" /\ k > Len(mappings)
    /\ k' = 1
    /\ batch_size' = 0
    /\ IF t = Len(Tables)
       THEN pc' = "finish" /\ UNCHANGED <<t, txn>>
       ELSE pc' = "table" /\ t' = t + 1 /\ txn' = rows[Tables[t + 1]]
    /\ UNCHANGED <<rows, ignored>> /\ TableUnchanged

(* PatchTable's final COMMIT; the next PatchTable's BEGIN. *)
PatchTableCommit ==
    /\ pc = "table" /\ k > Len(mappings)
    /\ rows' = [rows EXCEPT ![Tables[t]] = txn]
    /\ k' = 1
    /\ batch_size' = 0
    /\ IF t = Len(Tables)
       THEN pc' = "finish" /\ UNCHANGED <<t, txn>>
       ELSE pc' = "table" /\ t' = t + 1 /\ txn' = rows[Tables[t + 1]]
    /\ UNCHANGED ignored /\ TableUnchanged

(* Mutant: the run's pairs are not added before SerialiseMap. *)
FinishWithoutAdding ==
    /\ pc = "finish"
    /\ map' = processed
    /\ pc' = "idle"
    /\ UNCHANGED <<rows, notified, store_only, processed, mappings, db, removed,
                   t, k, txn, batch_size, runs, crashes, ignored, stored_only>>

(* AddPPNsAndSigilsToMultiMap and SerialiseMap at the end of Main. *)
Finish ==
    /\ pc = "finish"
    /\ map' = processed \cup Pairs(mappings)
    /\ pc' = "idle"
    /\ UNCHANGED <<rows, notified, store_only, processed, mappings, db, removed,
                   t, k, txn, batch_size, runs, crashes, ignored, stored_only>>

(* The process dies: the open transaction is rolled back, a key removed   *)
(* from a notified database and not yet added back stays removed.         *)
Crash ==
    /\ pc # "idle"
    /\ crashes < MaxCrashes
    /\ crashes' = crashes + 1
    /\ pc' = "idle"
    /\ removed' = FALSE
    /\ UNCHANGED <<map, rows, notified, store_only, processed, mappings, db,
                   t, k, txn, batch_size, runs, ignored, stored_only>>

(* No more invocations. *)
Terminated == pc = "idle" /\ runs = MaxRuns /\ UNCHANGED vars

Init ==
    /\ map = {}
    /\ rows = InitRows
    /\ notified = InitNotified
    /\ pc = "idle"
    /\ store_only = FALSE
    /\ processed = {}
    /\ mappings = <<>>
    /\ db = 1
    /\ removed = FALSE
    /\ t = 1
    /\ k = 1
    /\ txn = {}
    /\ batch_size = 0
    /\ runs = 0
    /\ crashes = 0
    /\ ignored = {}
    /\ stored_only = {}

Next ==
    \/ Start
    \/ NotifiedDBMissing \/ RemoveNotified \/ AddNotified \/ SkipNotified
    \/ NextNotifiedDB
    \/ PatchTableUpdate \/ PatchTableCommit
    \/ Finish
    \/ Crash
    \/ Terminated

(* The pipeline invokes the program on every dump, and a running          *)
(* invocation that does not die goes on to its end.                       *)
Fairness ==
    /\ WF_vars(Start)
    /\ WF_vars(NotifiedDBMissing \/ RemoveNotified \/ AddNotified \/ SkipNotified
               \/ NextNotifiedDB)
    /\ WF_vars(PatchTableUpdate \/ PatchTableCommit)
    /\ WF_vars(Finish)

Spec == Init /\ [][Next]_vars /\ Fairness
-----------------------------------------------------------------------------
Mapping == [old : PPNs, sigil : Sigils, new : PPNs]

TypeOK ==
    /\ map \subseteq PPNs \X Sigils
    /\ rows \in [TableNames -> SUBSET PPNs]
    /\ notified \in [{UserTypes[i] : i \in 1..Len(UserTypes)} -> SUBSET PPNs]
    /\ pc \in {"idle", "notified", "table", "finish"}
    /\ store_only \in BOOLEAN /\ removed \in BOOLEAN
    /\ processed \subseteq PPNs \X Sigils
    /\ mappings \in Seq(Mapping)
    /\ txn \subseteq PPNs
    /\ runs \in 0..MaxRuns /\ crashes \in 0..MaxCrashes
    /\ ignored \subseteq TableNames \X PPNs
    /\ stored_only \subseteq map

(* Crash safety of the map: Main adds the run's pairs to the map file only *)
(* after the last PatchTable has committed (lines 211-224), so a pair the  *)
(* map holds from a swapping run names an old PPN that no table still      *)
(* holds, unless its UPDATE IGNORE was ignored for a row with the new PPN. *)
(* A rerun after a crash skips exactly the pairs of the map.               *)
SwappedPPNsGone ==
    \A p \in map \ stored_only : \A tb \in TableNames :
        p[1] \in rows[tb] => <<tb, p[1]>> \in ignored

(* Every PPN that the 035 fields of the latest dump map is eventually      *)
(* recorded in the map file, although runs may die on the way.             *)
EveryDumpedPPNRecorded ==
    <>[](Pairs(LoadMapping(Last(Dumps), {})) \subseteq map)

====
