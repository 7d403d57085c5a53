----------------------------- MODULE MarcRecord -----------------------------
(***************************************************************************)
(* MarcRecord (src/cpp/lib/src/MarcRecord.cc): a MARC-21 record kept as a  *)
(* directory of (tag, field length, field offset) entries over a raw data  *)
(* buffer.  Every write appends the new contents and a field terminator to *)
(* the buffer and points an entry at them; nothing in the buffer is ever   *)
(* overwritten or reclaimed.  Indices are the code's 0-based size_t        *)
(* values; entry k is dir[k + 1].                                          *)
(*                                                                         *)
(* Field contents are sequences of abstract bytes: FT is the field         *)
(* terminator '\x1E', LokHeader stands for the prefix "  \x1F0000" that    *)
(* opens an embedded local record, and the other symbols for any other     *)
(* bytes.  Lengths and offsets count these symbols.                        *)
(***************************************************************************)
EXTENDS Integers, Sequences, SequencesExt

CONSTANTS
    TagOrder,        \* the field tags, in the order MarcTag compares them
    LokHeader,       \* the bytes "  \x1F0000" that open a local data block
    FT,              \* the field terminator '\x1E'
    Values,          \* field contents the tools write with updateField()
    FieldInputs,     \* [tag, value] pairs the tools insert with insertField()
    InitFieldLists,  \* field lists of the records MarcReader yields
    Others,          \* records (as [dir, raw]) that combine() may append
    DropSets,        \* tag sets filterTags() is called with
    MaxFields,       \* bound on the number of directory entries
    MaxRaw,          \* bound on the length of the raw data buffer
    Width            \* bit width of size_t and of addresses

VARIABLES
    dir,   \* directory_entries_: a sequence of [tag, len, off]
    raw    \* raw_data_

vars == <<dir, raw>>

Tags == Range(TagOrder)
Rank(t) == CHOOSE i \in DOMAIN TagOrder : TagOrder[i] = t
TagLess(a, b) == Rank(a) < Rank(b)

Entry == [tag : Tags, len : 1..MaxRaw, off : 0..MaxRaw - 1]

(* MarcRecord::FIELD_NOT_FOUND, the largest size_t.                        *)
FIELD_NOT_FOUND == 2^Width - 1

(* The layout MarcReader gives a record: contents back to back, each      *)
(* followed by a terminator, entries pointing at them in order.           *)
Layout(fl) ==
    LET step(r, f) == [dir |-> Append(r.dir, [tag |-> f.tag, len |-> Len(f.value) + 1,
                                              off |-> Len(r.raw)]),
                       raw |-> r.raw \o f.value \o <<FT>>]
    IN  FoldLeft(step, [dir |-> <<>>, raw |-> <<>>], fl)

(***************************************************************************)
(* Queries.                                                                *)
(***************************************************************************)
getFieldIndex(t) ==
    LET found == {k \in 0..Len(dir) - 1 : dir[k + 1].tag = t}
    IN  IF found = {} THEN FIELD_NOT_FOUND ELSE Min(found)

(* The guard "cbegin() + index >= cend()" compares addresses, which wrap  *)
(* modulo 2^Width.  An entry is one address unit wide here; any width     *)
(* wraps FIELD_NOT_FOUND to the address just below the directory.         *)
DirBase == 2^(Width - 1)
EntryAddr(k) == (DirBase + k) % 2^Width
GuardPasses(k) == EntryAddr(k) < EntryAddr(Len(dir))

getFieldData(k) ==
    IF ~GuardPasses(k) THEN <<>>
    ELSE SubSeq(raw, dir[k + 1].off + 1, dir[k + 1].off + dir[k + 1].len - 1)

(* The indices getFieldIndices() returns: the run of equal tags that      *)
(* starts at the first one.                                               *)
getFieldIndices(t) ==
    LET first == getFieldIndex(t)
        stop  == {j \in first..Len(dir) : j = Len(dir) \/ dir[j + 1].tag # t}
    IN  IF first = FIELD_NOT_FOUND THEN {} ELSE first..(Min(stop) - 1)

IsLocalBlockStart(k) ==
    LET data == getFieldData(k) IN Len(data) > 0 /\ data[1] = LokHeader

RECURSIVE BlocksFrom(_, _)
BlocksFrom(start, end) ==
    IF end >= Len(dir) THEN << <<start, end>> >>
    ELSE IF IsLocalBlockStart(end) THEN << <<start, end>> >> \o BlocksFrom(end, end + 1)
    ELSE BlocksFrom(start, end + 1)

findAllLocalDataBlocks ==
    LET start == getFieldIndex("LOK")
    IN  IF start = FIELD_NOT_FOUND THEN <<>> ELSE BlocksFrom(start, start + 1)

(***************************************************************************)
(* Helpers of the mutations.                                               *)
(***************************************************************************)
(* Mutant: the scan stops at the first entry whose tag is >= the new one. *)
InsertionLocationBeforeEqual(t) ==
    LET after == {k \in 0..Len(dir) - 1 : ~TagLess(dir[k + 1].tag, t)}
    IN  IF after = {} THEN Len(dir) ELSE Min(after)

(* Scan of insertField(): skip entries while the new tag is >= theirs.    *)
InsertionLocation(t) ==
    LET after == {k \in 0..Len(dir) - 1 : TagLess(t, dir[k + 1].tag)}
    IN  IF after = {} THEN Len(dir) ELSE Min(after)

(* deleteFields(): keep what lies between the [first, second) blocks.     *)
DeleteFields(d, blocks) ==
    LET step(s, b) == [kept |-> s.kept \o SubSeq(d, s.from + 1, b[1]), from |-> b[2]]
        s == FoldLeft(step, [kept |-> <<>>, from |-> 0], blocks)
    IN  s.kept \o SubSeq(d, s.from + 1, Len(d))

(* End of the run of entries with the tag of entry e.                     *)
RunEnd(d, e) == Min({j \in e..Len(d) : j = Len(d) \/ d[j + 1].tag # d[e + 1].tag})

(* The blocks filterTags() collects.  After a run the for-loop's own      *)
(* ++entry steps over the entry that ended the run.                       *)
RECURSIVE DropBlocks(_, _, _)
DropBlocks(d, D, e) ==
    IF e >= Len(d) THEN <<>>
    ELSE IF d[e + 1].tag \notin D THEN DropBlocks(d, D, e + 1)
    ELSE << <<e, RunEnd(d, e)>> >> \o DropBlocks(d, D, RunEnd(d, e) + 1)

(***************************************************************************)
(* Mutations, one per method.                                              *)
(***************************************************************************)
Init == \E fl \in InitFieldLists : dir = Layout(fl).dir /\ raw = Layout(fl).raw

insertField(t, v) ==
    /\ Len(dir) < MaxFields
    /\ Len(raw) + Len(v) + 1 <= MaxRaw
    /\ dir' = InsertAt(dir, InsertionLocation(t) + 1,
                       [tag |-> t, len |-> Len(v) + 1, off |-> Len(raw)])
    /\ raw' = raw \o v \o <<FT>>

(* Mutant: the length leaves out the field terminator. *)
updateFieldNoTerminator(k, v) ==
    /\ Len(raw) + Len(v) + 1 <= MaxRaw
    /\ dir' = [dir EXCEPT ![k + 1].len = Len(v), ![k + 1].off = Len(raw)]
    /\ raw' = raw \o v \o <<FT>>

updateField(k, v) ==
    /\ Len(raw) + Len(v) + 1 <= MaxRaw
    /\ dir' = [dir EXCEPT ![k + 1].len = Len(v) + 1, ![k + 1].off = Len(raw)]
    /\ raw' = raw \o v \o <<FT>>

deleteField(k) ==
    /\ dir' = RemoveAt(dir, k + 1)
    /\ UNCHANGED raw

filterTags(D) ==
    /\ dir' = DeleteFields(dir, DropBlocks(dir, D, 0))
    /\ UNCHANGED raw

(* Mutant: the offset is taken after raw_data_ has grown. *)
combineOffsetAfterAppend(o) ==
    /\ Len(dir) + Len(o.dir) - 1 <= MaxFields
    /\ Len(raw) + Len(o.raw) <= MaxRaw
    /\ raw' = raw \o o.raw
    /\ dir' = dir \o [i \in 1..Len(o.dir) - 1 |->
                        [o.dir[i + 1] EXCEPT !.off = @ + Len(raw) + Len(o.raw)]]

combine(o) ==
    /\ Len(dir) + Len(o.dir) - 1 <= MaxFields
    /\ Len(raw) + Len(o.raw) <= MaxRaw
    /\ raw' = raw \o o.raw
    /\ dir' = dir \o [i \in 1..Len(o.dir) - 1 |-> [o.dir[i + 1] EXCEPT !.off = @ + Len(raw)]]

Next ==
    \/ \E f \in FieldInputs : insertField(f.tag, f.value)
    \/ \E k \in 0..Len(dir) - 1, v \in Values : updateField(k, v)
    \/ \E k \in 0..Len(dir) - 1 : deleteField(k)
    \/ \E D \in DropSets : filterTags(D)
    \/ \E o \in Others : combine(o)

Spec == Init /\ [][Next]_vars

(***************************************************************************)
(* Properties.                                                             *)
(***************************************************************************)
TypeOK ==
    /\ dir \in Seq(Entry)
    /\ raw \in Seq(UNION {Range(v) : v \in Values} \cup {FT})

(* Every directory entry points at contents that lie inside raw_data_ and *)
(* end in a field terminator, whatever insertField, updateField and       *)
(* combine have appended and shifted: getFieldData() never reads past the *)
(* buffer or returns a terminator.                                        *)
EntriesInsideRawData ==
    \A k \in 1..Len(dir) :
        /\ dir[k].len >= 1
        /\ dir[k].off + dir[k].len <= Len(raw)
        /\ raw[dir[k].off + dir[k].len] = FT
        /\ \A i \in dir[k].off + 1..dir[k].off + dir[k].len - 1 : raw[i] # FT

(* The record as a list of (tag, contents) fields, read back through      *)
(* getFieldData().                                                        *)
FieldsOf(d, r) ==
    [i \in 1..Len(d) |-> [tag |-> d[i].tag,
                          value |-> SubSeq(r, d[i].off + 1, d[i].off + d[i].len - 1)]]

Abstract == INSTANCE MarcFields WITH
    fields <- FieldsOf(dir, raw),
    OtherFieldLists <- {FieldsOf(o.dir, o.raw) : o \in Others}

(* Read back through getFieldData(), the record behaves as the field list *)
(* of MarcFields: every mutation of the directory and the append-only     *)
(* buffer changes exactly the fields the method promises to change.       *)
AbstractSpec == Abstract!Spec

(* findAllLocalDataBlocks() splits the LOK fields into local records: the *)
(* blocks run from a local record header up to the next one and hold     *)
(* LOK fields only.                                                       *)
LocalBlocksHoldOnlyLOK ==
    \A b \in Range(findAllLocalDataBlocks) :
        \A k \in b[1]..b[2] - 1 : dir[k + 1].tag = "LOK"

(* getFieldIndices(t) finds every field with tag t.                       *)
FieldIndicesComplete ==
    \A t \in Tags : getFieldIndices(t) = {k \in 0..Len(dir) - 1 : dir[k + 1].tag = t}

(* getFieldData(tag) of a tag the record lacks returns "" without reading *)
(* a directory entry: the guard on cbegin() + index rejects               *)
(* FIELD_NOT_FOUND.                                                       *)
MissingTagReadsNothing ==
    \A t \in Tags : getFieldIndex(t) = FIELD_NOT_FOUND => ~GuardPasses(FIELD_NOT_FOUND)
=============================================================================
