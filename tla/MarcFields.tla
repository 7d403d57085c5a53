----------------------------- MODULE MarcFields -----------------------------
(***************************************************************************)
(* What a MARC-21 record promises to its callers: an ordered list of       *)
(* (tag, contents) fields.  Mutations insert a field at its tag-sorted     *)
(* place, replace the contents of a field, delete fields, drop every field *)
(* whose tag is in a set, and append the fields of another record but its  *)
(* first (control number) field.  How the contents are stored is left out; *)
(* MarcRecord stores them in an append-only byte buffer and is checked to  *)
(* implement this module.                                                  *)
(***************************************************************************)
EXTENDS Integers, Sequences, SequencesExt

CONSTANTS
    TagOrder,         \* the field tags, in the order MarcTag compares them
    Values,           \* field contents the tools write
    InitFieldLists,   \* field lists of the records the reader yields
    OtherFieldLists,  \* field lists of the records that may be combined in
    DropSets          \* tag sets that may be filtered out

VARIABLE fields

Tags == Range(TagOrder)
Rank(t) == CHOOSE i \in DOMAIN TagOrder : TagOrder[i] = t
TagLeq(a, b) == Rank(a) <= Rank(b)

Field == [tag : Tags, value : Values]

TypeOK == fields \in Seq(Field)

Init == fields \in InitFieldLists

(* A new field goes after every leading field whose tag is not greater.   *)
SortedPlace(t) ==
    Max({p \in 0..Len(fields) : \A i \in 1..p : TagLeq(fields[i].tag, t)})

InsertField(t, v) == fields' = InsertAt(fields, SortedPlace(t) + 1, [tag |-> t, value |-> v])

UpdateField(k, v) ==
    /\ k \in 0..Len(fields) - 1
    /\ fields' = [fields EXCEPT ![k + 1].value = v]

DeleteField(k) ==
    /\ k \in 0..Len(fields) - 1
    /\ fields' = RemoveAt(fields, k + 1)

FilterTags(D) == fields' = SelectSeq(fields, LAMBDA f : f.tag \notin D)

Combine(o) == fields' = fields \o Tail(o)

Next ==
    \/ \E t \in Tags, v \in Values : InsertField(t, v)
    \/ \E k \in 0..Len(fields) - 1, v \in Values : UpdateField(k, v)
    \/ \E k \in 0..Len(fields) - 1 : DeleteField(k)
    \/ \E D \in DropSets : FilterTags(D)
    \/ \E o \in OtherFieldLists : Combine(o)

Spec == Init /\ [][Next]_fields
=============================================================================
