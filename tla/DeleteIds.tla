------------------------------ MODULE DeleteIds ------------------------------
(***************************************************************************)
(* delete_ids (src/cpp/delete_ids.cc).  ExtractDeletionIds reads the      *)
(* deletion list with fgets: column 11 says whether a line names a title  *)
(* record ('A') or a local record ('9'), and the id is the rest of the    *)
(* line from column 12, the newline fgets keeps included.  ProcessRecords *)
(* then reads the MARC input record by record, as a directory            *)
(* (dir_entries) and a parallel vector of field contents (field_data).    *)
(*                                                                         *)
(* A line is [type, id, nl]: nl says whether it ends in a newline, and    *)
(* id "" is a line that ends at column 11.  A field is [tag, z]; z is the *)
(* part of its contents the code looks at: the control number of the 001  *)
(* field ([c |-> "cn"]), or for the other fields their first $0: none,    *)
(* "000 ..." (the header of a local record), "001 <id>" or another one.   *)
(***************************************************************************)
EXTENDS Integers, Sequences, SequencesExt

CONSTANTS
    Ids,            \* control numbers and local record ids
    DeletionLists,  \* the deletion list files, as sequences of lines
    Inputs          \* the input_marc files, as sequences of field lists

VARIABLES
    list,           \* the deletion list being read
    input,          \* input_marc
    title_ids,      \* title_deletion_ids: [id, nl] keys
    local_ids,      \* local_deletion_ids
    out,            \* output_marc: the records written, as [tags, data]
    pc,             \* "list", "read", "local", "done" or "error"
    li,             \* the line fgets reads next
    pos,            \* the record ReadNextRecord reads next
    tags,           \* dir_entries of the current record
    data,           \* field_data of the current record
    modified

vars == <<list, input, title_ids, local_ids, out, pc, li, pos, tags, data, modified>>

(* The key line + 12 inserts: the id and the newline fgets kept. *)
Key(l) == [id |-> l.id, nl |-> l.nl]

(* std::strlen(line) < 13: nothing after column 11, not even a newline. *)
IsShort(l) == l.id = "" /\ ~l.nl

(* One iteration of the fgets loop of ExtractDeletionIds. *)
ReadListLine ==
    /\ pc = "list"
    /\ li <= Len(list)
    /\ LET l == list[li] IN
       IF IsShort(l) THEN pc' = "error" /\ UNCHANGED <<title_ids, local_ids, li>>
       ELSE /\ title_ids' = IF l.type = "A" THEN title_ids \cup {Key(l)} ELSE title_ids
            /\ local_ids' = IF l.type = "9" THEN local_ids \cup {Key(l)} ELSE local_ids
            /\ li' = li + 1
            /\ UNCHANGED pc
    /\ UNCHANGED <<list, input, out, pos, tags, data, modified>>

(* fclose(deletion_list); main goes on to ProcessRecords. *)
ListDone ==
    /\ pc = "list"
    /\ li > Len(list)
    /\ pc' = "read"
    /\ pos' = 1
    /\ UNCHANGED <<list, input, title_ids, local_ids, out, li, tags, data, modified>>

(* The id a field_data entry is compared with, as a key without newline. *)
Plain(z) == [id |-> z.id, nl |-> FALSE]

(* MatchLocalID: the first LOK entry whose field_data at the same index   *)
(* has a first $0 "001 <id>" with a listed id, 0-based; -1 if none.       *)
MatchLocalID(tg, dt) ==
    LET is == {i \in 1..Len(tg) : tg[i] = "LOK" /\ dt[i].c = "001" /\ Plain(dt[i]) \in local_ids}
    IN  IF is = {} THEN -1 ELSE Min(is) - 1

Write(tg, dt) == Append(out, [tags |-> tg, data |-> dt])

(* The loop of ProcessRecords for one record up to the local matches:     *)
(* a record whose 001 is in title_deletion_ids is written, any other one  *)
(* is counted as deleted.                                                 *)
ReadRecord ==
    /\ pc = "read"
    /\ pos <= Len(input)
    /\ LET r == input[pos]
           tg == [i \in 1..Len(r) |-> r[i].tag]
           dt == [i \in 1..Len(r) |-> r[i].z]
       IN  IF tg[1] # "001" THEN pc' = "error" /\ UNCHANGED <<out, pos, tags, data, modified>>
           ELSE IF Plain(dt[1]) \in title_ids
                THEN /\ out' = Write(tg, dt)
                     /\ pc' = "local"
                     /\ tags' = tg /\ data' = dt
                     /\ modified' = FALSE
                     /\ UNCHANGED pos
                ELSE pos' = pos + 1 /\ UNCHANGED <<out, pc, tags, data, modified>>
    /\ UNCHANGED <<list, input, title_ids, local_ids, li>>

(* The index one past the matched local record, found by scanning         *)
(* field_data from start + 2 for a "000 " $0; "none" when a field without *)
(* $0 comes first.                                                        *)
LocalEnd(dt, start) ==
    LET stops == {e \in start + 2..Len(dt) - 1 : dt[e + 1].c \in {"none", "000"}}
    IN  IF stops = {} THEN Len(dt) + 1
        ELSE IF dt[Min(stops) + 1].c = "none" THEN "none" ELSE Min(stops)

(* dir_entries.erase(begin + start, begin + end).  An end past the        *)
(* entries (field_data is never erased, so its size bounds the scan) is   *)
(* undefined; libstdc++ then moves the finish pointer back by the excess, *)
(* a checked erase would stop at the last entry.                          *)
EraseOutcomes(tg, start, end) ==
    IF end <= Len(tg) THEN {SubSeq(tg, 1, start) \o SubSeq(tg, end + 1, Len(tg))}
    ELSE LET kept == start - (end - Len(tg))
         IN  {SubSeq(tg, 1, start)} \cup (IF kept >= 0 THEN {SubSeq(tg, 1, kept)} ELSE {})

(* One iteration of the while loop on MatchLocalID: the field before the  *)
(* match must be a local record header, and the entries up to the next    *)
(* header are erased.                                                     *)
EraseLocalMatch ==
    /\ pc = "local"
    /\ MatchLocalID(tags, data) # -1
    /\ LET start == MatchLocalID(tags, data) - 1
           end   == LocalEnd(data, start)
       IN  IF \/ start <= 0
              \/ data[start + 1].c = "none" \/ data[start + 1].c = "000"
              \/ end = "none"
           THEN pc' = "error" /\ UNCHANGED <<tags, modified>>
           ELSE /\ \E tg \in EraseOutcomes(tags, start, end) : tags' = tg
                /\ modified' = TRUE
                /\ UNCHANGED pc
    /\ UNCHANGED <<list, input, title_ids, local_ids, out, li, pos, data>>

(* No further match: an unmodified record is written a second time, a     *)
(* modified one once if it still has a LOK entry.                         *)
LocalDone ==
    /\ pc = "local"
    /\ MatchLocalID(tags, data) = -1
    /\ out' = IF ~modified \/ "LOK" \in Range(tags) THEN Write(tags, data) ELSE out
    /\ pc' = "read"
    /\ pos' = pos + 1
    /\ UNCHANGED <<list, input, title_ids, local_ids, li, tags, data, modified>>

(* ReadNextRecord finds no more records; the files are closed. *)
ProcessRecordsDone ==
    /\ pc = "read"
    /\ pos > Len(input)
    /\ pc' = "done"
    /\ UNCHANGED <<list, input, title_ids, local_ids, out, li, pos, tags, data, modified>>

Init ==
    /\ list \in DeletionLists
    /\ input \in Inputs
    /\ title_ids = {} /\ local_ids = {}
    /\ out = <<>>
    /\ pc = "list"
    /\ li = 1 /\ pos = 1
    /\ tags = <<>> /\ data = <<>>
    /\ modified = FALSE

Next ==
    \/ ReadListLine \/ ListDone
    \/ ReadRecord \/ EraseLocalMatch \/ LocalDone \/ ProcessRecordsDone

Spec == Init /\ [][Next]_vars
-----------------------------------------------------------------------------
TypeOK ==
    /\ pc \in {"list", "read", "local", "done", "error"}
    /\ title_ids \subseteq [id : Ids \cup {""}, nl : BOOLEAN]
    /\ local_ids \subseteq [id : Ids \cup {""}, nl : BOOLEAN]
    /\ li \in 1..Len(list) + 1
    /\ pos \in 1..Len(input) + 1
    /\ pc = "local" => Len(tags) <= Len(data) /\ Len(data) = Len(input[pos])
    /\ \A k \in 1..Len(out) : Len(out[k].tags) <= Len(out[k].data)

(* What the usage line, the "Deleted record with ID" message and the      *)
(* comments in ProcessRecords say the tool does, with the ids of the list *)
(* taken as written: a record whose control number is listed with 'A' is  *)
(* left out; of every other record, each local record (a "000" LOK header *)
(* and the fields up to the next one) that holds a listed '9' id is       *)
(* thrown away; a record that loses a local record is only kept if a LOK  *)
(* field remains; and every kept record is written once.                  *)
Listed(type, z) == \E i \in 1..Len(list) : list[i].type = type /\ list[i].id = z.id

IsHeader(f) == f.tag = "LOK" /\ f.z.c = "000"

LocalRecordDropped(r, h) ==
    \E k \in h..Len(r) :
        /\ \A j \in h + 1..k : ~IsHeader(r[j])
        /\ r[k].tag = "LOK" /\ r[k].z.c = "001" /\ Listed("9", r[k].z)

Removed(r, j) ==
    LET hs == {h \in 1..j : IsHeader(r[h])}
    IN  r[j].tag = "LOK" /\ hs # {} /\ LocalRecordDropped(r, Max(hs))

Kept(r) ==
    LET idx == SelectSeq([i \in 1..Len(r) |-> i], LAMBDA i : ~Removed(r, i))
    IN  [k \in 1..Len(idx) |-> r[idx[k]]]

Wanted(r) ==
    /\ ~Listed("A", r[1].z)
    /\ Kept(r) = r \/ \E k \in 1..Len(Kept(r)) : Kept(r)[k].tag = "LOK"

AsWritten(r) == [tags |-> [i \in 1..Len(r) |-> r[i].tag], data |-> [i \in 1..Len(r) |-> r[i].z]]

DeletionListApplied ==
    pc = "done" =>
        out = LET ws == SelectSeq(input, Wanted) IN [k \in 1..Len(ws) |-> AsWritten(Kept(ws[k]))]
====
