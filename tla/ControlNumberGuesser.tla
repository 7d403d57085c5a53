------------------------- MODULE ControlNumberGuesser -------------------------
(***************************************************************************)
(* ControlNumberGuesser (src/cpp/lib/src/ControlNumberGuesser.cc): three   *)
(* Kyoto Cabinet hash DBs map a normalised title, a normalised author name *)
(* and a year to the control numbers inserted under them.  A client calls  *)
(* the public operations in any order:                                     *)
(*   - insertTitle / insertAuthors / insertYear add a control number;      *)
(*   - getNextTitle / getNextAuthor / getNextYear step the class's one     *)
(*     cursor per DB, created on the first call and deleted when it is     *)
(*     exhausted;                                                          *)
(*   - getControlNumberPartners builds, on first use, the map from a       *)
(*     control number to its set of duplicates (FindDups) by iterating the *)
(*     titles and authors with those same cursors, and the map from a      *)
(*     control number to the control numbers of its year.                  *)
(* getGuessedControlNumbers and lookup* only read, and are operators.      *)
(*                                                                         *)
(* A title or author DB value is a '\0'-joined list and a year value a run *)
(* of fixed-width slots; every reader splits them into a set, so a value   *)
(* is modelled as the set of control numbers it holds.                     *)
(***************************************************************************)
EXTENDS FiniteSets, Sequences, SequencesExt

CONSTANTS
    Titles,        \* raw titles a client passes
    Authors,       \* raw author names
    Years,         \* years, non-empty strings
    CNs,           \* control numbers, all at most MAX_CONTROL_NUMBER_LENGTH long
    TitleKey,      \* NormaliseTitle: Titles -> normalised title, "" when nothing is left
    AuthorKey,     \* NormaliseAuthorName: Authors -> normalised name
    AuthorOrder,   \* the normalised names in std::string order
    MaxCalls,      \* bound on insert calls
    MaxIter        \* bound on titles one client iteration receives

VARIABLES
    titles_db, authors_db, years_db,   \* key -> set of control numbers
    title_cursor, author_cursor, year_cursor,   \* the keys the cursor has passed; {} when null
    cn_sets,       \* control_number_to_control_number_set_map_
    year_sets,     \* control_number_to_year_control_number_set_map_
    pc,            \* "running", or "aborted" after LOG_ERROR
    calls,         \* insert calls made
    indexed,       \* cn -> the normalised titles, authors and years inserted with it
    title_iter     \* titles getNextTitle returned since it last returned false

vars == <<titles_db, authors_db, years_db, title_cursor, author_cursor, year_cursor,
          cn_sets, year_sets, pc, calls, indexed, title_iter>>
db_vars == <<titles_db, authors_db, years_db>>
cursor_vars == <<title_cursor, author_cursor, year_cursor>>

NormaliseTitle(t) == TitleKey[t]
NormaliseAuthorName(a) == AuthorKey[a]

(* db->get() then db->set(): the control number joins the key's value. *)
Add(db, k, cn) == IF k \in DOMAIN db THEN [db EXCEPT ![k] = @ \cup {cn}] ELSE (k :> {cn}) @@ db

Index(cn, field, x) == [indexed EXCEPT ![cn][field] = @ \cup {x}]

(* Mutant: an empty normalised title is inserted too. *)
InsertTitleNoEmptyCheck(t, cn) ==
    /\ pc = "running" /\ calls < MaxCalls
    /\ titles_db' = Add(titles_db, NormaliseTitle(t), cn)
    /\ indexed' = Index(cn, "titles", NormaliseTitle(t))
    /\ calls' = calls + 1
    /\ UNCHANGED <<authors_db, years_db, cursor_vars, cn_sets, year_sets, pc, title_iter>>

InsertTitle(t, cn) ==
    /\ pc = "running" /\ calls < MaxCalls
    /\ titles_db' = IF NormaliseTitle(t) = "" THEN titles_db   \* LOG_WARNING
                    ELSE Add(titles_db, NormaliseTitle(t), cn)
    /\ indexed' = Index(cn, "titles", NormaliseTitle(t))
    /\ calls' = calls + 1
    /\ UNCHANGED <<authors_db, years_db, cursor_vars, cn_sets, year_sets, pc, title_iter>>

(* UTF8ToLower of what NormaliseAuthorName has already lower-cased leaves *)
(* it unchanged.                                                          *)
InsertAuthors(as, cn) ==
    /\ pc = "running" /\ calls < MaxCalls
    /\ authors_db' = FoldSet(LAMBDA a, db : Add(db, NormaliseAuthorName(a), cn), authors_db, as)
    /\ indexed' = [indexed EXCEPT ![cn].authors = @ \cup {NormaliseAuthorName(a) : a \in as}]
    /\ calls' = calls + 1
    /\ UNCHANGED <<titles_db, years_db, cursor_vars, cn_sets, year_sets, pc, title_iter>>

(* The control number goes into a new zero-padded slot. *)
InsertYear(y, cn) ==
    /\ pc = "running" /\ calls < MaxCalls
    /\ years_db' = Add(years_db, y, cn)
    /\ indexed' = Index(cn, "years", y)
    /\ calls' = calls + 1
    /\ UNCHANGED <<titles_db, authors_db, cursor_vars, cn_sets, year_sets, pc, title_iter>>

(* The keys a cursor has not yet passed.  A null cursor is created and   *)
(* jump()s to the first record, so it stands where a fresh one does.     *)
Unvisited(db, cursor) == DOMAIN db \ cursor

(* getNextTitle: the hash order of the cursor is left open. *)
GetNextTitle ==
    /\ pc = "running"
    /\ \/ \E k \in Unvisited(titles_db, title_cursor) :
              /\ Len(title_iter) < MaxIter
              /\ title_cursor' = title_cursor \cup {k}
              /\ title_iter' = Append(title_iter, k)
       \/ /\ Unvisited(titles_db, title_cursor) = {}
          /\ title_cursor' = {}
          /\ title_iter' = <<>>
    /\ UNCHANGED <<db_vars, author_cursor, year_cursor, cn_sets, year_sets, pc, calls, indexed>>

Step(db, cursor) ==
    IF Unvisited(db, cursor) = {} THEN {{}}
    ELSE {cursor \cup {k} : k \in Unvisited(db, cursor)}

GetNextAuthor ==
    /\ pc = "running"
    /\ author_cursor' \in Step(authors_db, author_cursor)
    /\ UNCHANGED <<db_vars, title_cursor, year_cursor, cn_sets, year_sets, pc, calls, indexed, title_iter>>

GetNextYear ==
    /\ pc = "running"
    /\ year_cursor' \in Step(years_db, year_cursor)
    /\ UNCHANGED <<db_vars, title_cursor, author_cursor, cn_sets, year_sets, pc, calls, indexed, title_iter>>

(* Mutant: an author's control numbers are gathered from every record, *)
(* not only from those of the title.                                      *)
TitleDupsAnyTitle(m, cns, c2a) ==
    LET a2c(a) == {c \in DOMAIN c2a : a \in c2a[c]}
        step(acc, a) ==
            IF Cardinality(a2c(a)) < 2 \/ a2c(a) \cap acc.done # {} THEN acc
            ELSE [map |-> [c \in a2c(a) |-> a2c(a)] @@ acc.map, done |-> acc.done \cup a2c(a)]
        authors == UNION {c2a[c] : c \in cns \cap DOMAIN c2a}
    IN  FoldLeft(step, [map |-> m, done |-> {}], SelectSeq(AuthorOrder, LAMBDA a : a \in authors)).map

(* FindDups, one title: the authors of the title's control numbers, in   *)
(* std::map order; an author with at least two of them and none already  *)
(* processed for this title maps each of them to the same new set,        *)
(* overwriting what an earlier title put there.                           *)
TitleDups(m, cns, c2a) ==
    LET a2c(a) == {c \in cns \cap DOMAIN c2a : a \in c2a[c]}
        step(acc, a) ==
            IF Cardinality(a2c(a)) < 2 \/ a2c(a) \cap acc.done # {} THEN acc
            ELSE [map |-> [c \in a2c(a) |-> a2c(a)] @@ acc.map, done |-> acc.done \cup a2c(a)]
        authors == UNION {c2a[c] : c \in cns \cap DOMAIN c2a}
    IN  FoldLeft(step, [map |-> m, done |-> {}], SelectSeq(AuthorOrder, LAMBDA a : a \in authors)).map

(* FindDups: titles in the order of the unordered_map. *)
FindDups(m, t2c, c2a, order) ==
    FoldLeft(LAMBDA acc, t : IF Cardinality(t2c[t]) < 2 THEN acc ELSE TitleDups(acc, t2c[t], c2a),
             m, order)

(* InitControlNumberToControlNumberSetMap: the getNextTitle and          *)
(* getNextAuthor loops run from wherever the cursors stand and leave them *)
(* null.                                                                  *)
InitControlNumberToControlNumberSetMap ==
    LET t2c == [k \in Unvisited(titles_db, title_cursor) |-> titles_db[k]]
        akeys == Unvisited(authors_db, author_cursor)
        c2a == [c \in UNION {authors_db[a] : a \in akeys} |-> {a \in akeys : c \in authors_db[a]}]
    IN  /\ \E order \in SetToSeqs(DOMAIN t2c) : cn_sets' = FindDups(cn_sets, t2c, c2a, order)
        /\ title_cursor' = {}
        /\ author_cursor' = {}

(* InitControlNumberToYearControlNumberSetMap: a control number found   *)
(* under two years is a LOG_ERROR, which exits.                          *)
InitControlNumberToYearControlNumberSetMap ==
    LET ys == Unvisited(years_db, year_cursor)
        cns == UNION {years_db[y] : y \in ys}
    IN  /\ year_cursor' = {}
        /\ IF \E y1, y2 \in ys : y1 # y2 /\ years_db[y1] \cap years_db[y2] # {}
           THEN pc' = "aborted" /\ UNCHANGED year_sets
           ELSE /\ year_sets' = [c \in cns |-> years_db[CHOOSE y \in ys : c \in years_db[y]]]
                /\ UNCHANGED pc

(* getControlNumberPartners: the maps are built when they are empty. *)
GetControlNumberPartners(also_use_years) ==
    /\ pc = "running"
    /\ IF cn_sets = <<>> THEN InitControlNumberToControlNumberSetMap
       ELSE UNCHANGED <<cn_sets, title_cursor, author_cursor>>
    /\ IF also_use_years /\ year_sets = <<>> THEN InitControlNumberToYearControlNumberSetMap
       ELSE UNCHANGED <<year_sets, year_cursor, pc>>
    /\ UNCHANGED <<db_vars, calls, indexed, title_iter>>

(* The value getControlNumberPartners returns. *)
Partners(cn, also_use_years) ==
    CASE cn \notin DOMAIN cn_sets -> {}
      [] ~also_use_years -> cn_sets[cn]
      [] cn \notin DOMAIN year_sets -> {}
      [] OTHER -> cn_sets[cn] \cap year_sets[cn]

(* lookupTitle, lookupAuthor, lookupYear: the key's set, or none.  The  *)
(* UTF8ToLower these apply to a normalised name leaves it unchanged.      *)
Lookup(db, k) == IF k \in DOMAIN db THEN db[k] ELSE {}
LookupTitle(t) == Lookup(titles_db, NormaliseTitle(t))
LookupAuthor(a) == Lookup(authors_db, NormaliseAuthorName(a))
LookupYear(y) == Lookup(years_db, y)

(* Mutant: the year is not consulted. *)
GetGuessedControlNumbersIgnoreYear(t, as, y) ==
    LET tcns == LookupTitle(t)
        acns == UNION {LookupAuthor(a) : a \in as}
    IN  IF tcns = {} \/ acns = {} THEN {} ELSE tcns \cap acns

(* getGuessedControlNumbers; year "" is no year. *)
GetGuessedControlNumbers(t, as, y) ==
    LET tcns == LookupTitle(t)
        acns == UNION {LookupAuthor(a) : a \in as}
    IN  CASE tcns = {} \/ acns = {} -> {}
          [] y = "" -> tcns \cap acns
          [] OTHER -> tcns \cap acns \cap LookupYear(y)

Init ==
    /\ titles_db = <<>> /\ authors_db = <<>> /\ years_db = <<>>
    /\ title_cursor = {} /\ author_cursor = {} /\ year_cursor = {}
    /\ cn_sets = <<>> /\ year_sets = <<>>
    /\ pc = "running"
    /\ calls = 0
    /\ indexed = [c \in CNs |-> [titles |-> {}, authors |-> {}, years |-> {}]]
    /\ title_iter = <<>>

(* The program has exited. *)
Terminated == pc = "aborted" /\ UNCHANGED vars

Next ==
    \/ \E t \in Titles, c \in CNs : InsertTitle(t, c)
    \/ \E as \in SUBSET Authors \ {{}}, c \in CNs : InsertAuthors(as, c)
    \/ \E y \in Years, c \in CNs : InsertYear(y, c)
    \/ GetNextTitle \/ GetNextAuthor \/ GetNextYear
    \/ \E b \in BOOLEAN : GetControlNumberPartners(b)
    \/ Terminated

Spec == Init /\ [][Next]_vars

(***************************************************************************)
(* Properties.                                                             *)
(***************************************************************************)
TitleKeys == {TitleKey[t] : t \in Titles} \ {""}
AuthorKeys == {AuthorKey[a] : a \in Authors}

TypeOK ==
    /\ DOMAIN titles_db \subseteq TitleKeys /\ DOMAIN authors_db \subseteq AuthorKeys
    /\ DOMAIN years_db \subseteq Years
    /\ \A db \in {titles_db, authors_db, years_db} : Range(db) \subseteq SUBSET CNs
    /\ title_cursor \subseteq TitleKeys /\ author_cursor \subseteq AuthorKeys
    /\ year_cursor \subseteq Years
    /\ DOMAIN cn_sets \subseteq CNs /\ Range(cn_sets) \subseteq SUBSET CNs
    /\ DOMAIN year_sets \subseteq CNs /\ Range(year_sets) \subseteq SUBSET CNs
    /\ pc \in {"running", "aborted"}
    /\ calls \in 0..MaxCalls
    /\ indexed \in [CNs -> [titles : SUBSET (TitleKeys \cup {""}), authors : SUBSET AuthorKeys, years : SUBSET Years]]
    /\ title_iter \in Seq(TitleKeys)

(* The control numbers a client indexed under a title normalising to a *)
(* non-empty key, one of the authors and, unless y is "", the year.      *)
IndexedMatches(t, as, y) ==
    {c \in CNs : /\ NormaliseTitle(t) # ""
                 /\ NormaliseTitle(t) \in indexed[c].titles
                 /\ \E a \in as : NormaliseAuthorName(a) \in indexed[c].authors
                 /\ y = "" \/ y \in indexed[c].years}

(* getGuessedControlNumbers answers, after any sequence of inserts, with *)
(* exactly the control numbers indexed under the same normalised title,  *)
(* a shared normalised author and the year.                              *)
GuessedAreIndexedMatches ==
    \A t \in Titles, as \in SUBSET Authors, y \in Years \cup {""} :
        GetGuessedControlNumbers(t, as, y) = IndexedMatches(t, as, y)

(* Two control numbers FindDups puts in one set were indexed under the   *)
(* same normalised title and a shared normalised author.                 *)
PartnersShareTitleAndAuthor ==
    \A c \in DOMAIN cn_sets : \A p \in cn_sets[c] :
        /\ (indexed[c].titles \cap indexed[p].titles) \ {""} # {}
        /\ indexed[c].authors \cap indexed[p].authors # {}

(* Being partners is symmetric: if p is among the partners of c, c is    *)
(* among those of p.  FindDups overwrites the set of a control number    *)
(* that a later title groups differently.                                *)
PartnersSymmetric ==
    \A c \in DOMAIN cn_sets : \A p \in cn_sets[c] : p \in DOMAIN cn_sets /\ c \in cn_sets[p]

(* A client looping over getNextTitle receives each title at most once   *)
(* before the loop ends; getControlNumberPartners drives the same         *)
(* title_cursor_ when it builds its map.                                  *)
TitleIterationVisitsEachOnce == IsInjective(title_iter)
=============================================================================
