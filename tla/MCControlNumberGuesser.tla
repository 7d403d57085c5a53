------------------------ MODULE MCControlNumberGuesser ------------------------
(* Two spellings of one title, a second title and one that normalises to  *)
(* nothing (NormaliseTitle turns '-' and punctuation into separators and  *)
(* lower-cases); two spellings of one author, equal after                  *)
(* NormaliseAuthorName swaps "last, first", and a blank name, which it     *)
(* normalises to ""; two years; three control numbers.                     *)
EXTENDS ControlNumberGuesser, TLC

CONSTANTS c1, c2, c3

MCTitles == {"The Title", "THE TITLE.", "Other", "--"}
MCTitleKey == ("The Title" :> "the title") @@ ("THE TITLE." :> "the title")
                @@ ("Other" :> "other") @@ ("--" :> "")
MCAuthors == {"Doe, J.", "J. Doe", " "}
MCAuthorKey == ("Doe, J." :> "doe") @@ ("J. Doe" :> "doe") @@ (" " :> "")
MCAuthorOrder == <<"", "doe">>
MCYears == {"1999", "2000"}
MCCNs == {c1, c2, c3}

Symmetry == Permutations(MCCNs)
=============================================================================
