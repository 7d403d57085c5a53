-------------------------- MODULE MCRecordPipeline --------------------------
(***************************************************************************)
(* Instance of RecordPipeline for TLC.  marc_input1 holds, in every order: *)
(* an article whose 773 $w names the serial s1; one whose 773 lists a ZDB  *)
(* number before (DE-576)s1; one whose 800 $w is (DE-627)s2; a monograph   *)
(* in the series s1; and s1, a superior work held in Tuebingen.  The       *)
(* second input holds the serial s2 (held elsewhere) and a monograph held  *)
(* by a Tuebingen branch library.                                          *)
(***************************************************************************)
EXTENDS RecordPipeline, SequencesExt

R(cn, level, links, spr, lok) ==
    [cn |-> cn, level |-> level, links |-> links, spr |-> spr, lok852 |-> lok, ita |-> 0]

MCFirstInput ==
    { R("p1", "a", << <<"773", << <<"DE-576", "s1">> >> >> >>, FALSE, {}),
      R("p2", "a", << <<"773", << <<"DE-600", "zdb">>, <<"DE-576", "s1">> >> >> >>, FALSE, {}),
      R("p3", "a", << <<"800", << <<"DE-627", "s2">> >> >> >>, FALSE, {}),
      R("m2", "m", << <<"830", << <<"DE-576", "s1">> >> >> >>, FALSE, {}),
      R("s1", "s", <<>>, TRUE, {"DE-21"}) }

MCSecondInput ==
    << R("s2", "s", <<>>, TRUE, {"DE-24"}),
       R("m1", "m", <<>>, FALSE, {"DE-21-24"}) >>

MCInputs == {<<first, MCSecondInput>> : first \in SetToSeqs(MCFirstInput)}
=============================================================================
