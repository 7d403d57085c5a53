---------------------------- MODULE MCMarcRecord ----------------------------
(***************************************************************************)
(* Instance of MarcRecord for TLC.  Three contents of one or two bytes     *)
(* (one a local record header), tags ordered as MarcTag compares them, and *)
(* records of the shapes the pipelines read: a control number field, and   *)
(* optionally one or two local records.                                    *)
(***************************************************************************)
EXTENDS MarcRecord

MCTagOrder == <<"001", "245", "LOK", "SPR">>

F(t, v) == [tag |-> t, value |-> v]

MCValues == {<<"d">>, <<"d", "d">>, <<"hdr">>}

(* Only LOK fields open a local record; other fields carry other bytes. *)
MCFieldInputs ==
    {F(t, v) : t \in {"245", "SPR"}, v \in {<<"d">>, <<"d", "d">>}} \cup
    {F("LOK", v) : v \in MCValues}

MCInitFieldLists ==
    { << F("001", <<"d">>) >>,
      << F("001", <<"d">>), F("LOK", <<"hdr">>), F("LOK", <<"d">>) >> }

MCOthers ==
    { Layout(<< F("001", <<"d">>), F("245", <<"d">>) >>),
      Layout(<< F("001", <<"d">>), F("LOK", <<"hdr">>) >>) }

(* filterTags() with one tag at a time. *)
MCDropSets == { {"245"}, {"LOK"} }

(* filterTags() with two tags. *)
MCDropPairs == { {"245", "LOK"}, {"001", "245"} }
=============================================================================
