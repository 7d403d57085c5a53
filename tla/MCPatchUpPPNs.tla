---------------------------- MODULE MCPatchUpPPNs ---------------------------
(***************************************************************************)
(* Instance of PatchUpPPNs for TLC.  Two dumps: in the first, two K10+     *)
(* records carry the BSZ PPNs a1 and a2 (and a ZDB number the regex        *)
(* rejects); in the second, record n2 has been merged into n1, whose 035   *)
(* now also lists (DE-627)n2.  The resource table has a unique key and     *)
(* already holds a row for n1, so UPDATE IGNORE skips rows there.         *)
(***************************************************************************)
EXTENDS PatchUpPPNs

MCDumps ==
    << << [cn |-> "n1", ids |-> << <<"DE-576", "a1">> >>],
          [cn |-> "n2", ids |-> << <<"DE-599", "z">>, <<"DE-576", "a2">> >>] >>,
       << [cn |-> "n1", ids |-> << <<"DE-576", "a1">>, <<"DE-627", "n2">> >>] >> >>

MCUserTypes == <<"ixtheo", "relbib">>

MCTables == <<"resource", "keyword_translations">>

MCInitRows == [tb \in {"resource", "keyword_translations"} |->
                  IF tb = "resource" THEN {"a1", "a2", "n1"} ELSE {"a2"}]

MCInitNotified == [ut \in {"ixtheo", "relbib"} |-> {"a1"}]
=============================================================================
