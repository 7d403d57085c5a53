----------------------------- MODULE MCExecUtil -----------------------------
(***************************************************************************)
(* Instance of ExecUtil for TLC: Exec and Spawn calls with and without a   *)
(* timeout; commands that exit with 0 or 3 or die of a signal.             *)
(***************************************************************************)
EXTENDS ExecUtil

MCTerminations ==
    {[how |-> "exited", code |-> 0], [how |-> "exited", code |-> 3],
     [how |-> "signalled", code |-> 11]}

(* A command that itself exits with the status _exit(248) stands for. *)
MCTerminations248 == MCTerminations \cup {[how |-> "exited", code |-> 248]}
=============================================================================
