------------------------------ MODULE ExecUtil ------------------------------
(***************************************************************************)
(* Exec() of src/cpp/lib/ExecUtil.cc: fork a child that becomes a session  *)
(* leader and execs the command; in WAIT mode wait4() for it, with an      *)
(* optional SIGALRM timeout after which the child's process group is sent  *)
(* tardy_child_signal and -1 is returned.                                  *)
(*                                                                         *)
(* The processes are the parent (Exec), the child, one descendant the      *)
(* command may start in its process group, the kernel's alarm timer, and   *)
(* an unrelated process that may be given the child's pid once it is free. *)
(* The SIGALRM handler is installed with signal(), which with glibc has    *)
(* BSD semantics (SA_RESTART): a wait4() interrupted by the alarm is       *)
(* restarted, so the parent leaves wait4() only when the child has exited. *)
(* A positive timeout is represented by 1; time itself is not modelled: the *)
(* alarm may go off at any point while it is armed.                        *)
(*                                                                         *)
(* The mode "LEGACY" is a call of the older Exec() of src/lib/ExecUtil.cc: *)
(* it always waits, has no timeout, and its child stays in the caller's   *)
(* process group.                                                          *)
(***************************************************************************)
EXTENDS Integers

CONSTANTS
    Modes,          \* "WAIT" (Exec), "DETACH" (Spawn), "LEGACY" (src/lib Exec)
    Timeouts,       \* timeout_in_seconds: 0 or 1 (any positive value)
    ExecOutcomes,   \* what the child's set-up does: "ok", "no_stdout", "execv_fails"
    Terminations,   \* how the command may end: [how |-> "exited" or "signalled", code]
    MayHang,        \* whether the command may run forever
    MaySpawn        \* whether the command may start a descendant in its group

EXECVE_FAILURE == 248
NoStatus == [how |-> "none", code |-> 0]

VARIABLES
    mode, timeout,   \* the arguments of this call
    hangs,           \* the command never exits on its own
    ppc,             \* the parent's place in Exec()
    result,          \* what Exec() returned or threw
    child,           \* "none", "forked", "leader", "running", "zombie", "reaped"
    ran,             \* the command was executed
    cstatus,         \* how the child ended
    status,          \* child_exit_status as read by wait4()
    descendant,      \* "none", "alive", "dead": the command's child in its group
    timer,           \* "off" or "armed"
    alarm_went_off,  \* the static flag the handler sets
    stranger         \* "none", "alive", "signalled": an unrelated process with the freed pid

vars == <<mode, timeout, hangs, ppc, result, child, ran, cstatus, status,
          descendant, timer, alarm_went_off, stranger>>

Returned(v) == [kind |-> "return", code |-> v, what |-> ""]
Thrown(w) == [kind |-> "throw", code |-> 0, what |-> w]
ReturnedPid == [kind |-> "pid", code |-> 0, what |-> ""]
NoResult == [kind |-> "none", code |-> 0, what |-> ""]

(* Members of the process group whose id is the child's pid. *)
ChildInGroup == child \in {"leader", "running", "zombie"}
GroupExists == mode # "LEGACY" /\ (ChildInGroup \/ descendant = "alive")

(***************************************************************************)
(* The parent.                                                             *)
(***************************************************************************)
(* The checks before fork() (access() may fail), fork() and, in WAIT     *)
(* mode with a timeout, the installation of the handler and alarm().      *)
(* A failing fork() throws.                                             *)
ExecStart ==
    /\ ppc = "start"
    /\ mode # "LEGACY"
    /\ \/ /\ result' = Thrown("cant_execute")
          /\ ppc' = "done"
          /\ UNCHANGED <<child, timer, alarm_went_off>>
       \/ /\ mode = "DETACH" /\ timeout > 0
          /\ result' = Thrown("detach_timeout")
          /\ ppc' = "done"
          /\ UNCHANGED <<child, timer, alarm_went_off>>
       \/ /\ ~(mode = "DETACH" /\ timeout > 0)
          /\ result' = Thrown("fork")
          /\ ppc' = "done"
          /\ UNCHANGED <<child, timer, alarm_went_off>>
       \/ /\ ~(mode = "DETACH" /\ timeout > 0)
          /\ child' = "forked"
          /\ IF mode = "DETACH"
             THEN /\ result' = ReturnedPid
                  /\ ppc' = "done"
                  /\ UNCHANGED <<timer, alarm_went_off>>
             ELSE /\ ppc' = "wait"
                  /\ UNCHANGED result
                  /\ IF timeout > 0
                     THEN timer' = "armed" /\ alarm_went_off' = FALSE
                     ELSE UNCHANGED <<timer, alarm_went_off>>
    /\ UNCHANGED <<mode, timeout, hangs, ran, cstatus, status, descendant, stranger>>

(* The older Exec(): access(), fork(); a failure of either throws, and   *)
(* the parent goes straight to wait4().                                   *)
LegacyExecStart ==
    /\ ppc = "start"
    /\ mode = "LEGACY"
    /\ \/ result' = Thrown("cant_execute") /\ ppc' = "done" /\ UNCHANGED child
       \/ result' = Thrown("fork") /\ ppc' = "done" /\ UNCHANGED child
       \/ child' = "forked" /\ ppc' = "wait" /\ UNCHANGED result
    /\ UNCHANGED <<mode, timeout, hangs, ran, cstatus, status, descendant, timer,
                   alarm_went_off, stranger>>

(* Mutant: the first wait already waits for the whole group, wait4(-pid). *)
Wait4WholeGroup ==
    /\ ppc = "wait"
    /\ child = "zombie"
    /\ descendant # "alive"
    /\ child' = "reaped"
    /\ status' = cstatus
    /\ ppc' = IF timeout > 0 THEN "timeout_check" ELSE "status"
    /\ UNCHANGED <<mode, timeout, hangs, result, ran, cstatus, descendant, timer,
                   alarm_went_off, stranger>>

(* wait4(pid): blocks until the child has exited, reaps it. *)
Wait4 ==
    /\ ppc = "wait"
    /\ mode # "LEGACY"
    /\ child = "zombie"
    /\ child' = "reaped"
    /\ status' = cstatus
    /\ ppc' = IF timeout > 0 THEN "timeout_check" ELSE "status"
    /\ UNCHANGED <<mode, timeout, hangs, result, ran, cstatus, descendant, timer,
                   alarm_went_off, stranger>>

(* kill(-pid, sig): every live member of the process group pid dies.      *)
Kill(p) == IF p = "alive" THEN "dead" ELSE p

(* alarm(0), restore the old handler, and on a timeout kill(-pid) and     *)
(* wait4(-pid) until it fails.  The child has been reaped by now, so the  *)
(* process group pid holds only the command's descendant, or, once the    *)
(* pid is free, the process that was given it.                            *)
TimeoutCheck ==
    /\ ppc = "timeout_check"
    /\ timer' = "off"
    /\ IF alarm_went_off
       THEN /\ descendant' = Kill(descendant)
            /\ stranger' = IF stranger = "alive" THEN "signalled" ELSE stranger
            /\ ppc' = "reap"
       ELSE /\ ppc' = "status"
            /\ UNCHANGED <<descendant, stranger>>
    /\ UNCHANGED <<mode, timeout, hangs, result, child, ran, cstatus, status, alarm_went_off>>

(* while (wait4(-pid, ...) != -1): the parent has no child left in the    *)
(* group, so the first call fails; Exec() returns -1.                     *)
ReapGroup ==
    /\ ppc = "reap"
    /\ result' = Returned(-1)
    /\ ppc' = "done"
    /\ UNCHANGED <<mode, timeout, hangs, child, ran, cstatus, status, descendant,
                   timer, alarm_went_off, stranger>>

(* WIFEXITED / WIFSIGNALED on child_exit_status. *)
StatusOutcome(s) ==
    CASE s.how = "exited" /\ s.code = EXECVE_FAILURE -> Thrown("execve")
      [] s.how = "exited" -> Returned(s.code)
      [] s.how = "signalled" -> Thrown("signal")

ExitStatus ==
    /\ ppc = "status"
    /\ mode # "LEGACY"
    /\ result' = StatusOutcome(status)
    /\ ppc' = "done"
    /\ UNCHANGED <<mode, timeout, hangs, child, ran, cstatus, status, descendant,
                   timer, alarm_went_off, stranger>>

(* The older Exec(): wait4(pid) until the child has exited, then the same *)
(* interpretation of its status.                                          *)
LegacyWait4 ==
    /\ ppc = "wait"
    /\ mode = "LEGACY"
    /\ child = "zombie"
    /\ child' = "reaped"
    /\ status' = cstatus
    /\ ppc' = "status"
    /\ UNCHANGED <<mode, timeout, hangs, result, ran, cstatus, descendant, timer,
                   alarm_went_off, stranger>>

LegacyExitStatus ==
    /\ ppc = "status"
    /\ mode = "LEGACY"
    /\ result' = StatusOutcome(status)
    /\ ppc' = "done"
    /\ UNCHANGED <<mode, timeout, hangs, child, ran, cstatus, status, descendant,
                   timer, alarm_went_off, stranger>>

(***************************************************************************)
(* The child, the command and its descendant.                              *)
(***************************************************************************)
Setsid ==
    /\ child = "forked"
    /\ mode # "LEGACY"
    /\ child' = "leader"
    /\ UNCHANGED <<mode, timeout, hangs, ppc, result, ran, cstatus, status, descendant,
                   timer, alarm_went_off, stranger>>

(* Mutant: the status of _exit(-1) is taken to be -1. *)
ChildExecMinusOne ==
    /\ child = "leader"
    /\ \E o \in ExecOutcomes :
         CASE o = "ok" ->
                child' = "running" /\ ran' = TRUE /\ UNCHANGED cstatus
           [] o = "no_stdout" ->
                child' = "zombie" /\ cstatus' = [how |-> "exited", code |-> -1] /\ UNCHANGED ran
           [] o = "execv_fails" ->
                child' = "zombie" /\ cstatus' = [how |-> "exited", code |-> EXECVE_FAILURE]
                /\ UNCHANGED ran
    /\ UNCHANGED <<mode, timeout, hangs, ppc, result, status, descendant, timer,
                   alarm_went_off, stranger>>

(* Redirect stdout, then execv(); _exit(-1) or _exit(248) on failure. *)
ChildExec ==
    /\ child = "leader"
    /\ \E o \in ExecOutcomes :
         CASE o = "ok" ->
                child' = "running" /\ ran' = TRUE /\ UNCHANGED cstatus
           [] o = "no_stdout" ->
                child' = "zombie" /\ cstatus' = [how |-> "exited", code |-> 255] /\ UNCHANGED ran
           [] o = "execv_fails" ->
                child' = "zombie" /\ cstatus' = [how |-> "exited", code |-> EXECVE_FAILURE]
                /\ UNCHANGED ran
    /\ UNCHANGED <<mode, timeout, hangs, ppc, result, status, descendant, timer,
                   alarm_went_off, stranger>>

(* The older Exec()'s child: no setsid(); the same stdout redirection,    *)
(* execv() and _exit() codes.                                              *)
LegacyChildExec ==
    /\ child = "forked"
    /\ mode = "LEGACY"
    /\ \E o \in ExecOutcomes :
         CASE o = "ok" ->
                child' = "running" /\ ran' = TRUE /\ UNCHANGED cstatus
           [] o = "no_stdout" ->
                child' = "zombie" /\ cstatus' = [how |-> "exited", code |-> 255] /\ UNCHANGED ran
           [] o = "execv_fails" ->
                child' = "zombie" /\ cstatus' = [how |-> "exited", code |-> EXECVE_FAILURE]
                /\ UNCHANGED ran
    /\ UNCHANGED <<mode, timeout, hangs, ppc, result, status, descendant, timer,
                   alarm_went_off, stranger>>

CommandEnds ==
    /\ child = "running"
    /\ ~hangs
    /\ \E t \in Terminations : cstatus' = t
    /\ child' = "zombie"
    /\ UNCHANGED <<mode, timeout, hangs, ppc, result, ran, status, descendant, timer,
                   alarm_went_off, stranger>>

CommandSpawns ==
    /\ MaySpawn
    /\ child = "running"
    /\ descendant = "none"
    /\ descendant' = "alive"
    /\ UNCHANGED <<mode, timeout, hangs, ppc, result, child, ran, cstatus, status,
                   timer, alarm_went_off, stranger>>

DescendantEnds ==
    /\ descendant = "alive"
    /\ descendant' = "dead"
    /\ UNCHANGED <<mode, timeout, hangs, ppc, result, child, ran, cstatus, status,
                   timer, alarm_went_off, stranger>>

(***************************************************************************)
(* The environment.                                                        *)
(***************************************************************************)
(* SIGALRM is delivered; SigAlarmHandler sets alarm_went_off.  wait4() is *)
(* restarted (SA_RESTART), so the parent stays where it is.               *)
AlarmFires ==
    /\ timer = "armed"
    /\ timer' = "off"
    /\ alarm_went_off' = TRUE
    /\ UNCHANGED <<mode, timeout, hangs, ppc, result, child, ran, cstatus, status,
                   descendant, stranger>>

(* Once the child is reaped and its process group is empty, the kernel    *)
(* may hand the pid to a new process, which may lead a group of its own.  *)
PidReused ==
    /\ stranger = "none"
    /\ child = "reaped"
    /\ ~GroupExists
    /\ stranger' = "alive"
    /\ UNCHANGED <<mode, timeout, hangs, ppc, result, child, ran, cstatus, status,
                   descendant, timer, alarm_went_off>>

Init ==
    /\ mode \in Modes
    /\ timeout \in IF mode = "LEGACY" THEN {0} ELSE Timeouts
    /\ hangs \in IF MayHang THEN BOOLEAN ELSE {FALSE}
    /\ ppc = "start"
    /\ result = NoResult
    /\ child = "none"
    /\ ran = FALSE
    /\ cstatus = NoStatus
    /\ status = NoStatus
    /\ descendant = "none"
    /\ timer = "off"
    /\ alarm_went_off = FALSE
    /\ stranger = "none"

(* Every process has finished its part; only the stuttering is left. *)
Quiescent ==
    /\ ppc = "done"
    /\ child \in {"none", "zombie", "reaped"} \/ (child = "running" /\ hangs)
    /\ UNCHANGED vars

Next ==
    \/ ExecStart \/ Wait4 \/ TimeoutCheck \/ ReapGroup \/ ExitStatus
    \/ LegacyExecStart \/ LegacyWait4 \/ LegacyExitStatus \/ LegacyChildExec
    \/ Setsid \/ ChildExec \/ CommandEnds \/ CommandSpawns \/ DescendantEnds
    \/ AlarmFires \/ PidReused
    \/ Quiescent

(* The parent, the child and the kernel's timer are scheduled; the        *)
(* descendant and the pid allocator are not required to act.              *)
Fairness ==
    /\ WF_vars(ExecStart) /\ WF_vars(Wait4) /\ WF_vars(TimeoutCheck)
    /\ WF_vars(ReapGroup) /\ WF_vars(ExitStatus)
    /\ WF_vars(Setsid) /\ WF_vars(ChildExec) /\ WF_vars(CommandEnds)
    /\ WF_vars(LegacyExecStart) /\ WF_vars(LegacyWait4) /\ WF_vars(LegacyExitStatus)
    /\ WF_vars(LegacyChildExec)
    /\ WF_vars(AlarmFires)

Spec == Init /\ [][Next]_vars /\ Fairness

(***************************************************************************)
(* Properties.                                                             *)
(***************************************************************************)
(* WEXITSTATUS and WTERMSIG are 8-bit values. *)
Status == [how : {"none", "exited", "signalled"}, code : 0..255]

TypeOK ==
    /\ mode \in Modes /\ timeout \in Timeouts /\ hangs \in BOOLEAN
    /\ ppc \in {"start", "wait", "timeout_check", "reap", "status", "done"}
    /\ result \in [kind : {"none", "return", "pid", "throw"}, code : Int, what : STRING]
    /\ child \in {"none", "forked", "leader", "running", "zombie", "reaped"}
    /\ ran \in BOOLEAN
    /\ cstatus \in Status /\ status \in Status
    /\ descendant \in {"none", "alive", "dead"}
    /\ timer \in {"off", "armed"}
    /\ alarm_went_off \in BOOLEAN
    /\ stranger \in {"none", "alive", "signalled"}

(* Exec() returns a non-negative status only when the command was         *)
(* executed and exited with that status, and reports an execve failure    *)
(* only when the command was not executed.                                *)
StatusIsTheCommands ==
    /\ result.kind = "return" /\ result.code >= 0 =>
           ran /\ cstatus = [how |-> "exited", code |-> result.code]
    /\ result = Thrown("execve") => ~ran

(* Exec() never sends a signal to a process that it did not start. *)
NoStrangerSignalled == stranger # "signalled"

(* Every call of Exec(), Spawn() and the older Exec() returns or throws  *)
(* once the command itself has exited, also while a process the command  *)
(* started in its group runs on: wait4(pid) waits for the child alone,   *)
(* and an alarm that goes off meanwhile only restarts it.                *)
ExecReturns == <>(ppc = "done")

(* A call of Exec() with a timeout returns or throws even when the        *)
(* command never exits: the alarm ends the wait and the group is killed.  *)
TimeoutEndsExec == timeout > 0 => <>(ppc = "done")
=============================================================================
