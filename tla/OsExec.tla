------------------------------- MODULE OsExec -------------------------------
(***************************************************************************)
(* os_exec::run (os-exec.hh): a forked child execs a program; if it cannot,*)
(* it leaves errno in memory shared with the parent, and exits with code 1 *)
(* like a program that failed might.  The parent waits and tells these     *)
(* endings apart.                                                          *)
(***************************************************************************)
EXTENDS Integers

CONSTANTS
  Errnos,  \* values of errno
  Codes,   \* exit codes of programs
  Signals  \* signals that kill a process

ASSUME OsExecAssumption == Errnos \subseteq Nat \ {0} /\ {0, 1} \subseteq Codes

VARIABLES
  parent,        \* "idle", "mmap", "fork", "wait", "status" or "returned"
  child,         \* "none", "exec", "store", "exit", "program", "dead" or "reaped"
  ended,         \* how the child ended: see Ending
  errno,         \* of the child's exec; 0 if it did not fail
  exec_failure,  \* the shared word
  result,        \* what run returned
  no_sigchld     \* SIGCHLD was ignored when the compiler was started

runVars == <<parent, child, ended, errno, exec_failure, result, no_sigchld>>

Nothing == <<"none", 0>>
Ending == {Nothing} \cup ({"exit"} \X Codes) \cup ({"signal"} \X Signals)

\* "ok" is the empty error_code; "errno" a std::errc; the others are the
\* categories of os-exec.hh.  Without WUNTRACED no child is reported stopped.
Result == Ending \cup {<<"ok", 0>>} \cup ({"errno"} \X Errnos)

Init_Run ==
  /\ parent = "idle" /\ child = "none"
  /\ ended = Nothing /\ errno = 0 /\ exec_failure = 0 /\ result = Nothing
  /\ no_sigchld \in BOOLEAN

-----------------------------------------------------------------------------
(* The parent. *)

\* run is called.
Call_Run ==
  /\ parent' = "mmap" /\ child' = "none"
  /\ ended' = Nothing /\ errno' = 0 /\ result' = Nothing
  /\ UNCHANGED <<exec_failure, no_sigchld>>

Returns(r) == result' = r /\ parent' = "returned"

\* mmap, fork: an error is returned as it is.
Mmap ==
  /\ parent = "mmap"
  /\ \/ parent' = "fork" /\ exec_failure' = 0 /\ UNCHANGED result
     \/ (\E e \in Errnos : Returns(<<"errno", e>>)) /\ UNCHANGED exec_failure
  /\ UNCHANGED <<child, ended, errno, no_sigchld>>

Fork ==
  /\ parent = "fork"
  /\ \/ parent' = "wait" /\ child' = "exec" /\ UNCHANGED result
     \/ (\E e \in Errnos : Returns(<<"errno", e>>)) /\ UNCHANGED child
  /\ UNCHANGED <<ended, errno, exec_failure, no_sigchld>>

\* A plausible slip: waitpid with WNOHANG, which leaves wstatus as it was.
Waitpid_No_Hang ==
  /\ parent = "wait" /\ ~no_sigchld
  /\ parent' = "status"
  /\ ended' = IF child = "dead" THEN ended ELSE <<"exit", 0>>
  /\ child' = IF child = "dead" THEN "reaped" ELSE child
  /\ UNCHANGED <<errno, exec_failure, result, no_sigchld>>

\* A plausible slip: a child killed by a signal is waited for on.
Waitpid_Exits_Only ==
  /\ parent = "wait" /\ child = "dead" /\ ended[1] = "exit" /\ ~no_sigchld
  /\ parent' = "status" /\ child' = "reaped"
  /\ UNCHANGED <<ended, errno, exec_failure, result, no_sigchld>>

Waitpid ==
  /\ parent = "wait" /\ child = "dead" /\ ~no_sigchld
  /\ parent' = "status" /\ child' = "reaped"
  /\ UNCHANGED <<ended, errno, exec_failure, result, no_sigchld>>

\* With SIGCHLD ignored the child is reaped by the kernel, and waitpid fails
\* once it has ended.
Waitpid_Fails ==
  /\ parent = "wait" /\ child = "dead" /\ no_sigchld
  /\ child' = "reaped"
  /\ \E e \in Errnos : Returns(<<"errno", e>>)
  /\ UNCHANGED <<ended, errno, exec_failure, no_sigchld>>

Read_Status ==
  /\ parent = "status"
  /\ Returns(IF exec_failure # 0 THEN <<"errno", exec_failure>>
             ELSE IF ended = <<"exit", 0>> THEN <<"ok", 0>> ELSE ended)
  /\ UNCHANGED <<child, ended, errno, exec_failure, no_sigchld>>

-----------------------------------------------------------------------------
(* The child. *)

Exec ==
  /\ child = "exec"
  /\ \/ child' = "program" /\ UNCHANGED errno
     \/ child' = "store" /\ errno' \in Errnos
  /\ UNCHANGED <<parent, ended, exec_failure, result, no_sigchld>>

\* A plausible slip: the child exits without telling why.
Store_Nothing ==
  /\ child = "store"
  /\ child' = "exit"
  /\ UNCHANGED <<parent, ended, errno, exec_failure, result, no_sigchld>>

Store_Errno ==
  /\ child = "store"
  /\ exec_failure' = errno
  /\ child' = "exit"
  /\ UNCHANGED <<parent, ended, errno, result, no_sigchld>>

Dies(how) == child' = "dead" /\ ended' = how

Child_Exits ==
  /\ child = "exit" /\ Dies(<<"exit", 1>>)
  /\ UNCHANGED <<parent, errno, exec_failure, result, no_sigchld>>

Program_Exits(code) ==
  /\ child = "program" /\ Dies(<<"exit", code>>)
  /\ UNCHANGED <<parent, errno, exec_failure, result, no_sigchld>>

Killed ==
  /\ child \in {"exec", "store", "exit", "program"}
  /\ \E s \in Signals : Dies(<<"signal", s>>)
  /\ UNCHANGED <<parent, errno, exec_failure, result, no_sigchld>>

Parent_Step == Mmap \/ Fork \/ Waitpid \/ Waitpid_Fails \/ Read_Status
Child_Step == Exec \/ Store_Errno \/ Child_Exits \/ Killed

-----------------------------------------------------------------------------
(* Properties *)

TypeOK_Run ==
  /\ parent \in {"idle", "mmap", "fork", "wait", "status", "returned"}
  /\ child \in {"none", "exec", "store", "exit", "program", "dead", "reaped"}
  /\ ended \in Ending /\ result \in Result
  /\ {errno, exec_failure} \subseteq Errnos \cup {0}

\* run reports success only for a program that was executed, has ended and
\* been waited for, with exit code 0, however parent and child interleave.
SuccessMeansRan ==
  result = <<"ok", 0>> => errno = 0 /\ child = "reaped" /\ ended = <<"exit", 0>>

\* An exit code that run reports is the program's: the child's exit(1) after a
\* failed exec is never taken for it.
ExitCodeIsPrograms == result[1] = "exit" => errno = 0

\* run leaves no child behind, by whatever path it returns.
NoChildLeft == parent = "returned" => child \in {"none", "reaped"}
=============================================================================
