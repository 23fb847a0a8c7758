------------------------------- MODULE Driver -------------------------------
(***************************************************************************)
(* main (stacky.cc) from the front end to the executable: which phase runs *)
(* after which, what ends the compiler, and which files it leaves behind.  *)
(* Compilation_Failed is static in a header, so every translation unit has *)
(* its own, while report, which sets it, is inline and may be any unit's:  *)
(* whether main sees an error that another unit reported is undefined.     *)
(***************************************************************************)
EXTENDS OsExec

VARIABLES
  phase,               \* see Phase
  Compilation_Failed,  \* the flag that main reads
  reported,            \* history: an error has been reported
  run_mode,            \* `stacky run`
  asm, obj, exe,       \* the files: see File
  exit_code            \* -1 while running

mainVars == <<phase, Compilation_Failed, reported, run_mode, asm, obj, exe, exit_code>>
vars == <<runVars, mainVars>>

\* "endless": main goes round a loop that does not end.
Phase == {"front", "parsed", "checked", "generated", "drawn", "nasm", "ld", "linked", "over",
          "program", "endless"}

\* There is none; one of an earlier build; of this build; or of this build and
\* cut short, as nobody looks at the stream after writing.
File == {"none", "old", "new", "cut"}

Init ==
  /\ Init_Run
  /\ phase = "front"
  /\ Compilation_Failed = FALSE /\ reported = FALSE
  /\ run_mode \in BOOLEAN
  /\ asm \in {"none", "old"} /\ obj \in {"none", "old"} /\ exe \in {"none", "old"}
  /\ exit_code = -1

-----------------------------------------------------------------------------

At_Phase(p) == phase = p /\ parent \in {"idle", "returned"}

Exits(code) == phase' = "over" /\ exit_code' = code
Goes_To(p) == phase' = p /\ UNCHANGED exit_code

\* error(...) in another translation unit.
Reports == reported' = TRUE /\ Compilation_Failed' \in {Compilation_Failed, TRUE}
Fatal == reported' = TRUE /\ Compilation_Failed' \in {Compilation_Failed, TRUE} /\ Exits(1)
Quiet == UNCHANGED <<reported, Compilation_Failed>>

\* Lexing, includes, definitions and operations: they go well, or report an
\* error and go on, or give up; files that include themselves are spliced in
\* for ever.
Front_End ==
  /\ At_Phase("front")
  /\ \/ Goes_To("parsed") /\ Quiet
     \/ Goes_To("parsed") /\ Reports
     \/ Fatal
     \/ Goes_To("endless") /\ Quiet
  /\ UNCHANGED <<run_mode, asm, obj, exe, runVars>>

\* typecheck, optimize, generate_jump_targets_lookup: they only give up.  (A
\* crash of the compiler is taken for that.)
Middle_End ==
  /\ At_Phase("parsed")
  /\ IF Compilation_Failed THEN Exits(1) /\ Quiet
     ELSE (Goes_To("checked") /\ Quiet) \/ Fatal
  /\ UNCHANGED <<run_mode, asm, obj, exe, runVars>>

\* generate_assembly: the file cannot be opened, or is written.
Generate ==
  /\ At_Phase("checked") /\ Goes_To("generated")
  /\ \/ Reports /\ UNCHANGED asm
     \/ Quiet /\ asm' \in {"new", "cut"}
  /\ UNCHANGED <<run_mode, obj, exe, runVars>>

\* generate_control_flow_graph, unless an error came up: it is not asked for or
\* goes well, or gives up on the file or on the function, or looks for ever for
\* the operation past an empty loop.
Draw_Graph ==
  /\ At_Phase("generated")
  /\ IF Compilation_Failed THEN Exits(1) /\ Quiet
     ELSE (Goes_To("drawn") /\ Quiet) \/ Fatal \/ (Goes_To("endless") /\ Quiet)
  /\ UNCHANGED <<run_mode, asm, obj, exe, runVars>>

\* cmd("nasm", ...).
Start_Nasm ==
  /\ At_Phase("drawn")
  /\ Goes_To("nasm") /\ Quiet /\ Call_Run
  /\ UNCHANGED <<run_mode, asm, obj, exe>>

\* A plausible slip: what run returns for nasm is not looked at.
Start_Ld_Anyway ==
  /\ At_Phase("nasm")
  /\ Goes_To("ld") /\ Quiet /\ Call_Run
  /\ UNCHANGED <<run_mode, asm, obj, exe>>

Start_Ld ==
  /\ At_Phase("nasm")
  /\ \/ result = <<"ok", 0>> /\ Goes_To("ld") /\ Quiet /\ Call_Run
     \/ result # <<"ok", 0>> /\ Fatal /\ UNCHANGED runVars
  /\ UNCHANGED <<run_mode, asm, obj, exe>>

Linked ==
  /\ At_Phase("ld")
  /\ \/ result = <<"ok", 0>> /\ Goes_To("linked") /\ Quiet
     \/ result # <<"ok", 0>> /\ Fatal
  /\ UNCHANGED <<run_mode, asm, obj, exe, runVars>>

\* execv replaces the compiler; when it fails main ends as after a build.
Finish ==
  /\ At_Phase("linked")
  /\ (run_mode /\ Goes_To("program")) \/ Exits(0)
  /\ Quiet /\ UNCHANGED <<run_mode, asm, obj, exe, runVars>>

\* nasm makes obj of asm, ld makes exe of obj: exit code 0 says it was done.
Tool_Exits ==
  \E code \in Codes :
    /\ Program_Exits(code)
    /\ code = 0 => (IF phase = "nasm" THEN asm ELSE obj) # "none"
    /\ obj' = IF phase = "nasm" /\ code = 0 THEN asm ELSE obj
    /\ exe' = IF phase = "ld" /\ code = 0 THEN obj ELSE exe
    /\ UNCHANGED <<phase, Compilation_Failed, reported, run_mode, asm, exit_code>>

Main_Step ==
  Front_End \/ Middle_End \/ Generate \/ Draw_Graph \/ Start_Nasm \/ Start_Ld \/ Linked \/ Finish

Next ==
  \/ Main_Step
  \/ Parent_Step /\ UNCHANGED mainVars
  \/ Child_Step /\ UNCHANGED mainVars
  \/ Tool_Exits

\* The system schedules both processes, and nasm and ld come to an end.
Spec ==
  /\ Init /\ [][Next]_vars
  /\ WF_vars(Main_Step)
  /\ WF_vars(Parent_Step /\ UNCHANGED mainVars)
  /\ WF_vars((Child_Step /\ UNCHANGED mainVars) \/ Tool_Exits)

-----------------------------------------------------------------------------
(* Properties *)

TypeOK ==
  /\ TypeOK_Run
  /\ phase \in Phase
  /\ {Compilation_Failed, reported, run_mode} \subseteq BOOLEAN
  /\ {asm, obj, exe} \subseteq File
  /\ exit_code \in {-1, 0, 1}

\* A build that reports no error and ends well, or goes on to run the program,
\* has replaced what an earlier build left: neither a stale assembly file nor
\* a stale object file gets into the executable.
FreshExecutable ==
  (exit_code = 0 \/ phase = "program") /\ ~reported => exe \in {"new", "cut"}

\* main comes to its end, whatever becomes of the children, unless it gets into
\* one of the two loops of its own that need not end: splicing in files that
\* include themselves, and drawing the graph of a body with an empty loop.
BuildEnds == <>(phase \in {"over", "program", "endless"})
=============================================================================
