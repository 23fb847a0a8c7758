---------------------------- MODULE DriverProofs ----------------------------
(***************************************************************************)
(* Proofs about os_exec::run and main, for any errnos, exit codes and      *)
(* signals: what run returns is what happened to the child, run leaves no  *)
(* child behind, and a build that reports no error has made its executable *)
(* from its own assembly.                                                  *)
(***************************************************************************)
EXTENDS Driver, TLAPS

\* What parent and child know of each other at every place they can be.  The
\* shared word is written before the child exits, unless a signal comes first.
Run_Inv ==
  /\ parent \in {"idle", "mmap", "fork"} =>
       child = "none" /\ errno = 0 /\ ended = Nothing /\ result = Nothing
  /\ parent \in {"fork", "wait", "status"} => result = Nothing
  /\ parent = "fork" => exec_failure = 0
  /\ parent = "wait" => child # "none"
  /\ parent = "status" => child = "reaped"
  /\ parent = "returned" => child \in {"none", "reaped"}
  /\ child \in {"none", "exec", "program"} => errno = 0
  /\ child \in {"exec", "program", "store"} => exec_failure = 0
  /\ child = "store" => errno # 0
  /\ child = "exit" => errno # 0 /\ exec_failure = errno
  /\ child \in {"dead", "reaped"} /\ errno # 0 => exec_failure # 0 \/ ended[1] = "signal"
  /\ SuccessMeansRan
  /\ ExitCodeIsPrograms

Of_This_Build == {"new", "cut"}
Ran_Well == child \in {"dead", "reaped"} /\ errno = 0 /\ ended = <<"exit", 0>>

\* How far what this build has written has come.
Fresh_Inv ==
  /\ exit_code = 0 => phase = "over"
  /\ ~reported =>
       /\ phase \in {"generated", "drawn", "nasm", "ld"} => asm \in Of_This_Build
       /\ phase = "nasm" /\ Ran_Well => obj \in Of_This_Build
       /\ phase = "ld" => obj \in Of_This_Build
       /\ phase = "ld" /\ Ran_Well => exe \in Of_This_Build
       /\ phase \in {"linked", "program"} \/ exit_code = 0 => exe \in Of_This_Build

IInv == TypeOK /\ Run_Inv /\ Fresh_Inv

\* The driver starts in a state that satisfies the inductive invariant.
LEMMA InitIInv == Init => IInv
<1> SUFFICES ASSUME Init PROVE IInv
  OBVIOUS
<1>1. TypeOK
  BY DEF Init, Init_Run, TypeOK, TypeOK_Run, Phase, File, Ending, Result, Nothing
<1>2. Run_Inv
  BY DEF Init, Init_Run, Run_Inv, Nothing, SuccessMeansRan, ExitCodeIsPrograms
<1>3. Fresh_Inv
  BY DEF Init, Init_Run, Fresh_Inv, Of_This_Build
<1> QED
  BY <1>1, <1>2, <1>3 DEF IInv

\* The steps of the parent and of the child alone.
LEMMA RunSteps ==
  ASSUME TypeOK_Run, Run_Inv, Parent_Step \/ Child_Step
  PROVE  TypeOK_Run' /\ Run_Inv'
<1> USE OsExecAssumption DEF TypeOK_Run, Run_Inv, Nothing, Ending, Result,
        SuccessMeansRan, ExitCodeIsPrograms, Returns, Dies
<1>1. CASE Mmap
  BY <1>1 DEF Mmap
<1>2. CASE Fork
  BY <1>2 DEF Fork
<1>3. CASE Waitpid
  BY <1>3 DEF Waitpid
<1>4. CASE Waitpid_Fails
  BY <1>4 DEF Waitpid_Fails
<1>5. CASE Read_Status
  BY <1>5 DEF Read_Status
<1>6. CASE Exec
  BY <1>6 DEF Exec
<1>7. CASE Store_Errno
  BY <1>7 DEF Store_Errno
<1>8. CASE Child_Exits
  BY <1>8 DEF Child_Exits
<1>9. CASE Killed
  BY <1>9 DEF Killed
<1> QED
  BY <1>1, <1>2, <1>3, <1>4, <1>5, <1>6, <1>7, <1>8, <1>9 DEF Parent_Step, Child_Step

\* A program that ends.
LEMMA ProgramStep ==
  ASSUME TypeOK_Run, Run_Inv, NEW code \in Codes, Program_Exits(code)
  PROVE  TypeOK_Run' /\ Run_Inv'
BY OsExecAssumption DEF TypeOK_Run, Run_Inv, Program_Exits, Dies, Nothing, Ending, Result,
   SuccessMeansRan, ExitCodeIsPrograms

\* main calls run after an earlier call has returned.
LEMMA CallStep ==
  ASSUME TypeOK_Run, Run_Inv, Call_Run
  PROVE  TypeOK_Run' /\ Run_Inv'
BY OsExecAssumption DEF TypeOK_Run, Run_Inv, Call_Run, Nothing, Ending, Result,
   SuccessMeansRan, ExitCodeIsPrograms

\* A step of parent or child leaves main's files alone, and no child of them
\* has run well that had not before.
LEMMA FreshUnderRun ==
  ASSUME IInv, Parent_Step \/ Child_Step, UNCHANGED mainVars
  PROVE  Fresh_Inv'
<1> USE DEF IInv, Run_Inv, Fresh_Inv, Ran_Well, mainVars
<1>1. CASE Mmap
  BY <1>1 DEF Mmap
<1>2. CASE Fork
  BY <1>2 DEF Fork
<1>3. CASE Waitpid
  BY <1>3 DEF Waitpid
<1>4. CASE Waitpid_Fails
  BY <1>4 DEF Waitpid_Fails
<1>5. CASE Read_Status
  BY <1>5 DEF Read_Status
<1>6. CASE Exec
  BY <1>6 DEF Exec
<1>7. CASE Store_Errno
  BY <1>7 DEF Store_Errno
<1>8. CASE Child_Exits
  BY <1>8 DEF Child_Exits, Dies
<1>9. CASE Killed
  BY <1>9 DEF Killed, Dies
<1> QED
  BY <1>1, <1>2, <1>3, <1>4, <1>5, <1>6, <1>7, <1>8, <1>9 DEF Parent_Step, Child_Step

\* The steps of main.
LEMMA MainSteps ==
  ASSUME IInv, Main_Step
  PROVE  IInv'
<1> USE DEF IInv, TypeOK, Phase, File, At_Phase, Exits, Goes_To, Reports, Fatal, Quiet
<1>a. ASSUME UNCHANGED runVars
      PROVE  TypeOK_Run' /\ Run_Inv'
  BY <1>a DEF runVars, TypeOK_Run, Run_Inv, SuccessMeansRan, ExitCodeIsPrograms
<1>1. CASE Front_End
  BY <1>1, <1>a DEF Front_End, Fresh_Inv
<1>2. CASE Middle_End
  <2>1. TypeOK_Run' /\ Run_Inv'
    BY <1>2, <1>a DEF Middle_End
  <2>2. CASE Exits(1) /\ Quiet
    BY <1>2, <2>1, <2>2 DEF Middle_End, Fresh_Inv
  <2>3. CASE Fatal
    BY <1>2, <2>1, <2>3 DEF Middle_End, Fresh_Inv
  <2>4. CASE Goes_To("checked") /\ Quiet
    BY <1>2, <2>1, <2>4 DEF Middle_End, Fresh_Inv
  <2> QED
    BY <1>2, <2>2, <2>3, <2>4 DEF Middle_End
<1>3. CASE Generate
  BY <1>3, <1>a DEF Generate, Fresh_Inv, Of_This_Build
<1>4. CASE Start_Nasm
  BY <1>4, CallStep DEF Start_Nasm, Fresh_Inv, Call_Run, Ran_Well
<1>8. CASE Draw_Graph
  <2>1. TypeOK_Run' /\ Run_Inv'
    BY <1>8, <1>a DEF Draw_Graph
  <2>2. CASE (Exits(1) \/ Goes_To("drawn") \/ Goes_To("endless")) /\ Quiet
    BY <1>8, <2>1, <2>2 DEF Draw_Graph, Fresh_Inv
  <2>3. CASE Fatal
    BY <1>8, <2>1, <2>3 DEF Draw_Graph, Fresh_Inv
  <2> QED
    BY <1>8, <2>2, <2>3 DEF Draw_Graph
<1>5. CASE Start_Ld
  <2>1. CASE result # <<"ok", 0>> /\ Fatal /\ UNCHANGED runVars
    BY <1>5, <2>1, <1>a DEF Start_Ld, Fresh_Inv
  <2>2. CASE result = <<"ok", 0>> /\ Goes_To("ld") /\ Quiet /\ Call_Run
    <3>1. Ran_Well
      BY <2>2 DEF Run_Inv, SuccessMeansRan, Ran_Well
    <3>2. ~reported' => obj' \in Of_This_Build
      BY <3>1, <1>5, <2>2 DEF Start_Ld, Fresh_Inv
    <3> QED
      BY <3>2, <1>5, <2>2, CallStep DEF Start_Ld, Fresh_Inv, Call_Run, Ran_Well
  <2> QED
    BY <1>5, <2>1, <2>2 DEF Start_Ld
<1>6. CASE Linked
  <2>1. result = <<"ok", 0>> => Ran_Well
    BY DEF Run_Inv, SuccessMeansRan, Ran_Well
  <2>2. TypeOK_Run' /\ Run_Inv'
    BY <1>6, <1>a DEF Linked
  <2>3. CASE result = <<"ok", 0>> /\ Goes_To("linked") /\ Quiet
    <3>1. ~reported => exe \in Of_This_Build
      BY <1>6, <2>1, <2>3 DEF Linked, Fresh_Inv
    <3> QED
      BY <1>6, <2>2, <2>3, <3>1 DEF Linked, Fresh_Inv
  <2>4. CASE Fatal
    BY <1>6, <2>2, <2>4 DEF Linked, Fresh_Inv
  <2> QED
    BY <1>6, <2>3, <2>4 DEF Linked
<1>7. CASE Finish
  BY <1>7, <1>a DEF Finish, Fresh_Inv
<1> QED
  BY <1>1, <1>2, <1>3, <1>4, <1>5, <1>6, <1>7, <1>8 DEF Main_Step

\* nasm or ld comes to its end.
LEMMA ToolStep ==
  ASSUME IInv, Tool_Exits
  PROVE  IInv'
<1>1. PICK code \in Codes :
        /\ Program_Exits(code)
        /\ code = 0 => (IF phase = "nasm" THEN asm ELSE obj) # "none"
        /\ obj' = IF phase = "nasm" /\ code = 0 THEN asm ELSE obj
        /\ exe' = IF phase = "ld" /\ code = 0 THEN obj ELSE exe
        /\ UNCHANGED <<phase, Compilation_Failed, reported, run_mode, asm, exit_code>>
  BY DEF Tool_Exits
<1>2. TypeOK_Run' /\ Run_Inv'
  BY <1>1, ProgramStep DEF IInv, TypeOK
<1>3. TypeOK'
  BY <1>1, <1>2 DEF IInv, TypeOK, Phase, File
<1>4. Fresh_Inv'
  BY <1>1 DEF IInv, Fresh_Inv, Ran_Well, Run_Inv, Program_Exits, Dies
<1> QED
  BY <1>2, <1>3, <1>4 DEF IInv

\* Every step of the driver preserves the inductive invariant.
LEMMA NextIInv == IInv /\ [Next]_vars => IInv'
<1> SUFFICES ASSUME IInv, [Next]_vars PROVE IInv'
  OBVIOUS
<1>1. CASE Main_Step
  BY <1>1, MainSteps
<1>2. CASE (Parent_Step \/ Child_Step) /\ UNCHANGED mainVars
  BY <1>2, RunSteps, FreshUnderRun DEF IInv, TypeOK, mainVars
<1>3. CASE Tool_Exits
  BY <1>3, ToolStep
<1>4. CASE UNCHANGED vars
  BY <1>4 DEF vars, runVars, mainVars, IInv, TypeOK, TypeOK_Run, Run_Inv, Fresh_Inv, Ran_Well,
     SuccessMeansRan, ExitCodeIsPrograms
<1> QED
  BY <1>1, <1>2, <1>3, <1>4 DEF Next

\* main, run and the child keep the invariant.
THEOREM Invariance == Spec => []IInv
<1>1. Init => IInv
  BY InitIInv
<1>2. IInv /\ [Next]_vars => IInv'
  BY NextIInv
<1> QED
  BY <1>1, <1>2, PTL DEF Spec

\* os_exec::run reports success only for a program that was executed and has
\* ended with exit code 0.
THEOREM SuccessMeansRanHolds == Spec => []SuccessMeansRan
<1>1. IInv => SuccessMeansRan
  BY DEF IInv, Run_Inv
<1> QED
  BY <1>1, Invariance, PTL

\* An exit code that os_exec::run reports is the program's own.
THEOREM ExitCodeIsProgramsHolds == Spec => []ExitCodeIsPrograms
<1>1. IInv => ExitCodeIsPrograms
  BY DEF IInv, Run_Inv
<1> QED
  BY <1>1, Invariance, PTL

\* os_exec::run has waited for its child when it returns.
THEOREM NoChildLeftHolds == Spec => []NoChildLeft
<1>1. IInv => NoChildLeft
  BY DEF IInv, Run_Inv, NoChildLeft
<1> QED
  BY <1>1, Invariance, PTL

\* A build that reports no error and ends well, or runs its program, has an
\* executable made from the assembly it has written itself.
THEOREM FreshExecutableHolds == Spec => []FreshExecutable
<1>1. IInv => FreshExecutable
  BY DEF IInv, Fresh_Inv, FreshExecutable, Of_This_Build
<1> QED
  BY <1>1, Invariance, PTL

\* main and run stay within their types.
THEOREM TypeCorrect == Spec => []TypeOK
<1>1. IInv => TypeOK
  BY DEF IInv
<1> QED
  BY <1>1, Invariance, PTL
=============================================================================
