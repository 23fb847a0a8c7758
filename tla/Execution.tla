------------------------------ MODULE Execution ------------------------------
(***************************************************************************)
(* The generated code (linux-x86_64.cc) of a program that the typechecker  *)
(* has accepted, for its bodies as they are before the optimizer.  A value *)
(* on the data stack is abstracted to the kind of value it is; a condition *)
(* may turn out either way.  What an intrinsic pops and pushes is taken    *)
(* from the instructions emitted for it, not from the effects the          *)
(* typechecker assumes.                                                    *)
(*                                                                         *)
(* `top` pushes an address of the data stack, and arithmetic and casts     *)
(* make addresses of anything: a store, and the kernel in a syscall, may   *)
(* write to any slot that is left.  Writes to other memory (the code, the  *)
(* call stack, the arrays) are outside of the model.                       *)
(***************************************************************************)
EXTENDS Typecheck

CONSTANT Max_Calls  \* calls in progress that are followed

ASSUME MaxCallsAssumption == Max_Calls \in Nat

VARIABLES
  machine,  \* "idle", "running", or "halted" by the exit syscall
  data,     \* the data stack (rsp), bottom first
  calls,    \* calls in progress: the word, the operation reached, and the
            \* data stack found on entry
  written   \* history: the slots of the data stack, counted from the bottom,
            \* that have been written through an address

machineVars == <<machine, data, calls, written>>
vars == <<prog, pending, frames, status, machine, data, calls, written>>

Call_Frame(word, ip, found) == [word |-> word, ip |-> ip, found |-> found]

Init ==
  /\ Init_Checker
  /\ machine = "idle"
  /\ data = <<>>
  /\ calls = <<>>
  /\ written = {}

-----------------------------------------------------------------------------
(* emit_intrinsic *)

\* How many slots the instructions for an intrinsic read, and what they leave
\* in their place: n stands for the n-th slot read, bottom first, and 0 for a
\* computed value.
Emitted(intr) ==
  LET Code(reads, leaves) == [reads |-> reads, leaves |-> leaves]
  IN CASE intr \in {"Argc", "Argv", "Random32", "Random64", "Top"} -> Code(0, <<0>>)
       [] intr \in Arithmetic \cup Comparisons
                   \cup {"Add", "Subtract", "Boolean_Or", "Boolean_And"} -> Code(2, <<0>>)
       [] intr = "Div_Mod" -> Code(2, <<0, 0>>)
       [] intr \in {"Boolean_Negate", "Load"} -> Code(1, <<0>>)
       [] intr = "Drop" -> Code(1, <<>>)
       [] intr \in {"Two_Drop", "Store"} -> Code(2, <<>>)
       [] intr = "Dup" -> Code(1, <<1, 1>>)
       [] intr = "Two_Dup" -> Code(2, <<1, 2, 1, 2>>)
       [] intr = "Over" -> Code(2, <<1, 2, 1>>)
       [] intr = "Two_Over" -> Code(4, <<1, 2, 3, 4, 1, 2>>)
       [] intr = "Tuck" -> Code(2, <<2, 1, 2>>)
       [] intr = "Rot" -> Code(3, <<2, 3, 1>>)
       [] intr = "Swap" -> Code(2, <<2, 1>>)
       [] intr = "Two_Swap" -> Code(4, <<3, 4, 1, 2>>)
       [] intr \in Syscalls -> Code(Syscall_Arguments(intr) + 1, <<0>>)

\* The kind of value an intrinsic computes from these operands: a setcc
\* leaves 0 or 1, an address moved by a number is an address, and the
\* distance of two addresses is a number.
Computed(intr, args) ==
  CASE intr \in Comparisons \cup {"Boolean_Negate", "Boolean_And", "Boolean_Or"} -> "Bool"
    [] intr \in {"Argv", "Top"} -> "Pointer"
    [] intr = "Add" ->
         IF \E n \in 1 .. 2 : args[n] = "Pointer" THEN "Pointer" ELSE "Int"
    [] intr = "Subtract" ->
         IF args[1] = "Pointer" /\ args[2] # "Pointer" THEN "Pointer" ELSE "Int"
    [] OTHER -> "Int"

\* A plausible slip: the code of a syscall pops one register too many.
Run_Intrinsic_Overpops(intr, stack) ==
  LET code == Emitted(intr)
      args == SubSeq(stack, Len(stack) - code.reads + 1, Len(stack))
      extra == IF intr \in Syscalls THEN 1 ELSE 0
  IN SubSeq(stack, 1, Len(stack) - code.reads - extra)
     \o [n \in 1 .. Len(code.leaves) |->
           IF code.leaves[n] = 0 THEN Computed(intr, args) ELSE args[code.leaves[n]]]

Run_Intrinsic(intr, stack) ==
  LET code == Emitted(intr)
      args == SubSeq(stack, Len(stack) - code.reads + 1, Len(stack))
  IN SubSeq(stack, 1, Len(stack) - code.reads)
     \o [n \in 1 .. Len(code.leaves) |->
           IF code.leaves[n] = 0 THEN Computed(intr, args) ELSE args[code.leaves[n]]]

\* The slots that an intrinsic may write through an address, of the `left`
\* ones below its operands: a store writes at most eight bytes, in one slot or
\* in two neighbours, and the kernel where and how much it is told to.
Writable(intr, left) ==
  CASE intr = "Store" -> {hit \in SUBSET (1 .. left) : \A j, k \in hit : k - j <= 1}
    [] intr \in Syscalls -> SUBSET (1 .. left)
    [] OTHER -> {{}}

\* What was written may be taken for anything.
Overwrite(stack, new) ==
  [k \in 1 .. Len(stack) |-> IF k \in DOMAIN new THEN new[k] ELSE stack[k]]

-----------------------------------------------------------------------------
(* generate_instructions *)

Active == Top(calls)
Code_Of == Body(Active.word)
Instr == At(Code_Of, Active.ip)
Finished == IF Active.ip = Len(Code_Of) THEN TRUE ELSE Instr.kind = "Return"

Execute(kinds) ==
  /\ machine = "running" /\ ~Finished
  /\ Instr.kind \in kinds

Move(ip) ==
  /\ calls' = [calls EXCEPT ![Len(calls)].ip = ip]
  /\ UNCHANGED <<machine, checkerVars>>

Start ==
  /\ status = "accepted" /\ machine = "idle"
  /\ machine' = "running"
  /\ calls' = <<Call_Frame("main", 0, <<>>)>>
  /\ UNCHANGED <<data, written, checkerVars>>

Run_Push ==
  /\ Execute({"Push_Int", "Push_Symbol"})
  /\ data' = Append(data, IF Instr.kind = "Push_Int" THEN Instr.arg ELSE "Pointer")
  /\ Move(Active.ip + 1) /\ UNCHANGED written

\* No instruction: only what the value is taken for changes.
Run_Cast ==
  /\ Execute({"Cast"})
  /\ data' = IF Instr.arg = "Any" THEN data ELSE Append(Pop(data), Instr.arg)
  /\ Move(Active.ip + 1) /\ UNCHANGED written

Run_Intrinsic_Code ==
  /\ Execute({"Intrinsic"})
  /\ \E hit \in Writable(Instr.arg, Len(data) - Emitted(Instr.arg).reads) :
       /\ \E new \in [hit -> Value] : data' = Overwrite(Run_Intrinsic(Instr.arg, data), new)
       /\ written' = written \cup hit
  /\ Move(Active.ip + 1)

\* pop; jz to the jump.
Run_Branch ==
  /\ Execute({"If", "Do"})
  /\ data' = Pop(data)
  /\ Move(Active.ip + 1) \/ Move(Instr.jump)
  /\ UNCHANGED written

Run_Jump == Execute({"Else", "End"}) /\ Move(Instr.jump) /\ UNCHANGED <<data, written>>

Run_While == Execute({"While"}) /\ Move(Active.ip + 1) /\ UNCHANGED <<data, written>>

\* call: the return address goes to the call stack (see CallStack).
Run_Call ==
  /\ Execute({"Call_Symbol"})
  /\ Len(calls) < Max_Calls
  /\ calls' = Append([calls EXCEPT ![Len(calls)].ip = @ + 1],
                     Call_Frame(Instr.arg, 0, data))
  /\ UNCHANGED <<data, machine, written, checkerVars>>

Run_Return ==
  /\ machine = "running" /\ Finished /\ Len(calls) > 1
  /\ calls' = Pop(calls)
  /\ UNCHANGED <<data, machine, written, checkerVars>>

Exit ==
  /\ machine = "running" /\ Finished /\ Len(calls) = 1
  /\ machine' = "halted"
  /\ UNCHANGED <<data, calls, written, checkerVars>>

Run ==
  \/ Start \/ Run_Push \/ Run_Cast \/ Run_Intrinsic_Code \/ Run_Branch
  \/ Run_Jump \/ Run_While \/ Run_Call \/ Run_Return \/ Exit

Next == (Check /\ UNCHANGED machineVars) \/ Run

Spec == Init /\ [][Next]_vars /\ WF_vars(Check /\ UNCHANGED machineVars)

-----------------------------------------------------------------------------
(* Properties *)

\* Slots of the data stack that the code of an operation reads.
Reads(op) ==
  CASE op.kind = "Intrinsic" -> Emitted(op.arg).reads
    [] op.kind \in {"If", "Do"} -> 1
    [] OTHER -> 0

At_Operation == machine = "running" /\ ~Finished

\* Code of an accepted program never pops what is not on the data stack,
\* whatever way its conditions turn out and however its functions nest.
NoUnderflow == At_Operation => Len(data) >= Reads(Instr)

\* The program never says `any`, which switches the comparison of types off.
No_Any ==
  /\ \A w \in DOMAIN prog.words \cup {"main"} :
       \A n \in 1 .. Len(Body(w)) : Body(w)[n].arg # "Any"
  /\ \A w \in Checked_Words(prog) :
       \A n \in 1 .. Len(prog.words[w].effect.input) : prog.words[w].effect.input[n] # "Any"
  /\ \A w \in Checked_Words(prog) :
       \A n \in 1 .. Len(prog.words[w].effect.output) : prog.words[w].effect.output[n] # "Any"

\* Without `any`, and as long as nothing was written into the data stack
\* through an address, an intrinsic of an accepted program only ever works on
\* values of the kinds one of its effects names, and a branch on a bool: what
\* the walk inferred holds on every run.
OperandsAsTyped ==
  At_Operation /\ No_Any /\ written = {} =>
    /\ Instr.kind = "Intrinsic" => Has_Match(data, Intrinsic_Effects(Instr.arg))
    /\ Instr.kind \in {"If", "Do"} => data # <<>> /\ Top(data) = "Bool"

\* The declared effect of a call in progress; main's is empty.
Declared(call) ==
  IF call.word = "main" THEN Effect(<<>>, <<>>) ELSE prog.words[call.word].effect

\* How many slots a call has found below its inputs.
Kept(call) == Len(call.found) - Len(Declared(call).input)

\* A word with a stack effect leaves exactly its outputs in place of its
\* inputs, by whatever path it returns, and main ends on an empty stack: as
\* many values in any case, and values of the kinds it declares without `any`
\* and without a write through an address.
EffectsHonoured ==
  machine = "running" /\ Finished /\ Active.word \in Checked_Words(prog) \cup {"main"} =>
    LET output == Declared(Active).output
    IN /\ Len(data) = Kept(Active) + Len(output)
       /\ No_Any /\ written = {} => SubSeq(data, Kept(Active) + 1, Len(data)) = output

\* While a word with a stack effect runs, also through the calls it makes, no
\* instruction reads or pops what its caller had below the inputs, and every
\* slot there stays as it was, unless it has been written through an address.
CallersDataKept ==
  \A n \in 1 .. Len(calls) :
    calls[n].word \in Checked_Words(prog) =>
      /\ Kept(calls[n]) <= Len(data)
      /\ At_Operation => Kept(calls[n]) + Reads(Instr) <= Len(data)
      /\ \A k \in 1 .. Kept(calls[n]) : k \in written \/ data[k] = calls[n].found[k]

\* The typechecker comes to a verdict on every program: each `do` is walked
\* through once per call of typecheck, and each path ends.
CheckerTerminates == <>(status # "checking")
=============================================================================
