-------------------------------- MODULE Types --------------------------------
(***************************************************************************)
(* The types of stack slots, the stack effects of the intrinsics, and how  *)
(* an effect is matched against a typestack (types.cc).                    *)
(***************************************************************************)
EXTENDS Integers, Sequences

\* The kinds of types a program can name, and those that values have.
Type == {"Int", "Bool", "Pointer", "Any"}
Value == Type \ {"Any"}

\* Kind::Variable, by its number: only in the effects of intrinsics.
Variable == {"$1", "$2", "$3", "$4", "$5", "$6"}

\* Type::operator==.  Not transitive: Any is equal to everything.
Same_Type(a, b) == a = "Any" \/ b = "Any" \/ a = b

Same_Stack(s, t) == Len(s) = Len(t) /\ \A n \in 1 .. Len(s) : Same_Type(s[n], t[n])

Effect(in, out) == [input |-> in, output |-> out]

Syscalls == {"Syscall0", "Syscall1", "Syscall2", "Syscall3", "Syscall4",
             "Syscall5", "Syscall6"}

Comparisons == {"Less", "Less_Eq", "Greater", "Greater_Eq", "Equal", "Not_Equal"}

Arithmetic == {"Bitwise_And", "Bitwise_Or", "Bitwise_Xor", "Left_Shift",
               "Right_Shift", "Mul", "Div", "Mod", "Min", "Max"}

Intrinsic_Kind ==
  Arithmetic \cup Comparisons \cup Syscalls
  \cup {"Drop", "Two_Drop", "Add", "Subtract", "Boolean_Negate", "Boolean_And",
        "Boolean_Or", "Div_Mod", "Dup", "Two_Dup", "Over", "Two_Over", "Swap", "Two_Swap",
        "Tuck", "Rot", "Argv", "Argc", "Random32", "Random64", "Load", "Store", "Top", "Call"}

Syscall_Arguments(intr) ==
  CHOOSE n \in 0 .. 6 :
    intr = <<"Syscall0", "Syscall1", "Syscall2", "Syscall3", "Syscall4",
             "Syscall5", "Syscall6">>[n + 1]

\* The effects typecheck tries for an intrinsic, in its order.  Call is not
\* among them: typecheck asserts it away as unimplemented.
Intrinsic_Effects(intr) ==
  LET I == "Int"  B == "Bool"  P == "Pointer"  A == "Any"
  IN CASE intr = "Drop" -> <<Effect(<<A>>, <<>>)>>
       [] intr = "Two_Drop" -> <<Effect(<<A, A>>, <<>>)>>
       [] intr = "Add" ->
            <<Effect(<<P, I>>, <<P>>), Effect(<<I, P>>, <<P>>), Effect(<<I, I>>, <<I>>)>>
       [] intr = "Subtract" ->
            <<Effect(<<P, P>>, <<I>>), Effect(<<P, I>>, <<P>>), Effect(<<I, I>>, <<I>>)>>
       [] intr \in Comparisons ->
            <<Effect(<<P, P>>, <<B>>), Effect(<<I, I>>, <<B>>), Effect(<<B, B>>, <<B>>)>>
       [] intr = "Boolean_Negate" -> <<Effect(<<B>>, <<B>>)>>
       [] intr \in {"Boolean_And", "Boolean_Or"} -> <<Effect(<<B, B>>, <<B>>)>>
       [] intr \in Arithmetic -> <<Effect(<<I, I>>, <<I>>)>>
       [] intr = "Div_Mod" -> <<Effect(<<I, I>>, <<I, I>>)>>
       [] intr = "Dup" -> <<Effect(<<"$1">>, <<"$1", "$1">>)>>
       [] intr = "Two_Dup" -> <<Effect(<<"$1", "$2">>, <<"$1", "$2", "$1", "$2">>)>>
       [] intr = "Over" -> <<Effect(<<"$1", "$2">>, <<"$1", "$2", "$1">>)>>
       [] intr = "Two_Over" ->
            <<Effect(<<"$1", "$2", "$3", "$4">>,
                     <<"$1", "$2", "$3", "$4", "$1", "$2">>)>>
       [] intr = "Swap" -> <<Effect(<<"$1", "$2">>, <<"$2", "$1">>)>>
       [] intr = "Two_Swap" ->
            <<Effect(<<"$1", "$2", "$3", "$4">>, <<"$3", "$4", "$1", "$2">>)>>
       [] intr = "Tuck" -> <<Effect(<<"$1", "$2">>, <<"$2", "$1", "$2">>)>>
       [] intr = "Rot" -> <<Effect(<<"$1", "$2", "$3">>, <<"$2", "$3", "$1">>)>>
       [] intr = "Argv" -> <<Effect(<<>>, <<P>>)>>
       [] intr \in {"Argc", "Random32", "Random64"} -> <<Effect(<<>>, <<I>>)>>
       [] intr = "Load" -> <<Effect(<<P>>, <<I>>)>>
       [] intr = "Store" -> <<Effect(<<P, A>>, <<>>)>>
       [] intr = "Top" -> <<Effect(<<"$1">>, <<"$1", P>>)>>
       [] intr \in Syscalls ->
            <<Effect(SubSeq(<<"$1", "$2", "$3", "$4", "$5", "$6">>, 1,
                            Syscall_Arguments(intr)) \o <<I>>, <<I>>)>>

-----------------------------------------------------------------------------
(* typecheck_stack_effects *)

\* The arguments of an effect, bottom first.
Arguments(stack, effect) ==
  SubSeq(stack, Len(stack) - Len(effect.input) + 1, Len(stack))

\* What generics binds a variable to: the comparison goes from the top of the
\* stack down, and the first occurrence binds.
Bound(stack, effect, var) ==
  LET Uses == {n \in 1 .. Len(effect.input) : effect.input[n] = var}
  IN Arguments(stack, effect)[CHOOSE n \in Uses : \A m \in Uses : m <= n]

Matches(stack, effect) ==
  /\ Len(stack) >= Len(effect.input)
  /\ \A n \in 1 .. Len(effect.input) :
       LET type == effect.input[n]
       IN Same_Type(Arguments(stack, effect)[n],
                    IF type \in Variable THEN Bound(stack, effect, type) ELSE type)

\* The stack after the effect: erase the arguments, append the outputs.
Apply(stack, effect) ==
  SubSeq(stack, 1, Len(stack) - Len(effect.input))
  \o [n \in 1 .. Len(effect.output) |->
        IF effect.output[n] \in Variable THEN Bound(stack, effect, effect.output[n])
        ELSE effect.output[n]]

Has_Match(stack, effects) ==
  \E effect \in {effects[n] : n \in 1 .. Len(effects)} : Matches(stack, effect)

\* The first effect that matches decides.
First_Match(stack, effects) ==
  LET Matching == {n \in 1 .. Len(effects) : Matches(stack, effects[n])}
  IN {effects[n] : n \in {n \in Matching : \A m \in Matching : n <= m}}
Apply_First(stack, effects) ==
  CHOOSE t \in {Apply(stack, effect) : effect \in First_Match(stack, effects)} : TRUE

\* How the process ends when no effect matches.  Too few arguments, or a
\* single effect: exit(1) with a message.  Several effects: the message is
\* made by join, whose loop runs off the end of the effect's types.
Mismatch_Outcomes(stack, effects) ==
  IF Len(effects) > 1 /\ \E n \in 1 .. Len(effects) : Len(stack) >= Len(effects[n].input)
  THEN {"rejected", "crashed"}
  ELSE {"rejected"}
=============================================================================
