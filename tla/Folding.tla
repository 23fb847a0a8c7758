------------------------------ MODULE Folding ------------------------------
(***************************************************************************)
(* optimizer::constant_folding: one call walks a body, runs the integers   *)
(* and the intrinsics that follow them on a stack of its own, and replaces *)
(* the first stretch that this makes different by pushes of the result,    *)
(* moving the jumps behind it.                                             *)
(***************************************************************************)
EXTENDS Machine

CONSTANT Nullopt  \* foldable_start before an integer is met

VARIABLES
  given,           \* the body the pass was called with
  body,            \* function_body
  i,               \* the loop variable
  foldable_start,  \* where the stretch begins
  stack,           \* the words the stretch leaves
  negative,        \* history: the stack has held a word with the top bit set
  outcome          \* "running", "unchanged" or "folded" once it has returned
                   \* false or true, "crashed" by a division

\* The intrinsics that are folded, and how many words they need.
Math == Emitted_Math \ {"Min", "Max"}
Foldable(name) == name \in Math \cup {"Min", "Max"} \cup Shuffles
Needs(name) == IF name \in {"Drop", "Dup"} THEN 1 ELSE IF name = "Rot" THEN 3 ELSE 2

-----------------------------------------------------------------------------
(* The stack of the pass holds int64_t: a is its top, b the word below.     *)

\* Division truncates towards zero; the remainder has the sign of b.
Magnitude(n) == IF n < 0 THEN 0 - n ELSE n
Quotient(b, a) ==
  LET q == Magnitude(b) \div Magnitude(a) IN IF (b < 0) # (a < 0) THEN 0 - q ELSE q
Remainder(b, a) == b - a * Quotient(b, a)

Folded_Math(name, vb, va) ==
  LET b == Signed(vb)
      a == Signed(va)
  IN CASE name = "Add"         -> Wrap(b + a)
       [] name = "Subtract"    -> Wrap(b - a)
       [] name = "Mul"         -> Wrap(b * a)
       [] name = "Bitwise_And" -> vb & va
       [] name = "Bitwise_Or"  -> vb | va
       [] name = "Bitwise_Xor" -> vb ^^ va
       \* the shift instruction the compiler is built with takes the count
       \* modulo the width
       [] name = "Left_Shift"  -> Wrap(b * 2 ^ (va % Width))
       [] name = "Right_Shift" -> Wrap(b \div 2 ^ (va % Width))
       [] name = "Equal"       -> Bool(b = a)
       [] name = "Not_Equal"   -> Bool(b # a)
       [] name = "Greater"     -> Bool(b > a)
       [] name = "Greater_Eq"  -> Bool(b >= a)
       [] name = "Less"        -> Bool(b < a)
       [] name = "Less_Eq"     -> Bool(b <= a)
       [] name = "Max"         -> IF a < b THEN vb ELSE va
       [] name = "Min"         -> IF b < a THEN vb ELSE va
       [] name = "Div"         -> Wrap(Quotient(b, a))
       [] name = "Mod"         -> Wrap(Remainder(b, a))

\* What the processor refuses to divide, in the compiler.
Traps(vb, va) == va = 0 \/ (Signed(va) = -1 /\ Signed(vb) = -(2 ^ (Width - 1)))

\* The stack after an intrinsic; n is its size before.
Folded(name, s) ==
  LET n == Len(s)
  IN CASE name \in Math \cup {"Min", "Max"} ->
            Append(SubSeq(s, 1, n - 2), Folded_Math(name, s[n - 1], s[n]))
       [] name = "Drop"    -> Pop(s)
       [] name = "Dup"     -> Append(s, s[n])
       [] name = "Two_Dup" -> s \o <<s[n - 1], s[n]>>
       [] name = "Over"    -> Append(s, s[n - 1])
       [] name = "Rot"     -> [s EXCEPT ![n - 2] = s[n - 1], ![n - 1] = s[n], ![n] = s[n - 2]]
       [] name = "Swap"    -> [s EXCEPT ![n - 1] = s[n], ![n] = s[n - 1]]
       [] name = "Tuck"    -> SubSeq(s, 1, n - 2) \o <<s[n], s[n - 1], s[n]>>

-----------------------------------------------------------------------------
Running == outcome = "running"

Pushes(s) == <<>> \o [k \in DOMAIN s |-> Op("Push_Int", s[k], Empty_Jump)]

\* The stretch that ends before unhandled is already what it computes.
Stack_The_Same_As_Operations(unhandled) ==
  LET to_optimize == SubSeq(body, foldable_start + 1, unhandled)
  IN /\ Len(to_optimize) = Len(stack)
     /\ \A k \in DOMAIN stack :
          to_optimize[k].kind = "Push_Int" /\ to_optimize[k].val = stack[k]

Nothing_To_Fold(unhandled) ==
  \/ foldable_start = Nullopt
  \/ foldable_start + 1 = unhandled
  \/ Stack_The_Same_As_Operations(unhandled)

\* A plausible slip: a jump to the start of the stretch is moved too.
Replaced_At_Start(unhandled) ==
  LET delta == Len(stack) - (unhandled - foldable_start)
      b == SubSeq(body, 1, foldable_start) \o Pushes(stack)
           \o SubSeq(body, unhandled + 1, Len(body))
  IN <<>> \o [k \in DOMAIN b |->
       IF b[k].jump # Empty_Jump /\ b[k].jump >= foldable_start
       THEN [b[k] EXCEPT !.jump = Unsigned(@ + delta)] ELSE b[k]]

\* The body with the stretch replaced and the jumps behind its start moved.
Replaced(unhandled) ==
  LET delta == Len(stack) - (unhandled - foldable_start)
      b == SubSeq(body, 1, foldable_start) \o Pushes(stack)
           \o SubSeq(body, unhandled + 1, Len(body))
  IN <<>> \o [k \in DOMAIN b |->
       IF b[k].jump # Empty_Jump /\ b[k].jump > foldable_start
       THEN [b[k] EXCEPT !.jump = Unsigned(@ + delta)] ELSE b[k]]

\* finish_constant_folding: Break returns from the pass, Continue forgets the
\* stretch and goes on with the next operation.
Finish(unhandled) ==
  IF Nothing_To_Fold(unhandled)
  THEN /\ foldable_start' = Nullopt
       /\ stack' = <<>>
       /\ i' = i + 1
       /\ UNCHANGED <<given, body, negative, outcome>>
  ELSE /\ body' = Replaced(unhandled)
       /\ outcome' = "folded"
       /\ UNCHANGED <<given, i, foldable_start, stack, negative>>

Top_Bit(s) == \E k \in DOMAIN s : s[k] >= 2 ^ (Width - 1)

Keep_Looking ==
  /\ Running /\ i < Len(body)
  /\ foldable_start = Nullopt /\ At(body, i).kind # "Push_Int"
  /\ i' = i + 1
  /\ UNCHANGED <<given, body, foldable_start, stack, negative, outcome>>

Fold_Integer ==
  /\ Running /\ i < Len(body)
  /\ At(body, i).kind = "Push_Int"
  /\ foldable_start' = IF foldable_start = Nullopt THEN i ELSE foldable_start
  /\ stack' = Append(stack, At(body, i).val)
  /\ negative' = (negative \/ Top_Bit(stack'))
  /\ i' = i + 1
  /\ UNCHANGED <<given, body, outcome>>

In_Stretch == Running /\ i < Len(body) /\ foldable_start # Nullopt
Instr == At(body, i)
Folds_Intrinsic ==
  Instr.kind = "Intrinsic" /\ Foldable(Instr.val) /\ Len(stack) >= Needs(Instr.val)

\* The stack of the pass is deep enough for the intrinsic.
Fold_Intrinsic ==
  /\ In_Stretch /\ Folds_Intrinsic
  /\ IF Instr.val \in {"Div", "Mod"} /\ Traps(stack[Len(stack) - 1], Top(stack))
     THEN outcome' = "crashed" /\ UNCHANGED <<i, stack, negative>>
     ELSE /\ stack' = Folded(Instr.val, stack)
          /\ negative' = (negative \/ Top_Bit(stack'))
          /\ i' = i + 1
          /\ UNCHANGED outcome
  /\ UNCHANGED <<given, body, foldable_start>>

\* Any other operation, or one that needs more words, ends the stretch.
Finish_Stretch ==
  /\ In_Stretch /\ Instr.kind # "Push_Int" /\ ~Folds_Intrinsic
  /\ Finish(i)

\* The end of the body ends the last stretch.
Return_Folding ==
  /\ Running /\ i = Len(body)
  /\ IF Nothing_To_Fold(Len(body))
     THEN outcome' = "unchanged" /\ UNCHANGED body
     ELSE outcome' = "folded" /\ body' = Replaced(Len(body))
  /\ UNCHANGED <<given, i, foldable_start, stack, negative>>

Next == Keep_Looking \/ Fold_Integer \/ Fold_Intrinsic \/ Finish_Stretch \/ Return_Folding
=============================================================================
