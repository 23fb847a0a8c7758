------------------------------ MODULE Machine ------------------------------
(***************************************************************************)
(* What the code generated for a body computes: the instructions of        *)
(* linux-x86_64.cc on a stack of machine words, kept Width bits wide.  A   *)
(* call of another word is opaque: it is seen with the stack it finds.     *)
(* The word random32 pushes is taken from a given sequence, so that two    *)
(* bodies can be run against the same surroundings and compared.           *)
(***************************************************************************)
EXTENDS Operations, Bitwise

CONSTANT Width  \* bits of a machine word, a power of two

ASSUME WidthAssumption == Width \in {1, 2, 4, 8, 16}

Wrap(n) == n % 2 ^ Width

\* The word read as two's complement.
Signed(w) == IF w < 2 ^ (Width - 1) THEN w ELSE w - 2 ^ Width

\* A jump is unsigned.
Unsigned(n) == n % (Empty_Jump + 1)

Bool(p) == IF p THEN 1 ELSE 0

\* An operation of a body: val is the integer pushed, the word called or the
\* name of the intrinsic.
Op(kind, val, jump) == [kind |-> kind, val |-> val, jump |-> jump]

-----------------------------------------------------------------------------
(* emit_intrinsic.  The first operand is popped to rbx, the second, below   *)
(* it, to rax or rcx.                                                       *)

Emitted_Math ==
  {"Add", "Subtract", "Mul", "Bitwise_And", "Bitwise_Or", "Bitwise_Xor", "Left_Shift",
   "Right_Shift", "Min", "Max", "Equal", "Not_Equal", "Greater", "Greater_Eq", "Less",
   "Less_Eq", "Div", "Mod"}

\* `div` and the comparisons (seta, setb, cmova, cmovb) are unsigned, sar is
\* signed, and a shift takes the count modulo the width of the register.
Emitted(name, rax, rbx) ==
  CASE name = "Add"         -> Wrap(rax + rbx)
    [] name = "Subtract"    -> Wrap(rax - rbx)
    [] name = "Mul"         -> Wrap(rax * rbx)
    [] name = "Bitwise_And" -> rax & rbx
    [] name = "Bitwise_Or"  -> rax | rbx
    [] name = "Bitwise_Xor" -> rax ^^ rbx
    [] name = "Left_Shift"  -> Wrap(rax * 2 ^ (rbx % Width))
    [] name = "Right_Shift" -> Wrap(Signed(rax) \div 2 ^ (rbx % Width))
    [] name = "Min"         -> IF rax > rbx THEN rbx ELSE rax
    [] name = "Max"         -> IF rax < rbx THEN rbx ELSE rax
    [] name = "Equal"       -> Bool(rax = rbx)
    [] name = "Not_Equal"   -> Bool(rax # rbx)
    [] name = "Greater"     -> Bool(rax > rbx)
    [] name = "Greater_Eq"  -> Bool(rax >= rbx)
    [] name = "Less"        -> Bool(rax < rbx)
    [] name = "Less_Eq"     -> Bool(rax <= rbx)
    [] name = "Div"         -> rax \div rbx
    [] name = "Mod"         -> rax % rbx

\* The words a stack operation rearranges, and what it leaves in their place,
\* the top of the stack last.
Emitted_Shuffle(name, w) ==
  CASE name = "Drop"    -> <<>>
    [] name = "Dup"     -> <<w[1], w[1]>>
    [] name = "Two_Dup" -> <<w[1], w[2], w[1], w[2]>>
    [] name = "Over"    -> <<w[1], w[2], w[1]>>
    [] name = "Tuck"    -> <<w[2], w[1], w[2]>>
    [] name = "Rot"     -> <<w[2], w[3], w[1]>>
    [] name = "Swap"    -> <<w[2], w[1]>>

Shuffle_Size(name) ==
  CASE name \in {"Drop", "Dup"} -> 1
    [] name = "Rot" -> 3
    [] OTHER -> 2

Shuffles == {"Drop", "Dup", "Two_Dup", "Over", "Tuck", "Rot", "Swap"}

Arity(name) ==
  IF name \in Emitted_Math THEN 2 ELSE IF name \in Shuffles THEN Shuffle_Size(name) ELSE 0

-----------------------------------------------------------------------------
(* generate_instructions, run.  A state of the machine is where it is, its  *)
(* stack, the calls seen so far and the words random32 has still to give.   *)

\* One operation other than the jumps, given that the stack is deep enough.
Straight(op, m) ==
  LET n == Len(m.stack)
      rest == SubSeq(m.stack, 1, n - Arity(op.val))
      taken == SubSeq(m.stack, n - Arity(op.val) + 1, n)
  IN CASE op.kind = "Push_Int" -> [m EXCEPT !.stack = Append(@, op.val)]
       [] op.kind = "Call_Symbol" -> [m EXCEPT !.seen = Append(@, <<op.val, m.stack>>)]
       [] op.kind = "Intrinsic" /\ op.val = "Random32" ->
            [m EXCEPT !.stack = Append(@, IF m.random = <<>> THEN 0 ELSE Head(m.random)),
                      !.random = IF @ = <<>> THEN @ ELSE Tail(@)]
       [] op.kind = "Intrinsic" /\ op.val \in Emitted_Math ->
            [m EXCEPT !.stack = Append(rest, Emitted(op.val, taken[1], taken[2]))]
       [] op.kind = "Intrinsic" /\ op.val \in Shuffles ->
            [m EXCEPT !.stack = rest \o Emitted_Shuffle(op.val, taken)]
       [] OTHER -> m

\* The operation control goes to after op: If and Do pop their condition.
Target(body, op, m) ==
  CASE op.kind = "Return" -> Len(body)
    [] op.kind \in {"End", "Else"} -> op.jump
    [] op.kind \in {"If", "Do"} -> IF Top(m.stack) = 0 THEN op.jump ELSE m.ip + 1
    [] OTHER -> m.ip + 1

\* One operation.  A jump to a label the body does not have is refused by the
\* assembler, dividing by zero traps, and after `calls` calls nobody watches.
Step(body, m, calls) ==
  LET op == At(body, m.ip)
      pops == IF op.kind \in {"If", "Do"} THEN 1
              ELSE IF op.kind = "Intrinsic" THEN Arity(op.val) ELSE 0
      Divides == op.kind = "Intrinsic" /\ op.val \in {"Div", "Mod"}
      how == CASE m.ip > Len(body) -> "no label"
               [] m.ip = Len(body) -> "end"
               [] m.ip < Len(body) ->
                    IF pops > Len(m.stack) THEN "underflow"
                    ELSE IF Divides /\ Top(m.stack) = 0 THEN "trap"
                    ELSE IF op.kind = "Call_Symbol" /\ Len(m.seen) = calls THEN "watched"
                    ELSE "runs"
      after == IF op.kind \in {"If", "Do"} THEN [m EXCEPT !.stack = Pop(@)]
               ELSE Straight(op, m)
  IN IF how = "runs" THEN [after EXCEPT !.ip = Target(body, op, m)] ELSE [m EXCEPT !.how = how]

Start(random) == [how |-> "runs", ip |-> 0, stack |-> <<>>, seen |-> <<>>, random |-> random]

\* At most 2 ^ n operations.
RECURSIVE Exec(_, _, _, _)
Exec(body, m, calls, n) ==
  IF m.how # "runs" THEN m
  ELSE IF n = 0 THEN Step(body, m, calls)
  ELSE Exec(body, Exec(body, m, calls, n - 1), calls, n - 1)

\* A body that still runs after 2 ^ fuel operations, with fewer than `calls`
\* calls, goes on in silence.
Meaning(body, random, calls, fuel) == Exec(body, Start(random), calls, fuel)

\* What can be seen of two runs is the same.
Same(m, n) == m.how = n.how /\ m.seen = n.seen /\ (m.how = "end" => m.stack = n.stack)

Same_Meaning(a, b, randoms, calls, fuel) ==
  \A r \in randoms : Same(Meaning(a, r, calls, fuel), Meaning(b, r, calls, fuel))

\* A body with the jumps crossreference gives it, from its kinds and values.
Linked(code) ==
  LET kinds == <<>> \o [k \in DOMAIN code |-> code[k][1]]
  IN <<>> \o [k \in DOMAIN code |-> Op(code[k][1], code[k][2], Block_Jump(kinds, k - 1))]
=============================================================================
