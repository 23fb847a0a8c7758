----------------------------- MODULE Conditions -----------------------------
(***************************************************************************)
(* optimizer::optimize_comptime_known_conditions: wherever an integer is   *)
(* pushed right before an `if` or a `do`, the branch it decides is kept,   *)
(* the other is erased, and the jumps of the body are shifted.             *)
(*                                                                         *)
(* Jumps and operation numbers are unsigned, so they wrap below zero       *)
(* (Unsigned).  Reading or erasing outside the vector is undefined: the    *)
(* pass then ends with the outcome "undefined".                            *)
(***************************************************************************)
EXTENDS Machine

VARIABLES
  given,           \* the body the pass was called with
  body,            \* function_body
  branch_op,       \* the loop variable
  done_something,  \* the result
  misread,         \* history: a block that the pass gets wrong was rewritten
  outcome          \* "running", "returned", "assert" or "undefined"

\* vector::erase of the operations from..to - 1.
Erase(b, from, to) == SubSeq(b, 1, from) \o SubSeq(b, to + 1, Len(b))

\* remap: every jump in start..end is moved back.
Remap(b, start, end, amount) ==
  <<>> \o [k \in DOMAIN b |->
    IF start <= b[k].jump /\ b[k].jump <= end
    THEN [b[k] EXCEPT !.jump = Unsigned(@ - amount)] ELSE b[k]]

\* An operation whose condition is an integer.
Known(b, n) ==
  /\ n < Len(b)
  /\ At(b, n - 1).kind = "Push_Int"
  /\ At(b, n).kind \in {"Do", "If"}

Jump(b, n) == At(b, n).jump
Before_Jump(b, n) == Unsigned(Jump(b, n) - 1)

-----------------------------------------------------------------------------
(* `do`.                                                                    *)

\* The search for the `while`: backwards, to the nearest `while` or to an
\* operation that jumps here.
While_Ops(b, n) ==
  {w \in 0 .. n - 2 : w < Len(b) /\ (At(b, w).kind = "While" \/ At(b, w).jump = n)}
While_Op(b, n) == CHOOSE w \in While_Ops(b, n) : \A v \in While_Ops(b, n) : v <= w

\* The condition always holds: what follows the loop is erased, then the
\* condition and the `do`.
Infinite_Loop(b, n) ==
  Remap(Erase(SubSeq(b, 1, Jump(b, n)), n - 1, n + 1), n + 1, Before_Jump(b, n), 3)

\* The condition never holds: from the condition to the `end` nothing stays.
Never_Loop(b, n) ==
  Remap(Erase(b, n - 1, Jump(b, n)), Before_Jump(b, n), Empty_Jump,
        Unsigned(Before_Jump(b, n) - n + 3))

\* What is left when the `while` is removed too.
Drop_While(b, n, never) ==
  LET w == While_Op(b, n) IN
  IF never THEN Remap(Erase(b, w, w + 1), w, n, 1) ELSE Erase(b, w, w + 1)

-----------------------------------------------------------------------------
(* `if`.                                                                    *)

\* A plausible slip: the `else` is taken to jump to the operation before the
\* `end`.
Before_End_Late(b, n) ==
  LET e == Before_Jump(b, n) IN IF At(b, e).kind = "Else" THEN Jump(b, e) ELSE e

\* end, in the source: the operation before the one its `else` jumps to.
Before_End(b, n) ==
  LET e == Before_Jump(b, n)
  IN IF At(b, e).kind = "Else" THEN Before_Jump(b, e) ELSE e

\* The condition holds: the else-branch is erased with its `else` and `end`,
\* or one operation when there is none, and then the condition and the `if`.
Without_Else(b, n) ==
  LET else_op == Before_Jump(b, n)
      end == Before_End(b, n)
  IN IF end # else_op
     THEN Remap(Erase(b, else_op, end + 2), end, Empty_Jump, Unsigned(end - else_op + 1))
     ELSE Remap(Erase(b, else_op, else_op + 1), end, Empty_Jump, 1)

Then_Kept(b, n) ==
  Erase(Remap(Without_Else(b, n), n, Before_Jump(b, n), 2), n - 1, n + 1)

\* The condition fails: the `end` goes if there is an else-branch, and
\* everything from the condition to the `else`.
Else_Kept(b, n) ==
  LET else_op == Before_Jump(b, n)
      end == Before_End(b, n)
      without_end == IF end # else_op THEN Erase(b, end + 1, end + 2) ELSE b
  IN Remap(Erase(without_end, n - 1, else_op + 1), else_op, Empty_Jump,
           IF end # else_op THEN 4 ELSE 3)

\* Every operation the rewriting of an `if` reads or erases is in the body.
If_Inside(b, n) ==
  /\ Before_Jump(b, n) < Len(b)
  /\ n <= Before_Jump(b, n) + 2
  /\ Before_End(b, n) # Before_Jump(b, n) =>
       /\ Before_End(b, n) + 2 <= Len(b)
       /\ Before_Jump(b, n) < Before_End(b, n) + 2

-----------------------------------------------------------------------------
(* The blocks that the rewriting gets wrong.                                *)

\* An operation outside from..to jumps to one of the operations in S.
Jumped_To(b, from, to, S) ==
  \E k \in 0 .. Len(b) - 1 :
    At(b, k).kind \in {"If", "Else", "Do", "End"} /\ k \notin from .. to /\ At(b, k).jump \in S

\* An `if` without an else-branch, or with an empty one; one whose then-branch
\* is kept, with a block around or after it; one whose else-branch is kept,
\* with a block in that branch, around or after it.
Misread_If(b, n) ==
  LET else_op == Before_Jump(b, n)
      end == Before_End(b, n)
  IN \/ end = else_op
     \/ At(b, n - 1).val # 0 /\ Jumped_To(b, n, end + 1, end + 2 .. Len(b))
     \/ /\ At(b, n - 1).val = 0
        /\ \/ Jumped_To(b, n, end + 1, end + 2 .. Len(b))
           \/ Jumped_To(SubSeq(b, 1, end + 1), n, else_op, else_op + 1 .. Len(b))

\* An infinite loop in another block, or with a block in its condition; a loop
\* that never runs, with a loop in its condition, or with a block beside it
\* that jumps to it or to one of the three operations after it.
Misread_Do(b, n) ==
  LET while_op == Jump(b, Before_Jump(b, n))
  IN IF At(b, n - 1).val # 0
     THEN \/ Jumped_To(SubSeq(b, 1, n), 0, while_op, while_op + 1 .. n)
          \/ Jumped_To(SubSeq(b, 1, while_op), Len(b), Len(b), Jump(b, n) .. Len(b))
     ELSE \/ \E k \in while_op + 1 .. n - 2 : At(b, k).kind = "While"
          \/ Jumped_To(b, while_op, Before_Jump(b, n), while_op .. Jump(b, n) + 2)

Misread(b, n) ==
  /\ Before_Jump(b, n) < Len(b)
  /\ IF At(b, n).kind = "If" THEN Misread_If(b, n) ELSE Misread_Do(b, n)

-----------------------------------------------------------------------------
Running == outcome = "running"
Condition == At(body, branch_op - 1).val

Fail(how) ==
  /\ outcome' = how
  /\ done_something' = TRUE
  /\ misread' = (misread \/ Misread(body, branch_op))
  /\ UNCHANGED <<given, body, branch_op>>

\* The loop steps back after a rewriting and then forward: it looks at the
\* same place again.
Rewrite(b) ==
  /\ body' = b
  /\ done_something' = TRUE
  /\ misread' = (misread \/ Misread(body, branch_op))
  /\ UNCHANGED <<given, branch_op, outcome>>

Skip ==
  /\ Running /\ branch_op < Len(body)
  /\ ~Known(body, branch_op)
  /\ branch_op' = branch_op + 1
  /\ UNCHANGED <<given, body, done_something, misread, outcome>>

\* The loop is followed by exactly one operation, or the warning about dead
\* code reads the location of the operation after the loop, which for a loop
\* at the end of the body does not exist.
Optimize_Infinite_Loop ==
  /\ Running /\ Known(body, branch_op) /\ At(body, branch_op).kind = "Do"
  /\ Condition # 0
  /\ LET b == body
         n == branch_op
     IN \/ /\ Before_Jump(b, n) >= Len(b) \/ Jump(b, n) = Len(b)
           /\ Fail("undefined")
        \/ /\ Before_Jump(b, n) < Len(b) /\ At(b, Before_Jump(b, n)).kind # "End"
           /\ Fail("assert")
        \/ /\ Before_Jump(b, n) < Len(b) /\ At(b, Before_Jump(b, n)).kind = "End"
           /\ \E rest \in {Infinite_Loop(b, n)} :
                IF n < Jump(b, n) /\ While_Ops(rest, n) # {}
                THEN Rewrite(Drop_While(rest, n, FALSE)) ELSE Fail("undefined")

Optimize_Never_Loop ==
  /\ Running /\ Known(body, branch_op) /\ At(body, branch_op).kind = "Do"
  /\ Condition = 0
  /\ LET b == body
         n == branch_op
     IN \E rest \in {Never_Loop(b, n)} :
        IF n <= Jump(b, n) + 1 /\ Jump(b, n) <= Len(b) /\ While_Ops(rest, n) # {}
        THEN Rewrite(Drop_While(rest, n, TRUE)) ELSE Fail("undefined")

Optimize_Then ==
  /\ Running /\ Known(body, branch_op) /\ At(body, branch_op).kind = "If"
  /\ Condition # 0
  /\ IF If_Inside(body, branch_op) /\ branch_op < Len(Without_Else(body, branch_op))
     THEN Rewrite(Then_Kept(body, branch_op)) ELSE Fail("undefined")

Optimize_Else ==
  /\ Running /\ Known(body, branch_op) /\ At(body, branch_op).kind = "If"
  /\ Condition = 0
  /\ IF If_Inside(body, branch_op)
     THEN Rewrite(Else_Kept(body, branch_op)) ELSE Fail("undefined")

Return_Conditions ==
  /\ Running /\ branch_op >= Len(body)
  /\ outcome' = "returned"
  /\ UNCHANGED <<given, body, branch_op, done_something, misread>>

Next ==
  \/ Skip \/ Optimize_Infinite_Loop \/ Optimize_Never_Loop
  \/ Optimize_Then \/ Optimize_Else \/ Return_Conditions
=============================================================================
