--------------------------- MODULE Crossreference ---------------------------
(***************************************************************************)
(* parser::crossreference: one pass over the operations of a body that     *)
(* turns its if/else/end and while/do/end blocks into jumps, keeping the   *)
(* blocks still open on a stack.  One action per case of the switch; where *)
(* a case can fail, the failure is an action of its own.                   *)
(***************************************************************************)
EXTENDS Operations

CONSTANT Bodies  \* the bodies the pass may be given: sequences of kinds

ASSUME BodiesAssumption ==
  /\ Bodies \subseteq Seq(Operation_Kind)
  /\ \A body \in Bodies : Len(body) < Empty_Jump

VARIABLES
  ops,     \* the kinds of the operations of the body, never written
  jump,    \* their jump members
  i,       \* the loop counter
  stack,   \* indices of the blocks still open, innermost last
  status   \* how the pass stands, see Status

vars == <<ops, jump, i, stack, status>>

\* running; returned true silently; returned true after the "Expected
\* matching ..." error; returned false after "End can only close ...";
\* exit(1) in ensure; exit(1) in assert.
Status == {"running", "linked", "unclosed", "misplaced", "ensure", "assert"}

Index == 0 .. Len(ops) - 1
Kind(k) == At(ops, k)

Init ==
  /\ ops \in Bodies
  /\ jump = [k \in 0 .. Len(ops) - 1 |-> Empty_Jump]
  /\ i = 0
  /\ stack = <<>>
  /\ status = "running"

\* The loop is about to look at an operation of one of these kinds.
Visit(kinds) == status = "running" /\ i < Len(ops) /\ Kind(i) \in kinds

\* The innermost open block was opened by one of these kinds.
TopIs(kinds) == stack # <<>> /\ Kind(Top(stack)) \in kinds

Stop(how) == status' = how /\ UNCHANGED <<ops, jump, i, stack>>

Advance == i' = i + 1 /\ UNCHANGED <<ops, status>>

Open_Block ==
  /\ Visit({"While", "If"})
  /\ stack' = Append(stack, i)
  /\ UNCHANGED jump
  /\ Advance

\* A plausible slip: the `do` does not take the place of its `while`.
Link_Do_Closes ==
  /\ Visit({"Do"})
  /\ TopIs({"While"})
  /\ jump' = [jump EXCEPT ![i] = Top(stack)]
  /\ stack' = Pop(stack)
  /\ Advance

Link_Do ==
  /\ Visit({"Do"})
  /\ TopIs({"While"})
  /\ jump' = [jump EXCEPT ![i] = Top(stack)]
  /\ stack' = Append(Pop(stack), i)
  /\ Advance

Do_Without_While == Visit({"Do"}) /\ ~TopIs({"While"}) /\ Stop("ensure")

Link_Else ==
  /\ Visit({"Else"})
  /\ TopIs({"If"})
  /\ jump' = [jump EXCEPT ![Top(stack)] = i + 1]
  /\ stack' = Append(Pop(stack), i)
  /\ Advance

Else_Without_If == Visit({"Else"}) /\ ~TopIs({"If"}) /\ Stop("ensure")

\* A plausible slip: the `end` of a branch is jumped over twice.
End_Overshoots ==
  /\ Visit({"End"})
  /\ TopIs({"If", "Else"})
  /\ jump' = [jump EXCEPT ![Top(stack)] = i, ![i] = i + 2]
  /\ stack' = Pop(stack)
  /\ Advance

End_Of_Branch ==
  /\ Visit({"End"})
  /\ TopIs({"If", "Else"})
  /\ jump' = [jump EXCEPT ![Top(stack)] = i, ![i] = i + 1]
  /\ stack' = Pop(stack)
  /\ Advance

\* A plausible slip: the two assignments in the other order, so that the
\* `end` of a loop takes the jump the `do` has just been given.
End_Of_Loop_Swapped ==
  /\ Visit({"End"})
  /\ TopIs({"Do"})
  /\ jump' = [jump EXCEPT ![Top(stack)] = i + 1, ![i] = i + 1]
  /\ stack' = Pop(stack)
  /\ Advance

End_Of_Loop ==
  /\ Visit({"End"})
  /\ TopIs({"Do"})
  /\ jump' = [jump EXCEPT ![i] = jump[Top(stack)], ![Top(stack)] = i + 1]
  /\ stack' = Pop(stack)
  /\ Advance

End_Of_While == Visit({"End"}) /\ TopIs({"While"}) /\ Stop("misplaced")

End_Without_Block == Visit({"End"}) /\ stack = <<>> /\ Stop("assert")

Skip ==
  /\ Visit(Operation_Kind \ {"Do", "While", "If", "Else", "End"})
  /\ UNCHANGED <<jump, stack>>
  /\ Advance

\* A plausible slip: the blocks left open are not looked at.
Return_True_Unchecked ==
  status = "running" /\ i = Len(ops) /\ Stop("linked")

Return_True ==
  /\ status = "running"
  /\ i = Len(ops)
  /\ Stop(IF stack = <<>> THEN "linked" ELSE "unclosed")

Next ==
  \/ Open_Block \/ Link_Do \/ Do_Without_While \/ Link_Else \/ Else_Without_If
  \/ End_Of_Branch \/ End_Of_Loop \/ End_Of_While \/ End_Without_Block
  \/ Skip \/ Return_True

Spec == Init /\ [][Next]_vars

-----------------------------------------------------------------------------
(* Properties *)

TypeOK ==
  /\ ops \in Seq(Operation_Kind) /\ Len(ops) < Empty_Jump
  /\ jump \in [Index -> 0 .. Len(ops) \cup {Empty_Jump}]
  /\ i \in 0 .. Len(ops)
  /\ stack \in Seq(Index)
  /\ status \in Status

Goes_Forward(k) == jump[k] \in k + 1 .. Len(ops)
Goes_Back(k) == jump[k] \in 0 .. k - 1 /\ Kind(jump[k]) = "While"

\* When crossreference returns without an error, every operation that the
\* typechecker and the code generator assert to have a jump has one inside
\* the body or just past its end, where generate_instructions puts a label;
\* and control goes backwards only from an `end` to the `while` of a loop.
JumpsAreWritten ==
  status = "linked" =>
    \A k \in Index :
      /\ Kind(k) \in {"If", "Else", "Do"} => Goes_Forward(k)
      /\ Kind(k) = "End" => jump[k] = k + 1 \/ Goes_Back(k)

Open == {stack[n] : n \in 1 .. Len(stack)}

\* The open blocks are nested: the stack is in the order of the body.
Nested == \A m, n \in 1 .. Len(stack) : m < n => stack[m] < stack[n]

\* What the pass knows of the part of the body behind it: the open blocks
\* are nested, an open `do` remembers an earlier `while` for its `end`, and
\* every closed block has the jumps that JumpsAreWritten promises.
OpenBlocks ==
  /\ Nested
  /\ \A k \in Open :
       /\ k < i
       /\ Kind(k) \in {"If", "Else", "While", "Do"}
       /\ Kind(k) = "Do" => Goes_Back(k)
  /\ \A k \in 0 .. i - 1 :
       /\ Kind(k) \in {"If", "Else", "Do"} => k \in Open \/ Goes_Forward(k)
       /\ Kind(k) = "End" => jump[k] = k + 1 \/ Goes_Back(k)

\* The jumps of a linked body are those its block structure prescribes, for
\* blocks nested in any way: no two blocks are ever confused.
LinksFollowBlocks ==
  status = "linked" => \A k \in Index : jump[k] = Block_Jump(ops, k)

\* crossreference finishes without an error on exactly the well formed bodies:
\* it rejects every misplaced `else`, `do`, `end` and every block left open,
\* however they are nested, and nothing else.
AcceptsWellFormed ==
  status # "running" => (status = "linked" <=> Well_Formed(ops))

\* Where every `end` closes a block of the same body, which is what the
\* backward block scan of function_into_operations establishes before it
\* emits an End, the assert(!stack.empty()) never fires.
AssertNeverFires ==
  (\A k \in Index : Ended(ops, 0, k) <= Opened(ops, 0, k)) => status # "assert"
=============================================================================
