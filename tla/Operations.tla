----------------------------- MODULE Operations -----------------------------
(***************************************************************************)
(* Operations: the intermediate representation that every phase of the     *)
(* compiler after the lexer reads or rewrites.  A function body, and main, *)
(* is a vector of operations; operation k of the vector is element k + 1   *)
(* of the TLA+ sequence, so that all index arithmetic is the source's.     *)
(***************************************************************************)
EXTENDS Integers, Sequences, FiniteSets

CONSTANT Empty_Jump  \* the largest unsigned: a jump nobody has written yet

ASSUME EmptyJumpAssumption == Empty_Jump \in Nat

\* Operation::Kind.
Operation_Kind ==
  {"Intrinsic", "Push_Symbol", "Push_Int", "Call_Symbol", "Cast", "End", "If",
   "Else", "While", "Do", "Return"}

\* The kinds whose jump the later phases assert to be written.
Jumping_Kind == {"End", "If", "Else", "Do"}

\* Element k of a vector, counted from 0.
At(v, k) == v[k + 1]

\* std::stack: top() and pop().
Top(s) == s[Len(s)]
Pop(s) == SubSeq(s, 1, Len(s) - 1)

-----------------------------------------------------------------------------
(* The block structure of a body, given by the kinds of its operations, and *)
(* the jumps it calls for: the reference for what crossreference computes.  *)

\* The number of blocks opened, and of blocks ended, from a to b.
Opened(kinds, a, b) == Cardinality({k \in a .. b : At(kinds, k) \in {"If", "While"}})
Ended(kinds, a, b) == Cardinality({k \in a .. b : At(kinds, k) = "End"})

\* a < b belong to the same block: only whole blocks lie between them.
Same_Block(kinds, a, b) ==
  /\ a < b
  /\ Opened(kinds, a + 1, b - 1) = Ended(kinds, a + 1, b - 1)
  /\ \A c \in a + 1 .. b - 1 : Ended(kinds, a + 1, c) <= Opened(kinds, a + 1, c)

\* The operation that opens the innermost block around k, if there is one.
Openers(kinds, k) ==
  {a \in 0 .. k - 1 : At(kinds, a) \in {"If", "While"} /\ Same_Block(kinds, a, k)}

\* Every `end`, `else` and `do` belongs to a block: an `else` to an `if`, a
\* `do` to a `while`, at most one to each block, exactly one to a `while`.
Well_Formed(kinds) ==
  LET Index == 0 .. Len(kinds) - 1
      Middle(a) == {c \in Index : At(kinds, c) \in {"Else", "Do"} /\ a \in Openers(kinds, c)}
  IN /\ Opened(kinds, 0, Len(kinds) - 1) = Ended(kinds, 0, Len(kinds) - 1)
     /\ \A k \in Index :
          /\ At(kinds, k) = "End" => Openers(kinds, k) # {}
          /\ At(kinds, k) = "Else" => \E a \in Openers(kinds, k) : At(kinds, a) = "If"
          /\ At(kinds, k) = "Do" => \E a \in Openers(kinds, k) : At(kinds, a) = "While"
          /\ At(kinds, k) = "If" => Cardinality(Middle(k)) <= 1
          /\ At(kinds, k) = "While" => Cardinality(Middle(k)) = 1

\* The jump of operation k of a well formed body: a false `if` goes past the
\* `else` of its block or to its `end`, the then-branch skips the else-branch,
\* a false `do` leaves its loop, and the `end` of a loop goes back to the
\* `while` of that loop.
Block_Jump(kinds, k) ==
  LET Next_In(ks) ==
        LET Later == {b \in k + 1 .. Len(kinds) - 1 :
                        At(kinds, b) \in ks /\ Same_Block(kinds, k, b)}
        IN CHOOSE b \in Later : \A c \in Later : b <= c
      Opener == CHOOSE a \in Openers(kinds, k) : TRUE
  IN CASE At(kinds, k) = "If" ->
            LET b == Next_In({"Else", "End"})
            IN IF At(kinds, b) = "Else" THEN b + 1 ELSE b
       [] At(kinds, k) = "Else" -> Next_In({"End"})
       [] At(kinds, k) = "Do" -> Next_In({"End"}) + 1
       [] At(kinds, k) = "End" ->
            IF At(kinds, Opener) = "While" THEN Opener ELSE k + 1
       [] OTHER -> Empty_Jump
=============================================================================
