------------------------ MODULE CrossreferenceProofs ------------------------
(***************************************************************************)
(* What crossreference guarantees for every body of every length.          *)
(***************************************************************************)
EXTENDS Crossreference, StackLemmas, FiniteSetTheorems

\* Steps that need arithmetic or sequences cite SMT.
USE Zenon

\* The open blocks are operations of the body.
LEMMA OpenBlockInBody ==
  ASSUME TypeOK, stack # <<>>
  PROVE  /\ Top(stack) \in Index
         /\ Pop(stack) \in Seq(Index)
         /\ \A x \in Index : Append(Pop(stack), x) \in Seq(Index)
BY StackPop, StackReplace DEF TypeOK

\* crossreference only ever writes jumps inside the body, and its stack only
\* ever holds indices of operations, whatever body it is given.
THEOREM TypeCorrect == Spec => []TypeOK
<1>1. Init => TypeOK
  BY BodiesAssumption, EmptyJumpAssumption, SMT DEF Init, TypeOK, Index, Status
<1>2. TypeOK /\ [Next]_vars => TypeOK'
  <2> SUFFICES ASSUME TypeOK, [Next]_vars PROVE TypeOK'
    OBVIOUS
  <2>0. Len(ops) \in Nat /\ i \in Nat /\ (i < Len(ops) => i \in Index)
    BY SMT DEF TypeOK, Index
  <2>1. CASE Open_Block
    BY <2>0, <2>1, SMT DEF Open_Block, Visit, Advance, TypeOK, Index
  <2>2. CASE Link_Do
    <3>1. i \in Index /\ stack # <<>>
      BY <2>0, <2>2 DEF Link_Do, Visit, TopIs
    <3> QED
      BY <2>0, <2>2, <3>1, OpenBlockInBody, SMT DEF Link_Do, Advance, TypeOK, Index
  <2>3. CASE Link_Else
    <3>1. i \in Index /\ stack # <<>>
      BY <2>0, <2>3 DEF Link_Else, Visit, TopIs
    <3> QED
      BY <2>0, <2>3, <3>1, OpenBlockInBody, SMT DEF Link_Else, Advance, TypeOK, Index
  <2>4. CASE End_Of_Branch
    <3>1. i \in Index /\ stack # <<>>
      BY <2>0, <2>4 DEF End_Of_Branch, Visit, TopIs
    <3> DEFINE V == 0 .. Len(ops) \cup {Empty_Jump}
    <3>2. i \in V /\ i + 1 \in V /\ jump \in [Index -> V]
      BY <2>0, <3>1, SMT DEF TypeOK, Index
    <3> HIDE DEF V
    <3>3. jump' \in [Index -> V]
      BY <2>4, <3>1, <3>2, OpenBlockInBody DEF End_Of_Branch
    <3>4. stack' \in Seq(Index) /\ i' = i + 1 /\ UNCHANGED <<ops, status>>
      BY <2>4, <3>1, OpenBlockInBody DEF End_Of_Branch, Advance
    <3> QED
      BY <2>0, <3>1, <3>3, <3>4, SMT DEF V, TypeOK, Index
  <2>5. CASE End_Of_Loop
    <3>1. i \in Index /\ stack # <<>>
      BY <2>0, <2>5 DEF End_Of_Loop, Visit, TopIs
    <3> DEFINE V == 0 .. Len(ops) \cup {Empty_Jump}
    <3>2. i \in V /\ i + 1 \in V /\ jump \in [Index -> V]
      BY <2>0, <3>1, SMT DEF TypeOK, Index
    <3> HIDE DEF V
    <3>3. jump' \in [Index -> V]
      BY <2>5, <3>1, <3>2, OpenBlockInBody DEF End_Of_Loop
    <3>4. stack' \in Seq(Index) /\ i' = i + 1 /\ UNCHANGED <<ops, status>>
      BY <2>5, <3>1, OpenBlockInBody DEF End_Of_Loop, Advance
    <3> QED
      BY <2>0, <3>1, <3>3, <3>4, SMT DEF V, TypeOK, Index
  <2>6. CASE Skip
    BY <2>0, <2>6, SMT DEF Skip, Visit, Advance, TypeOK, Index
  <2>7. CASE \E how \in Status : Stop(how)
    BY <2>7 DEF Stop, TypeOK, Index
  <2>8. CASE UNCHANGED vars
    BY <2>8 DEF vars, TypeOK, Index
  <2> QED
    BY <2>1, <2>2, <2>3, <2>4, <2>5, <2>6, <2>7, <2>8
    DEF Next, Do_Without_While, Else_Without_If, End_Of_While,
        End_Without_Block, Return_True, Status
<1> QED BY <1>1, <1>2, PTL DEF Spec

-----------------------------------------------------------------------------

\* How the set of open blocks changes with the stack.
LEMMA OpenAfterPush ==
  ASSUME TypeOK, stack' = Append(stack, i)
  PROVE  Open' = Open \cup {i}
<1>1. Len(stack) \in Nat /\ Len(stack') = Len(stack) + 1
  BY SeqLen, SMT DEF TypeOK
<1>2. /\ \A n \in 1 .. Len(stack) : stack'[n] = stack[n]
      /\ stack'[Len(stack) + 1] = i
  BY SMT DEF TypeOK
<1> QED BY <1>1, <1>2, SMT DEF Open

\* Popping the stack closes the innermost open block and leaves the others open.
LEMMA OpenAfterPop ==
  ASSUME TypeOK, Nested, stack # <<>>, stack' = Pop(stack)
  PROVE  Open' = Open \ {Top(stack)} /\ Nested'
<1>1. /\ Len(stack) \in Nat \ {0} /\ Len(stack') = Len(stack) - 1
      /\ \A n \in 1 .. Len(stack) - 1 : stack'[n] = stack[n]
  BY StackPop DEF TypeOK
<1>2. \A n \in 1 .. Len(stack) - 1 : stack[n] < stack[Len(stack)]
  BY <1>1, SMT DEF Nested
<1>3. \A n \in 1 .. Len(stack) : stack[n] \in Nat
  BY SeqElement, SMT DEF TypeOK, Index
<1> QED BY <1>1, <1>2, <1>3, SMT DEF Open, Nested, Top

\* Replacing the top of the stack, as `else` and `do` do, changes only the
\* innermost open block.
LEMMA OpenAfterReplace ==
  ASSUME TypeOK, Nested, stack # <<>>, i \in Index,
         stack' = Append(Pop(stack), i)
  PROVE  Open' = (Open \ {Top(stack)}) \cup {i}
<1>1. /\ Len(stack) \in Nat \ {0} /\ Len(stack') = Len(stack)
      /\ \A n \in 1 .. Len(stack) - 1 : stack'[n] = stack[n]
      /\ stack'[Len(stack)] = i
  BY StackPop, StackReplace, SMT DEF TypeOK
<1>2. \A n \in 1 .. Len(stack) - 1 : stack[n] < stack[Len(stack)]
  BY <1>1, SMT DEF Nested
<1>3. \A n \in 1 .. Len(stack) : stack[n] \in Nat
  BY SeqElement, SMT DEF TypeOK, Index
<1>4. Open = {stack[n] : n \in 1 .. Len(stack) - 1} \cup {Top(stack)}
  BY <1>1, SMT DEF Open, Top
<1>5. Top(stack) \notin {stack[n] : n \in 1 .. Len(stack) - 1}
  BY <1>1, <1>2, <1>3, SMT DEF Top
<1>6. Open' = {stack[n] : n \in 1 .. Len(stack) - 1} \cup {i}
  BY <1>1, SMT DEF Open
<1> QED BY <1>4, <1>5, <1>6

\* The stack stays in the order of the body: what is pushed is the operation
\* the loop stands at, and every open block lies before it.
LEMMA NestedAfterPush ==
  ASSUME TypeOK, OpenBlocks, i \in Index,
         \/ stack' = Append(stack, i)
         \/ stack # <<>> /\ stack' = Append(Pop(stack), i)
  PROVE  Nested'
<1>1. Len(stack) \in Nat /\ \A n \in 1 .. Len(stack) : stack[n] < i
  BY SeqLen DEF TypeOK, OpenBlocks, Open
<1>2. CASE stack' = Append(stack, i)
  <2>1. /\ Len(stack') = Len(stack) + 1
        /\ \A n \in 1 .. Len(stack) : stack'[n] = stack[n]
        /\ stack'[Len(stack) + 1] = i
    BY <1>1, <1>2, SMT DEF TypeOK
  <2> QED BY <1>1, <2>1, SMT DEF Nested, OpenBlocks
<1>3. CASE stack # <<>> /\ stack' = Append(Pop(stack), i)
  <2>1. /\ Len(stack') = Len(stack)
        /\ \A n \in 1 .. Len(stack) - 1 : stack'[n] = stack[n]
        /\ stack'[Len(stack)] = i
    BY <1>3, StackReplace, SMT DEF TypeOK
  <2> QED BY <1>1, <2>1, SMT DEF Nested, OpenBlocks
<1> QED BY <1>2, <1>3

\* The inductive invariant.
IInv ==
  /\ TypeOK
  /\ OpenBlocks
  /\ status = "linked" => i = Len(ops) /\ stack = <<>>

\* Every step of crossreference preserves the inductive invariant.
LEMMA InductiveInvariant == IInv /\ [Next]_vars /\ TypeOK' => IInv'
<1> SUFFICES ASSUME IInv, [Next]_vars, TypeOK' PROVE IInv'
  OBVIOUS
<1>0. /\ Len(ops) \in Nat /\ i \in Nat
      /\ (i < Len(ops) => i \in Index)
      /\ \A k \in Index : k \in Nat
      /\ Open \subseteq Index
      /\ (stack # <<>> => Top(stack) \in Open /\ Top(stack) \in 0 .. i - 1)
  <2>1. stack # <<>> => Len(stack) \in 1 .. Len(stack)
    BY SeqEmpty, SMT DEF IInv, TypeOK
  <2>2. Open \subseteq Index
    BY SeqElement DEF IInv, TypeOK, Open
  <2>3. stack # <<>> => Top(stack) \in Open
    BY <2>1 DEF Open, Top
  <2>4. Len(ops) \in Nat /\ i \in Nat /\ \A k \in Index : k \in Nat
    BY SMT DEF IInv, TypeOK, Index
  <2>5. \A k \in Open : k \in 0 .. i - 1
    BY <2>2, <2>4, SMT DEF IInv, OpenBlocks
  <2>6. i < Len(ops) => i \in Index
    BY <2>4, SMT DEF Index
  <2> QED BY <2>2, <2>3, <2>4, <2>5, <2>6
<1> USE DEF IInv
<1>1. CASE Open_Block
  <2>1. i \in Index /\ stack' = Append(stack, i) /\ status = "running"
        /\ i' = i + 1 /\ Kind(i) \in {"While", "If"}
        /\ UNCHANGED <<ops, status, jump>>
    BY <1>0, <1>1 DEF Open_Block, Visit, Advance
  <2>2. Open' = Open \cup {i} /\ Nested'
    BY <2>1, OpenAfterPush, NestedAfterPush
  <2> QED BY <1>0, <2>1, <2>2, SMT DEF OpenBlocks, Goes_Back, Goes_Forward, Kind
<1>2. CASE Link_Do
  <2>1. i \in Index /\ stack # <<>> /\ stack' = Append(Pop(stack), i)
        /\ i' = i + 1 /\ Kind(i) = "Do" /\ Kind(Top(stack)) = "While"
        /\ status = "running" /\ UNCHANGED <<ops, status>>
    BY <1>0, <1>2 DEF Link_Do, Visit, TopIs, Advance
  <2>2. Open' = (Open \ {Top(stack)}) \cup {i} /\ Nested'
    BY <2>1, OpenAfterReplace, NestedAfterPush DEF OpenBlocks
  <2>3. Top(stack) \in Open /\ Top(stack) \in 0 .. i - 1
    BY <1>0, <2>1
  <2>4. jump'[i] = Top(stack) /\ \A k \in Index : k # i => jump'[k] = jump[k]
    BY <1>0, <1>2, <2>1, <2>3 DEF Link_Do, TypeOK
  <2>5. \A k \in Open' :
          /\ k < i'
          /\ Kind(k)' \in {"If", "Else", "While", "Do"}
          /\ Kind(k)' = "Do" => Goes_Back(k)'
    BY <1>0, <2>1, <2>2, <2>3, <2>4, SMT DEF OpenBlocks, Goes_Back, Kind, Index
  <2>6. \A k \in 0 .. i' - 1 :
          /\ Kind(k)' \in {"If", "Else", "Do"} => k \in Open' \/ Goes_Forward(k)'
          /\ Kind(k)' = "End" => jump'[k] = k + 1 \/ Goes_Back(k)'
    <3> TAKE k \in 0 .. i' - 1
    <3>1. k \in Index /\ (k = i \/ k \in 0 .. i - 1)
      BY <1>0, <2>1, SMT DEF Index
    <3>2. CASE k = i
      BY <1>0, <2>1, <2>2, <2>3, <2>4, <3>2
      DEF OpenBlocks, Goes_Back, Goes_Forward, Kind, Index
    <3>3. CASE k = Top(stack)
      BY <1>0, <2>1, <2>2, <2>3, <2>4, <3>3
      DEF OpenBlocks, Goes_Back, Goes_Forward, Kind, Index
    <3>4. CASE k # i /\ k # Top(stack)
      BY <2>1, <2>2, <2>4, <3>1, <3>4, ZenonT(30)
      DEF OpenBlocks, Goes_Back, Goes_Forward, Kind
    <3> QED BY <3>2, <3>3, <3>4
  <2> QED BY <2>1, <2>2, <2>5, <2>6 DEF OpenBlocks
<1>3. CASE Link_Else
  <2>1. i \in Index /\ stack # <<>> /\ stack' = Append(Pop(stack), i)
        /\ i' = i + 1 /\ Kind(i) = "Else" /\ Kind(Top(stack)) = "If"
        /\ status = "running" /\ UNCHANGED <<ops, status>>
    BY <1>0, <1>3 DEF Link_Else, Visit, TopIs, Advance
  <2>2. Open' = (Open \ {Top(stack)}) \cup {i} /\ Nested'
    BY <2>1, OpenAfterReplace, NestedAfterPush DEF OpenBlocks
  <2>3. Top(stack) \in Open /\ Top(stack) \in 0 .. i - 1
    BY <1>0, <2>1
  <2>4. /\ jump'[Top(stack)] = i + 1
        /\ \A k \in Index : k # Top(stack) => jump'[k] = jump[k]
    BY <1>0, <1>3, <2>1, <2>3 DEF Link_Else, TypeOK
  <2>5. \A k \in Open' :
          /\ k < i'
          /\ Kind(k)' \in {"If", "Else", "While", "Do"}
          /\ Kind(k)' = "Do" => Goes_Back(k)'
    BY <1>0, <2>1, <2>2, <2>3, <2>4, SMT DEF OpenBlocks, Goes_Back, Kind, Index
  <2>6. \A k \in 0 .. i' - 1 :
          /\ Kind(k)' \in {"If", "Else", "Do"} => k \in Open' \/ Goes_Forward(k)'
          /\ Kind(k)' = "End" => jump'[k] = k + 1 \/ Goes_Back(k)'
    <3> TAKE k \in 0 .. i' - 1
    <3>1. k \in Index /\ (k = i \/ k \in 0 .. i - 1)
      BY <1>0, <2>1, SMT DEF Index
    <3>2. CASE k = i
      BY <1>0, <2>1, <2>2, <2>3, <2>4, <3>2
      DEF OpenBlocks, Goes_Back, Goes_Forward, Kind, Index
    <3>3. CASE k = Top(stack)
      BY <1>0, <2>1, <2>2, <2>3, <2>4, <3>3, SMT
      DEF OpenBlocks, Goes_Back, Goes_Forward, Kind, Index
    <3>4. CASE k # i /\ k # Top(stack)
      BY <2>1, <2>2, <2>4, <3>1, <3>4, SMT
      DEF OpenBlocks, Goes_Back, Goes_Forward, Kind
    <3> QED BY <3>2, <3>3, <3>4
  <2> QED BY <2>1, <2>2, <2>5, <2>6 DEF OpenBlocks
<1>4. CASE End_Of_Branch
  <2>1. i \in Index /\ stack # <<>> /\ stack' = Pop(stack)
        /\ i' = i + 1 /\ Kind(i) = "End" /\ Kind(Top(stack)) \in {"If", "Else"}
        /\ status = "running" /\ UNCHANGED <<ops, status>>
    BY <1>0, <1>4 DEF End_Of_Branch, Visit, TopIs, Advance
  <2>2. Open' = Open \ {Top(stack)} /\ Nested'
    BY <2>1, OpenAfterPop DEF OpenBlocks
  <2>3. Top(stack) \in Open /\ Top(stack) \in 0 .. i - 1
    BY <1>0, <2>1
  <2>4. /\ jump'[Top(stack)] = i /\ jump'[i] = i + 1
        /\ \A k \in Index : k # i /\ k # Top(stack) => jump'[k] = jump[k]
    BY <1>0, <1>4, <2>1, <2>3 DEF End_Of_Branch, TypeOK
  <2>5. \A k \in Open' :
          /\ k < i'
          /\ Kind(k)' \in {"If", "Else", "While", "Do"}
          /\ Kind(k)' = "Do" => Goes_Back(k)'
    BY <1>0, <2>1, <2>2, <2>3, <2>4, SMT DEF OpenBlocks, Goes_Back, Kind, Index
  <2>6. \A k \in 0 .. i' - 1 :
          /\ Kind(k)' \in {"If", "Else", "Do"} => k \in Open' \/ Goes_Forward(k)'
          /\ Kind(k)' = "End" => jump'[k] = k + 1 \/ Goes_Back(k)'
    <3> TAKE k \in 0 .. i' - 1
    <3>1. k \in Index /\ (k = i \/ k \in 0 .. i - 1)
      BY <1>0, <2>1, SMT DEF Index
    <3>2. CASE k = i
      BY <1>0, <2>1, <2>2, <2>3, <2>4, <3>2
      DEF OpenBlocks, Goes_Back, Goes_Forward, Kind, Index
    <3>3. CASE k = Top(stack)
      BY <1>0, <2>1, <2>2, <2>3, <2>4, <3>3, SMT
      DEF OpenBlocks, Goes_Back, Goes_Forward, Kind, Index
    <3>4. CASE k # i /\ k # Top(stack)
      BY <2>1, <2>2, <2>4, <3>1, <3>4, SMT
      DEF OpenBlocks, Goes_Back, Goes_Forward, Kind
    <3> QED BY <3>2, <3>3, <3>4
  <2> QED BY <2>1, <2>2, <2>5, <2>6 DEF OpenBlocks
<1>5. CASE End_Of_Loop
  <2>1. i \in Index /\ stack # <<>> /\ stack' = Pop(stack)
        /\ i' = i + 1 /\ Kind(i) = "End" /\ Kind(Top(stack)) \in {"Do"}
        /\ status = "running" /\ UNCHANGED <<ops, status>>
    BY <1>0, <1>5 DEF End_Of_Loop, Visit, TopIs, Advance
  <2>2. Open' = Open \ {Top(stack)} /\ Nested'
    BY <2>1, OpenAfterPop DEF OpenBlocks
  <2>3. Top(stack) \in Open /\ Top(stack) \in 0 .. i - 1
    BY <1>0, <2>1
  <2>4. /\ jump'[Top(stack)] = i + 1 /\ jump'[i] = jump[Top(stack)]
        /\ \A k \in Index : k # i /\ k # Top(stack) => jump'[k] = jump[k]
    BY <1>0, <1>5, <2>1, <2>3 DEF End_Of_Loop, TypeOK
  <2>5. \A k \in Open' :
          /\ k < i'
          /\ Kind(k)' \in {"If", "Else", "While", "Do"}
          /\ Kind(k)' = "Do" => Goes_Back(k)'
    BY <1>0, <2>1, <2>2, <2>3, <2>4, SMTT(30) DEF OpenBlocks, Goes_Back, Kind, Index
  <2>6. \A k \in 0 .. i' - 1 :
          /\ Kind(k)' \in {"If", "Else", "Do"} => k \in Open' \/ Goes_Forward(k)'
          /\ Kind(k)' = "End" => jump'[k] = k + 1 \/ Goes_Back(k)'
    <3> TAKE k \in 0 .. i' - 1
    <3>1. k \in Index /\ (k = i \/ k \in 0 .. i - 1)
      BY <1>0, <2>1, SMT DEF Index
    <3>2. CASE k = i
      BY <1>0, <2>1, <2>2, <2>3, <2>4, <3>2, SMT
      DEF OpenBlocks, Goes_Back, Goes_Forward, Kind, Index
    <3>3. CASE k = Top(stack)
      BY <1>0, <2>1, <2>2, <2>3, <2>4, <3>3, SMT
      DEF OpenBlocks, Goes_Back, Goes_Forward, Kind, Index
    <3>4. CASE k # i /\ k # Top(stack)
      BY <2>1, <2>2, <2>4, <3>1, <3>4, SMT
      DEF OpenBlocks, Goes_Back, Goes_Forward, Kind
    <3> QED BY <3>2, <3>3, <3>4
  <2> QED BY <2>1, <2>2, <2>5, <2>6 DEF OpenBlocks
<1>6. CASE Skip
  <2>1. i \in Index /\ i' = i + 1 /\ status = "running"
        /\ Kind(i) \notin {"If", "Else", "Do", "End"}
        /\ UNCHANGED <<ops, status, jump, stack>>
    BY <1>0, <1>6 DEF Skip, Visit, Advance
  <2>2. \A k \in 0 .. i' - 1 : k = i \/ k \in 0 .. i - 1
    BY <1>0, <2>1, SMT
  <2>3. \A k \in Open : k < i'
    BY <1>0, <2>1, SMT DEF OpenBlocks
  <2> QED
    BY <2>1, <2>2, <2>3, SMT DEF OpenBlocks, Nested, Open, Goes_Back, Goes_Forward, Kind
<1>7. CASE Return_True
  BY <1>7, SMT DEF Return_True, Stop, OpenBlocks, Nested, Open, Goes_Back,
              Goes_Forward, Kind
<1>8. CASE \E how \in {"ensure", "misplaced", "assert"} : Stop(how)
  BY <1>8, SMT DEF Stop, OpenBlocks, Nested, Open, Goes_Back, Goes_Forward, Kind
<1>9. CASE UNCHANGED vars
  BY <1>9, SMT DEF vars, OpenBlocks, Nested, Open, Goes_Back, Goes_Forward, Kind
<1> QED
  BY <1>1, <1>2, <1>3, <1>4, <1>5, <1>6, <1>7, <1>8, <1>9
  DEF Next, Do_Without_While, Else_Without_If, End_Of_While, End_Without_Block

\* Crossreference starts with nothing open: the inductive invariant holds.
LEMMA InitIInv == Init => IInv
<1> SUFFICES ASSUME Init PROVE IInv
  OBVIOUS
<1>1. TypeOK
  BY BodiesAssumption, EmptyJumpAssumption, SMT DEF Init, TypeOK, Index, Status
<1>2. Len(stack) = 0 /\ i = 0 /\ Open = {} /\ status = "running"
  BY SMT DEF Init, Open
<1> QED BY <1>1, <1>2, SMT DEF IInv, OpenBlocks, Nested

\* In the part of a body that is behind the pass the open blocks are nested, an
\* open `do` remembers its `while`, and every closed block has its jumps: for
\* every body.
THEOREM OpenBlocksHold == Spec => []OpenBlocks
<1>1. IInv => OpenBlocks
  BY DEF IInv
<1> QED BY <1>1, InitIInv, InductiveInvariant, TypeCorrect, PTL DEF Spec

\* Every jump that the later phases rely on is written, lies inside the body
\* or just past it, and goes backwards only to a `while`: for every body.
THEOREM JumpsCorrect == Spec => []JumpsAreWritten
<1>1. IInv => JumpsAreWritten
  BY SMT DEF IInv, JumpsAreWritten, OpenBlocks, Open, Index, TypeOK
<1> QED BY <1>1, InitIInv, InductiveInvariant, TypeCorrect, PTL DEF Spec

-----------------------------------------------------------------------------

\* Counting one more operation.
LEMMA CountStep ==
  ASSUME NEW n \in Nat
  PROVE  /\ Ended(ops, 0, n - 1) \in Nat
         /\ Kind(n) = "End" => Ended(ops, 0, n) = Ended(ops, 0, n - 1) + 1
         /\ Kind(n) # "End" => Ended(ops, 0, n) = Ended(ops, 0, n - 1)
         /\ Opened(ops, 0, n - 1) \in Nat
         /\ Kind(n) \in {"If", "While"} => Opened(ops, 0, n) = Opened(ops, 0, n - 1) + 1
         /\ Kind(n) \notin {"If", "While"} => Opened(ops, 0, n) = Opened(ops, 0, n - 1)
<1>1. /\ 0 .. n = 0 .. n - 1 \cup {n} /\ n \notin 0 .. n - 1
      /\ IsFiniteSet(0 .. n - 1)
  BY FS_Interval, SMT
<1> DEFINE E == {k \in 0 .. n - 1 : Kind(k) = "End"}
           O == {k \in 0 .. n - 1 : Kind(k) \in {"If", "While"}}
<1>2. IsFiniteSet(E) /\ IsFiniteSet(O) /\ n \notin E /\ n \notin O
  <2>1. E \in SUBSET (0 .. n - 1) /\ O \in SUBSET (0 .. n - 1)
    OBVIOUS
  <2>2. IsFiniteSet(E) /\ IsFiniteSet(O)
    BY <1>1, <2>1, FS_Subset
  <2> QED BY <1>1, <2>2
<1> DEFINE En == {k \in 0 .. n : Kind(k) = "End"}
           On == {k \in 0 .. n : Kind(k) \in {"If", "While"}}
<1>3. /\ Kind(n) = "End" => En = E \cup {n}
      /\ Kind(n) # "End" => En = E
      /\ Kind(n) \in {"If", "While"} => On = O \cup {n}
      /\ Kind(n) \notin {"If", "While"} => On = O
  BY <1>1
<1>4. /\ Cardinality(E) \in Nat /\ Cardinality(E \cup {n}) = Cardinality(E) + 1
      /\ Cardinality(O) \in Nat /\ Cardinality(O \cup {n}) = Cardinality(O) + 1
  BY <1>2, FS_CardinalityType, FS_AddElement
<1>5. /\ Ended(ops, 0, n - 1) = Cardinality(E) /\ Ended(ops, 0, n) = Cardinality(En)
      /\ Opened(ops, 0, n - 1) = Cardinality(O) /\ Opened(ops, 0, n) = Cardinality(On)
  BY DEF Ended, Opened, Kind
<1> HIDE DEF E, O, En, On
<1> QED BY <1>3, <1>4, <1>5

\* The stack holds one entry for every block opened and not yet ended.
Counted ==
  /\ TypeOK
  /\ Opened(ops, 0, i - 1) = Len(stack) + Ended(ops, 0, i - 1)
  /\ status = "assert" => i \in Index /\ Kind(i) = "End" /\ stack = <<>>

\* The assert(!stack.empty()) at an `end` never fires on a body whose every
\* `end` closes a block of that body, whatever its length and its nesting.
THEOREM AssertSafe == Spec => []AssertNeverFires
<1>1. Init => Counted
  <2> SUFFICES ASSUME Init PROVE Counted
    OBVIOUS
  <2>1. TypeOK
    BY BodiesAssumption, EmptyJumpAssumption, SMT DEF Init, TypeOK, Index, Status
  <2>2. i = 0 /\ Len(stack) = 0 /\ status = "running"
    BY DEF Init
  <2>3. 0 .. 0 - 1 = {}
    BY SMT
  <2>4. Opened(ops, 0, i - 1) = 0 /\ Ended(ops, 0, i - 1) = 0
    BY <2>2, <2>3, FS_EmptySet DEF Opened, Ended
  <2> QED BY <2>1, <2>2, <2>4, SMT DEF Counted
<1>2. Counted /\ [Next]_vars /\ TypeOK' => Counted'
  <2> SUFFICES ASSUME Counted, [Next]_vars, TypeOK' PROVE Counted'
    OBVIOUS
  <2> DEFINE o == Opened(ops, 0, i - 1)
             e == Ended(ops, 0, i - 1)
  <2>0. i \in Nat /\ Len(stack) \in Nat /\ o \in Nat /\ e \in Nat
        /\ o = Len(stack) + e /\ (i < Len(ops) => i \in Index)
    BY CountStep, SeqLen, SMT DEF Counted, TypeOK, Index
  <2>1. ASSUME ops' = ops, i' = i + 1
        PROVE  /\ Kind(i) = "End" => Ended(ops, 0, i - 1)' = e + 1
               /\ Kind(i) # "End" => Ended(ops, 0, i - 1)' = e
               /\ Kind(i) \in {"If", "While"} => Opened(ops, 0, i - 1)' = o + 1
               /\ Kind(i) \notin {"If", "While"} => Opened(ops, 0, i - 1)' = o
    <3>1. i' - 1 = i
      BY <2>0, <2>1, SMT
    <3>2. Ended(ops, 0, i - 1)' = Ended(ops, 0, i) /\ Opened(ops, 0, i - 1)' = Opened(ops, 0, i)
      BY <2>1, <3>1 DEF Ended, Opened, Kind
    <3> QED BY <2>0, <3>2, CountStep
  <2> HIDE DEF o, e
  <2>2. CASE Open_Block
    <3>1. Len(stack') = Len(stack) + 1
      BY <2>2, SMT DEF Open_Block, Counted, TypeOK
    <3> QED BY <2>0, <2>1, <2>2, <3>1, SMT DEF Open_Block, Visit, Advance, Counted
  <2>3. CASE Link_Do \/ Link_Else
    <3>1. stack # <<>> /\ i \in Index /\ stack' = Append(Pop(stack), i)
      BY <2>0, <2>3 DEF Link_Do, Link_Else, Visit, TopIs
    <3>2. Len(stack') = Len(stack)
      BY <3>1, StackReplace DEF Counted, TypeOK
    <3> QED
      BY <2>0, <2>1, <2>3, <3>2
      DEF Link_Do, Link_Else, Visit, Advance, Counted
  <2>4. CASE End_Of_Branch \/ End_Of_Loop
    <3>1. stack # <<>> /\ stack' = Pop(stack)
      BY <2>4 DEF End_Of_Branch, End_Of_Loop, TopIs
    <3>2. Len(stack') = Len(stack) - 1
      BY <3>1, StackPop DEF Counted, TypeOK
    <3> QED
      BY <2>0, <2>1, <2>4, <3>2, SMT
      DEF End_Of_Branch, End_Of_Loop, Visit, Advance, Counted
  <2>5. CASE Skip
    BY <2>0, <2>1, <2>5 DEF Skip, Visit, Advance, Counted
  <2>6. CASE End_Without_Block
    BY <2>0, <2>6
    DEF End_Without_Block, Visit, Stop, Counted, Opened, Ended, Kind, Index
  <2>7. CASE \E how \in Status \ {"assert"} : Stop(how)
    BY <2>7 DEF Stop, Counted, Opened, Ended, Kind
  <2>8. CASE UNCHANGED vars
    BY <2>8 DEF vars, Counted, Opened, Ended, Kind, Index
  <2> QED
    BY <2>2, <2>3, <2>4, <2>5, <2>6, <2>7, <2>8
    DEF Next, Do_Without_While, Else_Without_If, End_Of_While, Return_True,
        Status
<1>3. Counted => AssertNeverFires
  <2> SUFFICES ASSUME Counted, status = "assert",
                      \A k \in Index : Ended(ops, 0, k) <= Opened(ops, 0, k)
               PROVE  FALSE
    BY DEF AssertNeverFires
  <2>1. i \in Nat /\ i \in Index /\ Kind(i) = "End" /\ Len(stack) = 0
    BY SMT DEF Counted, TypeOK
  <2>2. /\ Ended(ops, 0, i) = Ended(ops, 0, i - 1) + 1 /\ Ended(ops, 0, i - 1) \in Nat
        /\ Opened(ops, 0, i) = Opened(ops, 0, i - 1) /\ Opened(ops, 0, i - 1) \in Nat
    BY <2>1, CountStep
  <2> QED BY <2>1, <2>2, SMT DEF Counted
<1> QED BY <1>1, <1>2, <1>3, TypeCorrect, PTL DEF Spec

-----------------------------------------------------------------------------
(* The block structure of a body, by depth *)

\* How many blocks are open before operation k.
Depth(kinds, k) == Opened(kinds, 0, k - 1) - Ended(kinds, 0, k - 1)

\* Counting the numbers with a property, up to b: those before a, and the others.
LEMMA CountParts ==
  ASSUME NEW P, NEW a \in Nat, NEW b \in Nat, a <= b
  PROVE  /\ Cardinality({k \in 0 .. b - 1 : k \in P}) \in Nat
         /\ Cardinality({k \in 0 .. a - 1 : k \in P}) \in Nat
         /\ Cardinality({k \in a .. b - 1 : k \in P}) \in Nat
         /\ Cardinality({k \in 0 .. b - 1 : k \in P})
              = Cardinality({k \in 0 .. a - 1 : k \in P}) + Cardinality({k \in a .. b - 1 : k \in P})
<1> DEFINE A == {k \in 0 .. a - 1 : k \in P}
           B == {k \in a .. b - 1 : k \in P}
           C == {k \in 0 .. b - 1 : k \in P}
<1>1. IsFiniteSet(0 .. b - 1) /\ IsFiniteSet(0 .. a - 1) /\ IsFiniteSet(a .. b - 1)
  BY FS_Interval, SMT
<1>2. /\ A \in SUBSET (0 .. a - 1) /\ B \in SUBSET (a .. b - 1) /\ C \in SUBSET (0 .. b - 1)
      /\ C = A \cup B /\ A \cap B = {}
  BY SMT
<1>3. IsFiniteSet(A) /\ IsFiniteSet(B) /\ IsFiniteSet(C)
  <2> HIDE DEF A, B, C
  <2> QED BY <1>1, <1>2, FS_Subset
<1>4. /\ Cardinality(A) \in Nat /\ Cardinality(B) \in Nat /\ Cardinality(C) \in Nat
      /\ Cardinality(A \cup B) = Cardinality(A) + Cardinality(B) - Cardinality(A \cap B)
      /\ Cardinality({}) = 0
  <2> HIDE DEF A, B, C
  <2> QED BY <1>3, FS_CardinalityType, FS_Union, FS_EmptySet
<1>5. Cardinality(C) = Cardinality(A) + Cardinality(B)
  <2> HIDE DEF A, B, C
  <2>1. Cardinality(C) = Cardinality(A \cup B) /\ Cardinality(A \cap B) = 0
    BY <1>2, <1>4
  <2> QED BY <1>4, <2>1, SMT
<1> QED BY <1>4, <1>5

\* What is opened and ended between two operations is the change in depth.
LEMMA DepthBetween ==
  ASSUME NEW kinds, NEW a \in Nat, NEW b \in Nat, a <= b
  PROVE  /\ Opened(kinds, a, b - 1) \in Nat /\ Ended(kinds, a, b - 1) \in Nat
         /\ Depth(kinds, a) \in Int /\ Depth(kinds, b) \in Int
         /\ Opened(kinds, a, b - 1) - Ended(kinds, a, b - 1) = Depth(kinds, b) - Depth(kinds, a)
<1> DEFINE O == {k \in Nat : At(kinds, k) \in {"If", "While"}}
           E == {k \in Nat : At(kinds, k) = "End"}
<1>1. /\ Opened(kinds, a, b - 1) = Cardinality({k \in a .. b - 1 : k \in O})
      /\ Opened(kinds, 0, b - 1) = Cardinality({k \in 0 .. b - 1 : k \in O})
      /\ Opened(kinds, 0, a - 1) = Cardinality({k \in 0 .. a - 1 : k \in O})
  <2>1. /\ {k \in a .. b - 1 : k \in O} = {k \in a .. b - 1 : At(kinds, k) \in {"If", "While"}}
        /\ {k \in 0 .. b - 1 : k \in O} = {k \in 0 .. b - 1 : At(kinds, k) \in {"If", "While"}}
        /\ {k \in 0 .. a - 1 : k \in O} = {k \in 0 .. a - 1 : At(kinds, k) \in {"If", "While"}}
    BY SMT
  <2> HIDE DEF O
  <2> QED BY <2>1 DEF Opened
<1>2. /\ Ended(kinds, a, b - 1) = Cardinality({k \in a .. b - 1 : k \in E})
      /\ Ended(kinds, 0, b - 1) = Cardinality({k \in 0 .. b - 1 : k \in E})
      /\ Ended(kinds, 0, a - 1) = Cardinality({k \in 0 .. a - 1 : k \in E})
  <2>1. /\ {k \in a .. b - 1 : k \in E} = {k \in a .. b - 1 : At(kinds, k) = "End"}
        /\ {k \in 0 .. b - 1 : k \in E} = {k \in 0 .. b - 1 : At(kinds, k) = "End"}
        /\ {k \in 0 .. a - 1 : k \in E} = {k \in 0 .. a - 1 : At(kinds, k) = "End"}
    BY SMT
  <2> HIDE DEF E
  <2> QED BY <2>1 DEF Ended
<1> HIDE DEF O, E
<1>3. /\ Opened(kinds, a, b - 1) \in Nat /\ Opened(kinds, 0, b - 1) \in Nat
      /\ Opened(kinds, 0, a - 1) \in Nat
      /\ Opened(kinds, 0, b - 1) = Opened(kinds, 0, a - 1) + Opened(kinds, a, b - 1)
  <2>1. /\ Cardinality({k \in 0 .. b - 1 : k \in O}) \in Nat
        /\ Cardinality({k \in 0 .. a - 1 : k \in O}) \in Nat
        /\ Cardinality({k \in a .. b - 1 : k \in O}) \in Nat
        /\ Cardinality({k \in 0 .. b - 1 : k \in O})
             = Cardinality({k \in 0 .. a - 1 : k \in O}) + Cardinality({k \in a .. b - 1 : k \in O})
    BY CountParts
  <2> QED BY <1>1, <2>1
<1>4. /\ Ended(kinds, a, b - 1) \in Nat /\ Ended(kinds, 0, b - 1) \in Nat
      /\ Ended(kinds, 0, a - 1) \in Nat
      /\ Ended(kinds, 0, b - 1) = Ended(kinds, 0, a - 1) + Ended(kinds, a, b - 1)
  <2>1. /\ Cardinality({k \in 0 .. b - 1 : k \in E}) \in Nat
        /\ Cardinality({k \in 0 .. a - 1 : k \in E}) \in Nat
        /\ Cardinality({k \in a .. b - 1 : k \in E}) \in Nat
        /\ Cardinality({k \in 0 .. b - 1 : k \in E})
             = Cardinality({k \in 0 .. a - 1 : k \in E}) + Cardinality({k \in a .. b - 1 : k \in E})
    BY CountParts
  <2> QED BY <1>2, <2>1
<1> QED BY <1>3, <1>4, SMT DEF Depth

\* How the depth changes at an operation.
LEMMA DepthStep ==
  ASSUME NEW kinds, NEW k \in Nat
  PROVE  /\ Depth(kinds, k) \in Int /\ Depth(kinds, k + 1) \in Int
         /\ At(kinds, k) \in {"If", "While"} => Depth(kinds, k + 1) = Depth(kinds, k) + 1
         /\ At(kinds, k) = "End" => Depth(kinds, k + 1) = Depth(kinds, k) - 1
         /\ At(kinds, k) \notin {"If", "While", "End"} => Depth(kinds, k + 1) = Depth(kinds, k)
<1>1. /\ Opened(kinds, k, k) - Ended(kinds, k, k) = Depth(kinds, k + 1) - Depth(kinds, k)
      /\ Depth(kinds, k) \in Int /\ Depth(kinds, k + 1) \in Int
  <2>1. k + 1 \in Nat /\ k <= k + 1 /\ k + 1 - 1 = k
    BY SMT
  <2>2. /\ Opened(kinds, k, k + 1 - 1) - Ended(kinds, k, k + 1 - 1)
            = Depth(kinds, k + 1) - Depth(kinds, k)
        /\ Depth(kinds, k) \in Int /\ Depth(kinds, k + 1) \in Int
    BY <2>1, DepthBetween, SMT
  <2> QED BY <2>1, <2>2
<1>2. k .. k = {k}
  BY SMT
<1>3. Cardinality({}) = 0 /\ Cardinality({k}) = 1
  BY FS_EmptySet, FS_Singleton
<1>4. Opened(kinds, k, k) = IF At(kinds, k) \in {"If", "While"} THEN 1 ELSE 0
  <2>1. {m \in k .. k : At(kinds, m) \in {"If", "While"}}
          = IF At(kinds, k) \in {"If", "While"} THEN {k} ELSE {}
    BY <1>2
  <2> QED BY <1>3, <2>1 DEF Opened
<1>5. Ended(kinds, k, k) = IF At(kinds, k) = "End" THEN 1 ELSE 0
  <2>1. {m \in k .. k : At(kinds, m) = "End"} = IF At(kinds, k) = "End" THEN {k} ELSE {}
    BY <1>2
  <2> QED BY <1>3, <2>1 DEF Ended
<1> QED BY <1>1, <1>4, <1>5, SMT

\* The depth before the first operation.
LEMMA DepthFirst ==
  ASSUME NEW kinds
  PROVE  Depth(kinds, 0) = 0
<1>1. 0 .. 0 - 1 = {} /\ Cardinality({}) = 0
  BY FS_EmptySet, SMT
<1>2. Opened(kinds, 0, 0 - 1) = 0 /\ Ended(kinds, 0, 0 - 1) = 0
  BY <1>1 DEF Opened, Ended
<1> QED BY <1>2, SMT DEF Depth

\* The block of a is not left before operation b.
Stays_In(kinds, a, b) == \A c \in a + 1 .. b : Depth(kinds, c) >= Depth(kinds, a + 1)

\* Same_Block, by depth.
LEMMA SameBlock ==
  ASSUME NEW kinds, NEW a \in Nat, NEW b \in Nat
  PROVE  Same_Block(kinds, a, b) <=>
           a < b /\ Depth(kinds, b) = Depth(kinds, a + 1) /\ Stays_In(kinds, a, b)
<1> SUFFICES ASSUME a < b
             PROVE  Same_Block(kinds, a, b) <=>
                      Depth(kinds, b) = Depth(kinds, a + 1) /\ Stays_In(kinds, a, b)
  BY DEF Same_Block
<1>0. a + 1 \in Nat /\ a + 1 <= b
  BY SMT
<1>1. /\ Opened(kinds, a + 1, b - 1) \in Nat /\ Ended(kinds, a + 1, b - 1) \in Nat
      /\ Depth(kinds, a + 1) \in Int /\ Depth(kinds, b) \in Int
      /\ Opened(kinds, a + 1, b - 1) - Ended(kinds, a + 1, b - 1)
           = Depth(kinds, b) - Depth(kinds, a + 1)
  BY <1>0, DepthBetween
<1>2. Opened(kinds, a + 1, b - 1) = Ended(kinds, a + 1, b - 1)
        <=> Depth(kinds, b) = Depth(kinds, a + 1)
  <2>1. PICK o \in Nat, e \in Nat, x \in Int, y \in Int :
          /\ o = Opened(kinds, a + 1, b - 1) /\ e = Ended(kinds, a + 1, b - 1)
          /\ x = Depth(kinds, b) /\ y = Depth(kinds, a + 1) /\ o - e = x - y
    BY <1>1
  <2>2. o = e <=> x = y
    BY <2>1, SMT
  <2> QED BY <2>1, <2>2
<1>3. ASSUME NEW c \in a + 1 .. b - 1
      PROVE  Ended(kinds, a + 1, c) <= Opened(kinds, a + 1, c)
               <=> Depth(kinds, c + 1) >= Depth(kinds, a + 1)
  <2>1. c + 1 \in Nat /\ a + 1 <= c + 1 /\ c + 1 - 1 = c
    BY SMT
  <2>2. /\ Opened(kinds, a + 1, c + 1 - 1) \in Nat /\ Ended(kinds, a + 1, c + 1 - 1) \in Nat
        /\ Depth(kinds, a + 1) \in Int /\ Depth(kinds, c + 1) \in Int
        /\ Opened(kinds, a + 1, c + 1 - 1) - Ended(kinds, a + 1, c + 1 - 1)
             = Depth(kinds, c + 1) - Depth(kinds, a + 1)
    BY <1>0, <2>1, DepthBetween, SMT
  <2>3. /\ Opened(kinds, a + 1, c) \in Nat /\ Ended(kinds, a + 1, c) \in Nat
        /\ Opened(kinds, a + 1, c) - Ended(kinds, a + 1, c)
             = Depth(kinds, c + 1) - Depth(kinds, a + 1)
    BY <2>1, <2>2
  <2> QED BY <2>2, <2>3, SMT
<1>4. (\A c \in a + 1 .. b - 1 : Depth(kinds, c + 1) >= Depth(kinds, a + 1))
        <=> Stays_In(kinds, a, b)
  <2>1. ASSUME \A c \in a + 1 .. b - 1 : Depth(kinds, c + 1) >= Depth(kinds, a + 1),
               NEW d \in a + 1 .. b
        PROVE  Depth(kinds, d) >= Depth(kinds, a + 1)
    <3>1. CASE d = a + 1
      BY <1>1, <3>1, SMT
    <3>2. CASE d # a + 1
      <4>1. d - 1 \in a + 1 .. b - 1 /\ d - 1 + 1 = d
        BY <3>2, SMT
      <4>2. Depth(kinds, d - 1 + 1) >= Depth(kinds, a + 1)
        BY <2>1, <4>1
      <4> QED BY <4>1, <4>2
    <3> QED BY <3>1, <3>2
  <2>2. ASSUME Stays_In(kinds, a, b), NEW c \in a + 1 .. b - 1
        PROVE  Depth(kinds, c + 1) >= Depth(kinds, a + 1)
    <3>1. c + 1 \in a + 1 .. b
      BY SMT
    <3> QED BY <2>2, <3>1 DEF Stays_In
  <2> QED BY <2>1, <2>2 DEF Stays_In
<1>5. (\A c \in a + 1 .. b - 1 : Ended(kinds, a + 1, c) <= Opened(kinds, a + 1, c))
        <=> Stays_In(kinds, a, b)
  BY <1>3, <1>4
<1> QED BY <1>2, <1>5 DEF Same_Block

\* Nothing in between, or something in between: from a to k and on to b.
LEMMA SameBlockOn ==
  ASSUME NEW kinds, NEW a \in Nat, NEW k \in Nat, NEW b \in Nat,
         Same_Block(kinds, a, k), Same_Block(kinds, k, b),
         At(kinds, k) \notin {"If", "While", "End"}
  PROVE  Same_Block(kinds, a, b)
<1>1. /\ a < k /\ Depth(kinds, k) = Depth(kinds, a + 1) /\ Stays_In(kinds, a, k)
      /\ k < b /\ Depth(kinds, b) = Depth(kinds, k + 1) /\ Stays_In(kinds, k, b)
  BY SameBlock
<1>2. Depth(kinds, k + 1) = Depth(kinds, k)
  BY DepthStep
<1>3. ASSUME NEW c \in a + 1 .. b
      PROVE  Depth(kinds, c) >= Depth(kinds, a + 1)
  <2>1. CASE c <= k
    <3>1. c \in a + 1 .. k
      BY <2>1, SMT
    <3> QED BY <1>1, <3>1 DEF Stays_In
  <2>2. CASE ~(c <= k)
    <3>1. c \in k + 1 .. b
      BY <2>2, SMT
    <3> QED BY <1>1, <1>2, <3>1 DEF Stays_In
  <2> QED BY <2>1, <2>2
<1>4. a < b /\ Depth(kinds, b) = Depth(kinds, a + 1) /\ Stays_In(kinds, a, b)
  <2>1. a < b
    BY <1>1, SMT
  <2> QED BY <1>1, <1>2, <1>3, <2>1 DEF Stays_In
<1> QED BY <1>4, SameBlock

\* The operation that opens a block is at a place before it.
LEMMA OpenersIs ==
  ASSUME NEW kinds, NEW k \in Nat, NEW a
  PROVE  a \in Openers(kinds, k) <=>
           a \in Nat /\ At(kinds, a) \in {"If", "While"} /\ Same_Block(kinds, a, k)
<1>1. a \in Nat /\ Same_Block(kinds, a, k) => a \in 0 .. k - 1
  BY SMT DEF Same_Block
<1>2. a \in 0 .. k - 1 => a \in Nat
  BY SMT
<1> QED BY <1>1, <1>2 DEF Openers

\* There is at most one of them.
LEMMA OneOpener ==
  ASSUME NEW kinds, NEW k \in Nat, NEW a \in Openers(kinds, k), NEW b \in Openers(kinds, k)
  PROVE  a = b
<1>1. ASSUME NEW x \in Openers(kinds, k), NEW y \in Openers(kinds, k), x < y
      PROVE  FALSE
  <2>1. /\ x \in Nat /\ Same_Block(kinds, x, k)
        /\ y \in Nat /\ Same_Block(kinds, y, k) /\ At(kinds, y) \in {"If", "While"}
    BY OpenersIs
  <2>2. /\ Depth(kinds, k) = Depth(kinds, x + 1) /\ Stays_In(kinds, x, k)
        /\ Depth(kinds, k) = Depth(kinds, y + 1) /\ y < k
    BY <2>1, SameBlock
  <2>3. Depth(kinds, y) \in Int /\ Depth(kinds, y + 1) = Depth(kinds, y) + 1
    BY <2>1, DepthStep
  <2>4. y \in x + 1 .. k
    BY <1>1, <2>1, <2>2, SMT
  <2>5. Depth(kinds, y) >= Depth(kinds, x + 1)
    BY <2>2, <2>4 DEF Stays_In
  <2>6. Depth(kinds, x + 1) = Depth(kinds, y + 1)
    BY <2>2
  <2> QED BY <2>3, <2>5, <2>6, SMT
<1>2. a \in Nat /\ b \in Nat
  BY OpenersIs
<1>3. ~(a < b) /\ ~(b < a)
  BY <1>1
<1> QED BY <1>2, <1>3, SMT

\* Where no block is open there is none.
LEMMA NoOpener ==
  ASSUME NEW kinds, NEW k \in Nat, Depth(kinds, k) = 0,
         \A c \in 0 .. k : Depth(kinds, c) >= 0, NEW a
  PROVE  a \notin Openers(kinds, k)
<1> SUFFICES ASSUME a \in Openers(kinds, k) PROVE FALSE
  OBVIOUS
<1>1. a \in Nat /\ At(kinds, a) \in {"If", "While"} /\ Same_Block(kinds, a, k)
  BY OpenersIs
<1>2. a < k /\ Depth(kinds, k) = Depth(kinds, a + 1)
  BY <1>1, SameBlock
<1>3. Depth(kinds, a) \in Int /\ Depth(kinds, a + 1) = Depth(kinds, a) + 1
  BY <1>1, DepthStep
<1>4. a \in 0 .. k
  BY <1>1, <1>2, SMT
<1> QED BY <1>2, <1>3, <1>4, SMT

-----------------------------------------------------------------------------

\* Operation k is the last `if`, `while`, `else` or `do` of the n-th open block,
\* before operation m.
Marks(kinds, m, k, n) ==
  /\ k \in Nat /\ k < m /\ Depth(kinds, k + 1) = n /\ Stays_In(kinds, k, m)
  /\ At(kinds, k) \in {"If", "While", "Else", "Do"}
  /\ \A c \in k + 1 .. m - 1 :
       At(kinds, c) \in {"Else", "Do", "End"} => ~Same_Block(kinds, k, c)

-----------------------------------------------------------------------------
(* The marks of the open blocks *)

\* It belongs to the block that operation m is in, if that is the innermost one.
LEMMA MarkSame ==
  ASSUME NEW kinds, NEW m \in Nat, NEW k, NEW n, Marks(kinds, m, k, n), Depth(kinds, m) = n
  PROVE  Same_Block(kinds, k, m)
<1>1. k \in Nat /\ k < m /\ Depth(kinds, m) = Depth(kinds, k + 1) /\ Stays_In(kinds, k, m)
  BY DEF Marks
<1> QED BY <1>1, SameBlock

\* No other block is open for as long.
LEMMA MarkDepth ==
  ASSUME NEW kinds, NEW m \in Nat, NEW k, NEW n, Marks(kinds, m, k, n)
  PROVE  n <= Depth(kinds, m)
<1>1. k \in Nat /\ k < m /\ Depth(kinds, k + 1) = n /\ Stays_In(kinds, k, m)
  BY DEF Marks
<1>2. m \in k + 1 .. m
  BY <1>1, SMT
<1> QED BY <1>1, <1>2 DEF Stays_In

\* One operation further it is still the last one, unless this operation is the
\* next one of the same block.
LEMMA MarkOn ==
  ASSUME NEW kinds, NEW m \in Nat, NEW k, NEW n \in Int, Marks(kinds, m, k, n),
         n < Depth(kinds, m) \/ At(kinds, m) \notin {"Else", "Do", "End"}
  PROVE  Marks(kinds, m + 1, k, n)
<1>1. /\ k \in Nat /\ k < m /\ Depth(kinds, k + 1) = n /\ Stays_In(kinds, k, m)
      /\ n <= Depth(kinds, m)
  BY MarkDepth DEF Marks
<1>2. /\ Depth(kinds, m) \in Int /\ Depth(kinds, m + 1) \in Int
      /\ At(kinds, m) # "End" => Depth(kinds, m + 1) >= Depth(kinds, m)
      /\ Depth(kinds, m + 1) >= Depth(kinds, m) - 1
  <2>1. /\ Depth(kinds, m) \in Int /\ Depth(kinds, m + 1) \in Int
        /\ At(kinds, m) \in {"If", "While"} => Depth(kinds, m + 1) = Depth(kinds, m) + 1
        /\ At(kinds, m) = "End" => Depth(kinds, m + 1) = Depth(kinds, m) - 1
        /\ At(kinds, m) \notin {"If", "While", "End"} => Depth(kinds, m + 1) = Depth(kinds, m)
    BY DepthStep
  <2> QED BY <2>1, SMT
<1>3. Depth(kinds, m + 1) >= n
  BY <1>1, <1>2, SMT
<1>4. Stays_In(kinds, k, m + 1)
  <2>1. ASSUME NEW c \in k + 1 .. m + 1
        PROVE  Depth(kinds, c) >= Depth(kinds, k + 1)
    <3>1. c = m + 1 \/ c \in k + 1 .. m
      BY <1>1, SMT
    <3> QED BY <1>1, <1>3, <3>1 DEF Stays_In
  <2> QED BY <2>1 DEF Stays_In
<1>5. At(kinds, m) \in {"Else", "Do", "End"} => ~Same_Block(kinds, k, m)
  <2>1. Same_Block(kinds, k, m) => Depth(kinds, m) = n
    BY <1>1, SameBlock
  <2>2. n < Depth(kinds, m) => Depth(kinds, m) # n
    BY <1>2, SMT
  <2> QED BY <2>1, <2>2
<1>6. ASSUME NEW c \in k + 1 .. m + 1 - 1, At(kinds, c) \in {"Else", "Do", "End"}
      PROVE  ~Same_Block(kinds, k, c)
  <2>1. c = m \/ c \in k + 1 .. m - 1
    BY <1>1, SMT
  <2> QED BY <1>5, <1>6, <2>1 DEF Marks
<1>7. k < m + 1
  BY <1>1, SMT
<1> QED BY <1>1, <1>4, <1>6, <1>7, SMT DEF Marks

\* An operation that opens a block or is the next one of the innermost block.
LEMMA MarkNew ==
  ASSUME NEW kinds, NEW m \in Nat, At(kinds, m) \in {"If", "While", "Else", "Do"}
  PROVE  Marks(kinds, m + 1, m, Depth(kinds, m + 1))
<1>1. m < m + 1 /\ m + 1 .. m + 1 - 1 = {} /\ m + 1 .. m + 1 = {m + 1}
  BY SMT
<1>2. Depth(kinds, m + 1) \in Int
  BY DepthStep
<1>3. Stays_In(kinds, m, m + 1)
  BY <1>1, <1>2, SMT DEF Stays_In
<1> QED BY <1>1, <1>3, SMT DEF Marks

\* The block of the mark k at operation m: k opens it, or the operation that
\* opens it is the one around k.
LEMMA MarkOpener ==
  ASSUME NEW kinds, NEW m \in Nat, NEW k, NEW n, Marks(kinds, m, k, n), Depth(kinds, m) = n
  PROVE  /\ At(kinds, k) \in {"If", "While"} => k \in Openers(kinds, m)
         /\ At(kinds, k) \in {"Else", "Do"} =>
              \A a \in Openers(kinds, k) : a \in Openers(kinds, m)
<1>1. k \in Nat /\ Same_Block(kinds, k, m)
  BY MarkSame DEF Marks
<1>2. At(kinds, k) \in {"If", "While"} => k \in Openers(kinds, m)
  BY <1>1, OpenersIs
<1>3. ASSUME At(kinds, k) \in {"Else", "Do"}, NEW a \in Openers(kinds, k)
      PROVE  a \in Openers(kinds, m)
  <2>1. a \in Nat /\ At(kinds, a) \in {"If", "While"} /\ Same_Block(kinds, a, k)
    BY <1>1, OpenersIs
  <2>2. At(kinds, k) \notin {"If", "While", "End"}
    BY <1>3
  <2>3. Same_Block(kinds, a, m)
    BY <1>1, <2>1, <2>2, SameBlockOn
  <2> QED BY <2>1, <2>3, OpenersIs
<1> QED BY <1>2, <1>3

-----------------------------------------------------------------------------

\* The operations of these kinds that come later in the block of k, and the
\* first of them.
Later(kinds, k, ks) ==
  {b \in k + 1 .. Len(kinds) - 1 : At(kinds, b) \in ks /\ Same_Block(kinds, k, b)}
First(B) == CHOOSE b \in B : \A c \in B : b <= c

\* Block_Jump, kind by kind.
LEMMA BlockJumpIs ==
  ASSUME NEW kinds, NEW k
  PROVE  /\ At(kinds, k) = "If" =>
              \A b : b = First(Later(kinds, k, {"Else", "End"})) =>
                Block_Jump(kinds, k) = IF At(kinds, b) = "Else" THEN b + 1 ELSE b
         /\ At(kinds, k) = "Else" => Block_Jump(kinds, k) = First(Later(kinds, k, {"End"}))
         /\ At(kinds, k) = "Do" => Block_Jump(kinds, k) = First(Later(kinds, k, {"End"})) + 1
         /\ At(kinds, k) = "End" =>
              \A a : a = (CHOOSE x \in Openers(kinds, k) : TRUE) =>
                Block_Jump(kinds, k) = IF At(kinds, a) = "While" THEN a ELSE k + 1
         /\ At(kinds, k) \notin Jumping_Kind => Block_Jump(kinds, k) = Empty_Jump
<1>1. CASE At(kinds, k) = "If"
  <2>1. Block_Jump(kinds, k) = LET b == First(Later(kinds, k, {"Else", "End"}))
                               IN IF At(kinds, b) = "Else" THEN b + 1 ELSE b
    BY <1>1 DEF Block_Jump, First, Later
  <2>2. \A b : b = First(Later(kinds, k, {"Else", "End"})) =>
          Block_Jump(kinds, k) = IF At(kinds, b) = "Else" THEN b + 1 ELSE b
    BY <2>1
  <2> QED BY <1>1, <2>2 DEF Jumping_Kind
<1>2. CASE At(kinds, k) = "Else"
  BY <1>2 DEF Block_Jump, First, Later, Jumping_Kind
<1>3. CASE At(kinds, k) = "Do"
  BY <1>3 DEF Block_Jump, First, Later, Jumping_Kind
<1>4. CASE At(kinds, k) = "End"
  BY <1>4 DEF Block_Jump, Jumping_Kind
<1>5. CASE At(kinds, k) \notin Jumping_Kind
  BY <1>5 DEF Block_Jump, First, Later, Jumping_Kind
<1> QED BY <1>1, <1>2, <1>3, <1>4, <1>5 DEF Jumping_Kind

\* The operation at m is the first one of its kind after the mark k.
LEMMA MarkFirst ==
  ASSUME NEW kinds, NEW m \in Nat, m <= Len(kinds) - 1, Len(kinds) \in Nat, NEW k, NEW n,
         Marks(kinds, m, k, n), Depth(kinds, m) = n,
         NEW ks, ks \subseteq {"Else", "Do", "End"}, At(kinds, m) \in ks
  PROVE  First(Later(kinds, k, ks)) = m
<1> DEFINE B == Later(kinds, k, ks)
<1>1. k \in Nat /\ k < m /\ Same_Block(kinds, k, m)
  BY MarkSame DEF Marks
<1>2. m \in B
  <2>1. m \in k + 1 .. Len(kinds) - 1
    BY <1>1, SMT
  <2> QED BY <1>1, <2>1 DEF Later
<1>3. ASSUME NEW c \in B PROVE c \in Nat /\ m <= c
  <2>1. c \in Nat /\ c >= k + 1 /\ At(kinds, c) \in {"Else", "Do", "End"} /\ Same_Block(kinds, k, c)
    <3>1. c \in k + 1 .. Len(kinds) - 1 /\ At(kinds, c) \in ks /\ Same_Block(kinds, k, c)
      BY DEF Later
    <3>2. c \in Nat /\ c >= k + 1
      BY <1>1, <3>1, SMT
    <3> QED BY <3>1, <3>2
  <2>2. c \notin k + 1 .. m - 1
    BY <2>1 DEF Marks
  <2> QED BY <1>1, <2>1, <2>2, SMT
<1> HIDE DEF B
<1>4. \A b \in B : (\A c \in B : b <= c) => b = m
  BY <1>2, <1>3, SMT
<1>5. First(B) = m
  BY <1>2, <1>3, <1>4 DEF First
<1> QED BY <1>5 DEF B

\* The jump of an `end`, by the operation that opens its block.
LEMMA EndJump ==
  ASSUME NEW kinds, NEW m \in Nat, At(kinds, m) = "End", NEW a \in Openers(kinds, m)
  PROVE  Block_Jump(kinds, m) = IF At(kinds, a) = "While" THEN a ELSE m + 1
<1>1. (CHOOSE x \in Openers(kinds, m) : TRUE) \in Openers(kinds, m)
  OBVIOUS
<1>2. a = (CHOOSE x \in Openers(kinds, m) : TRUE)
  BY <1>1, OneOpener
<1> QED BY <1>2, BlockJumpIs

-----------------------------------------------------------------------------
(* What the pass knows of the blocks behind it *)

\* The stack s has the last mark of every block that is open before operation m.
Deep(kinds, m, s) ==
  /\ Depth(kinds, m) = Len(s)
  /\ \A c \in 0 .. m : Depth(kinds, c) >= 0
  /\ \A n \in 1 .. Len(s) : Marks(kinds, m, s[n], n)

\* One operation further, what stays on the stack is below the innermost block,
\* or this operation is no mark; what is new is this operation.
LEMMA DeepStep ==
  ASSUME NEW kinds, NEW m \in Nat, NEW s, Len(s) \in Nat, Deep(kinds, m, s),
         NEW s2, Len(s2) \in Nat, Depth(kinds, m + 1) = Len(s2),
         \A n \in 1 .. Len(s2) :
            \/ /\ n \in 1 .. Len(s) /\ s2[n] = s[n]
               /\ n < Len(s) \/ At(kinds, m) \notin {"Else", "Do", "End"}
            \/ n = Len(s2) /\ s2[n] = m /\ At(kinds, m) \in {"If", "While", "Else", "Do"}
  PROVE  Deep(kinds, m + 1, s2)
<1>1. ASSUME NEW c \in 0 .. m + 1 PROVE Depth(kinds, c) >= 0
  <2>1. c = m + 1 \/ c \in 0 .. m
    BY SMT
  <2>2. CASE c = m + 1
    BY <2>2, SMT
  <2>3. CASE c \in 0 .. m
    BY <2>3 DEF Deep
  <2> QED BY <2>1, <2>2, <2>3
<1>2. ASSUME NEW n \in 1 .. Len(s2) PROVE Marks(kinds, m + 1, s2[n], n)
  <2>1. CASE /\ n \in 1 .. Len(s) /\ s2[n] = s[n]
             /\ n < Len(s) \/ At(kinds, m) \notin {"Else", "Do", "End"}
    <3>1. Marks(kinds, m, s2[n], n)
      BY <2>1 DEF Deep
    <3>2. n \in Int /\ (n < Depth(kinds, m) \/ At(kinds, m) \notin {"Else", "Do", "End"})
      BY <2>1, SMT DEF Deep
    <3> QED BY <3>1, <3>2, MarkOn
  <2>2. CASE n = Len(s2) /\ s2[n] = m /\ At(kinds, m) \in {"If", "While", "Else", "Do"}
    <3>1. Marks(kinds, m + 1, m, Depth(kinds, m + 1))
      BY <2>2, MarkNew
    <3> QED BY <2>2, <3>1
  <2> QED BY <2>1, <2>2
<1> QED BY <1>1, <1>2 DEF Deep

\* An operation that closes or divides a block does so to the right one.
Placed(kinds, k) ==
  /\ At(kinds, k) = "End" => \E a : a \in Openers(kinds, k)
  /\ At(kinds, k) = "Else" => \E a \in Openers(kinds, k) : At(kinds, a) = "If"
  /\ At(kinds, k) = "Do" => \E a \in Openers(kinds, k) : At(kinds, a) = "While"

\* Operations c and d divide the same block.
Rivals(kinds, c, d) ==
  /\ At(kinds, c) \in {"Else", "Do"} /\ At(kinds, d) \in {"Else", "Do"}
  /\ \E a : a \in Openers(kinds, c) /\ a \in Openers(kinds, d)

\* Operation c is the `do` of the loop a.
Is_Do_Of(kinds, c, a) == At(kinds, c) = "Do" /\ a \in Openers(kinds, c)

\* The blocks before operation m are those of a well formed body, but for those
\* with a mark in O, which are still open.
Paired(kinds, m, O) ==
  /\ \A k \in 0 .. m - 1 : Placed(kinds, k)
  /\ \A c, d \in 0 .. m - 1 : Rivals(kinds, c, d) => c = d
  /\ \A a \in 0 .. m - 1 :
       At(kinds, a) = "While" => a \in O \/ \E c \in 0 .. m - 1 : Is_Do_Of(kinds, c, a)

\* One operation further.
LEMMA PairedStep ==
  ASSUME NEW kinds, NEW m \in Nat, NEW O, Paired(kinds, m, O), Placed(kinds, m),
         \A c \in 0 .. m - 1 : ~Rivals(kinds, c, m),
         NEW O2, \A a \in O : At(kinds, a) = "While" => a \in O2 \/ Is_Do_Of(kinds, m, a),
         At(kinds, m) = "While" => m \in O2
  PROVE  Paired(kinds, m + 1, O2)
<1>1. \A k : k \in 0 .. m + 1 - 1 <=> k = m \/ k \in 0 .. m - 1
  BY SMT
<1>2. \A k \in 0 .. m + 1 - 1 : Placed(kinds, k)
  BY <1>1 DEF Paired
<1>3. ASSUME NEW c \in 0 .. m + 1 - 1, NEW d \in 0 .. m + 1 - 1, Rivals(kinds, c, d)
      PROVE  c = d
  <2>1. Rivals(kinds, d, c)
    BY <1>3 DEF Rivals
  <2> QED BY <1>1, <1>3, <2>1 DEF Paired
<1>4. ASSUME NEW a \in 0 .. m + 1 - 1, At(kinds, a) = "While"
      PROVE  a \in O2 \/ \E c \in 0 .. m + 1 - 1 : Is_Do_Of(kinds, c, a)
  <2>1. CASE a = m
    BY <1>4, <2>1
  <2>2. CASE a \in 0 .. m - 1 /\ a \in O
    BY <1>1, <1>4, <2>2
  <2>3. CASE a \in 0 .. m - 1 /\ \E c \in 0 .. m - 1 : Is_Do_Of(kinds, c, a)
    BY <1>1, <2>3
  <2> QED BY <1>1, <1>4, <2>1, <2>2, <2>3 DEF Paired
<1> QED BY <1>2, <1>3, <1>4, SMT DEF Paired

\* A mark that opens its block has no rival before m in this block.
LEMMA NoRival ==
  ASSUME NEW kinds, NEW m \in Nat, NEW k, NEW n, Marks(kinds, m, k, n), Depth(kinds, m) = n,
         At(kinds, k) \in {"If", "While"}, NEW c \in 0 .. m - 1
  PROVE  ~Rivals(kinds, c, m)
<1> SUFFICES ASSUME Rivals(kinds, c, m) PROVE FALSE
  OBVIOUS
<1>1. PICK a : /\ a \in Openers(kinds, c) /\ a \in Openers(kinds, m)
               /\ At(kinds, c) \in {"Else", "Do"}
  BY DEF Rivals
<1>2. k \in Openers(kinds, m)
  BY MarkOpener
<1>3. a = k
  BY <1>1, <1>2, OneOpener
<1>4. c \in Nat /\ k \in Nat /\ Same_Block(kinds, k, c)
  <2>1. c \in Nat
    BY SMT
  <2> QED BY <1>1, <1>3, <2>1, OpenersIs
<1>5. k < c
  BY <1>4 DEF Same_Block
<1>6. c \in k + 1 .. m - 1
  BY <1>4, <1>5, SMT
<1> QED BY <1>1, <1>4, <1>6 DEF Marks

\* The jumps of the operations before m are those that the blocks call for, but
\* for the marks in O: a `do` has the `while` of its loop until the `end`.
Linked(kinds, m, O, j) ==
  /\ \A k \in 0 .. m - 1 : k \in O \/ j[k] = Block_Jump(kinds, k)
  /\ \A k \in O : At(kinds, k) = "Do" => j[k] \in Openers(kinds, k)
  /\ \A k \in O : At(kinds, k) = "While" => j[k] = Empty_Jump
  /\ \A k \in m .. Len(kinds) - 1 : j[k] = Empty_Jump

\* The second inductive invariant.
Blocks ==
  /\ IInv /\ Deep(ops, i, stack) /\ Paired(ops, i, Open) /\ Linked(ops, i, Open, jump)

\* What the invariant says of the innermost block.
LEMMA Innermost ==
  ASSUME Blocks, stack # <<>>
  PROVE  \E k, n : /\ k = Top(stack) /\ n = Len(stack) /\ n \in Nat \ {0}
                   /\ k \in Nat /\ k < i /\ k \in Open
                   /\ Marks(ops, i, k, n) /\ Depth(ops, i) = n
                   /\ Same_Block(ops, k, i) /\ At(ops, k) \in {"If", "While", "Else", "Do"}
<1>1. PICK k, n : k = Top(stack) /\ n = Len(stack)
  OBVIOUS
<1>2. n \in Nat \ {0} /\ n \in 1 .. n
  <2>1. n \in Nat /\ n # 0
    BY <1>1, SeqEmpty, SeqLen DEF Blocks, IInv, TypeOK
  <2> QED BY <2>1, SMT
<1>3. k = stack[n] /\ Marks(ops, i, k, n) /\ Depth(ops, i) = n
  BY <1>1, <1>2 DEF Top, Blocks, Deep
<1>4. k \in Nat /\ k < i /\ At(ops, k) \in {"If", "While", "Else", "Do"}
  BY <1>3 DEF Marks
<1>5. Same_Block(ops, k, i)
  <2>1. i \in Nat
    BY SMT DEF Blocks, IInv, TypeOK
  <2> QED BY <1>3, <2>1, MarkSame
<1>6. k \in Open
  BY <1>1, <1>2, <1>3 DEF Open
<1> QED BY <1>1, <1>2, <1>3, <1>4, <1>5, <1>6

-----------------------------------------------------------------------------
(* The actions *)

\* One operation further: the marks in K are done with, and operation m is.
LEMMA LinkedStep ==
  ASSUME NEW kinds, NEW m \in Nat, Len(kinds) \in Nat, m < Len(kinds),
         NEW O, O \subseteq 0 .. m - 1, NEW j, Linked(kinds, m, O, j),
         NEW K, K \subseteq O, NEW O2, NEW j2,
         \A x \in O : x \in K \/ x \in O2,
         \A x \in O2 : x = m \/ (x \in O /\ x \notin K),
         \A x \in 0 .. Len(kinds) - 1 : x \in K \/ x = m \/ j2[x] = j[x],
         \A x \in K : j2[x] = Block_Jump(kinds, x),
         m \in O2 \/ j2[m] = Block_Jump(kinds, m),
         m \in O2 /\ At(kinds, m) = "Do" => j2[m] \in Openers(kinds, m),
         m \in O2 /\ At(kinds, m) = "While" => j2[m] = Empty_Jump
  PROVE  Linked(kinds, m + 1, O2, j2)
<1>1. ASSUME NEW x \in 0 .. m + 1 - 1 PROVE x \in O2 \/ j2[x] = Block_Jump(kinds, x)
  <2>1. x = m \/ (x \in 0 .. m - 1 /\ x # m /\ x \in 0 .. Len(kinds) - 1)
    BY SMT
  <2> QED BY <2>1 DEF Linked
<1>2. ASSUME NEW x \in O2
      PROVE  x = m \/ (x \in O /\ j2[x] = j[x])
  <2>1. x \in O => x # m /\ x \in 0 .. Len(kinds) - 1
    BY SMT
  <2> QED BY <2>1
<1>3. ASSUME NEW x \in m + 1 .. Len(kinds) - 1 PROVE j2[x] = Empty_Jump
  <2>1. x \in m .. Len(kinds) - 1 /\ x \in 0 .. Len(kinds) - 1 /\ x # m /\ x \notin 0 .. m - 1
    BY SMT
  <2>2. x \notin K
    BY <2>1
  <2>3. j2[x] = j[x]
    BY <2>1, <2>2
  <2>4. j[x] = Empty_Jump
    BY <2>1 DEF Linked
  <2> QED BY <2>3, <2>4
<1>4. ASSUME NEW x \in O2
      PROVE  /\ At(kinds, x) = "Do" => j2[x] \in Openers(kinds, x)
             /\ At(kinds, x) = "While" => j2[x] = Empty_Jump
  BY <1>2 DEF Linked
<1> QED BY <1>1, <1>3, <1>4, SMT DEF Linked

\* What every step needs to know.
LEMMA Standing ==
  ASSUME Blocks
  PROVE  /\ i \in Nat /\ Len(ops) \in Nat /\ Len(stack) \in Nat
         /\ Open \subseteq 0 .. i - 1 /\ i \notin Open
         /\ jump \in [Index -> 0 .. Len(ops) \cup {Empty_Jump}]
         /\ i < Len(ops) => i \in Index /\ jump[i] = Empty_Jump
         /\ Nested /\ TypeOK
<1>1. i \in Nat /\ Len(ops) \in Nat /\ Len(stack) \in Nat /\ TypeOK /\ Nested
      /\ jump \in [Index -> 0 .. Len(ops) \cup {Empty_Jump}]
  BY SeqLen, SMT DEF Blocks, IInv, TypeOK, OpenBlocks
<1>2. Open \subseteq Nat
  BY <1>1, SeqElement, SMT DEF TypeOK, Open, Index
<1>3. Open \subseteq 0 .. i - 1
  BY <1>1, <1>2, SMT DEF Blocks, IInv, OpenBlocks
<1>4. i < Len(ops) => i \in Index /\ i \in i .. Len(ops) - 1
  BY <1>1, SMT DEF Index
<1>5. i < Len(ops) => jump[i] = Empty_Jump
  BY <1>4 DEF Blocks, Linked
<1>6. i \notin 0 .. i - 1
  BY <1>1, SMT
<1> QED BY <1>1, <1>3, <1>4, <1>5, <1>6

\* An `if` or `while`.
LEMMA OpenKeeps ==
  ASSUME Blocks, Open_Block, TypeOK'
  PROVE  Deep(ops, i, stack)' /\ Paired(ops, i, Open)' /\ Linked(ops, i, Open, jump)'
<1>0. /\ i \in Nat /\ Len(ops) \in Nat /\ Len(stack) \in Nat
      /\ Open \subseteq 0 .. i - 1 /\ i \notin Open
      /\ jump \in [Index -> 0 .. Len(ops) \cup {Empty_Jump}]
      /\ i < Len(ops) => i \in Index /\ jump[i] = Empty_Jump
      /\ Nested /\ TypeOK
  BY Standing
<1>1. /\ i < Len(ops) /\ At(ops, i) \in {"While", "If"} /\ stack' = Append(stack, i)
      /\ jump' = jump /\ i' = i + 1 /\ ops' = ops
  BY DEF Open_Block, Visit, Advance, Kind
<1>2. PICK O : O = Open /\ Open' = O \cup {i}
  BY <1>0, <1>1, OpenAfterPush
<1>3. /\ Len(stack') = Len(stack) + 1 /\ stack'[Len(stack) + 1] = i
      /\ \A n \in 1 .. Len(stack) : stack'[n] = stack[n]
  BY <1>0, <1>1, SMT DEF TypeOK
<1>4. Depth(ops, i) = Len(stack) /\ Depth(ops, i + 1) = Len(stack) + 1
  BY <1>0, <1>1, DepthStep DEF Blocks, Deep
<1>5. Deep(ops, i + 1, stack')
  <2>1. \A n \in 1 .. Len(stack') : n \in 1 .. Len(stack) \/ n = Len(stack')
    BY <1>0, <1>3, SMT
  <2>2. Len(stack') \in Nat
    BY <1>0, <1>3, SMT
  <2> QED BY <1>0, <1>1, <1>3, <1>4, <2>1, <2>2, DeepStep DEF Blocks
<1>6. Paired(ops, i + 1, O \cup {i})
  <2>1. Placed(ops, i) /\ \A c : ~Rivals(ops, c, i)
    BY <1>1 DEF Placed, Rivals
  <2> QED BY <1>0, <1>2, <2>1, PairedStep DEF Blocks
<1>7. Linked(ops, i + 1, O \cup {i}, jump)
  <2>1. Linked(ops, i, O, jump)
    BY <1>2 DEF Blocks
  <2>2. PICK K, P : K = {} /\ P = O \cup {i}
    OBVIOUS
  <2>3. /\ K \subseteq O /\ i \in P /\ O \subseteq 0 .. i - 1
        /\ \A x \in O : x \in K \/ x \in P
        /\ \A x \in P : x = i \/ (x \in O /\ x \notin K)
        /\ \A x \in 0 .. Len(ops) - 1 : x \in K \/ x = i \/ jump[x] = jump[x]
        /\ \A x \in K : jump[x] = Block_Jump(ops, x)
    BY <1>0, <1>2, <2>2
  <2>4. /\ At(ops, i) # "Do" /\ jump[i] = Empty_Jump
    BY <1>0, <1>1
  <2>5. Linked(ops, i + 1, P, jump)
    BY <1>0, <1>1, <2>1, <2>3, <2>4, LinkedStep
  <2> QED BY <2>2, <2>5
<1> QED BY <1>1, <1>2, <1>5, <1>6, <1>7

\* An operation that is no mark.
LEMMA SkipKeeps ==
  ASSUME Blocks, Skip, TypeOK'
  PROVE  Deep(ops, i, stack)' /\ Paired(ops, i, Open)' /\ Linked(ops, i, Open, jump)'
<1>0. /\ i \in Nat /\ Len(ops) \in Nat /\ Len(stack) \in Nat
      /\ Open \subseteq 0 .. i - 1 /\ i \notin Open
      /\ jump \in [Index -> 0 .. Len(ops) \cup {Empty_Jump}]
      /\ i < Len(ops) => i \in Index /\ jump[i] = Empty_Jump
      /\ Nested /\ TypeOK
  BY Standing
<1>1. /\ i < Len(ops) /\ At(ops, i) \notin {"Do", "While", "If", "Else", "End"}
      /\ stack' = stack /\ jump' = jump /\ i' = i + 1 /\ ops' = ops
  BY DEF Skip, Visit, Advance, Kind
<1>2. PICK O : O = Open /\ Open' = O
  BY <1>1 DEF Open
<1>4. Depth(ops, i) = Len(stack) /\ Depth(ops, i + 1) = Len(stack)
  BY <1>0, <1>1, DepthStep DEF Blocks, Deep
<1>5. Deep(ops, i + 1, stack)
  BY <1>0, <1>1, <1>4, DeepStep DEF Blocks
<1>6. Paired(ops, i + 1, O)
  <2>1. Placed(ops, i) /\ \A c : ~Rivals(ops, c, i)
    BY <1>1 DEF Placed, Rivals
  <2> QED BY <1>0, <1>1, <1>2, <2>1, PairedStep DEF Blocks
<1>7. Linked(ops, i + 1, O, jump)
  <2>1. Linked(ops, i, O, jump)
    BY <1>2 DEF Blocks
  <2>2. jump[i] = Block_Jump(ops, i)
    <3>1. At(ops, i) \notin Jumping_Kind
      BY <1>1 DEF Jumping_Kind
    <3> QED BY <1>0, <1>1, <3>1, BlockJumpIs
  <2>3. PICK K : K = {}
    OBVIOUS
  <2>4. /\ K \subseteq O /\ i \notin O /\ O \subseteq 0 .. i - 1
        /\ \A x \in O : x \in K \/ x \in O
        /\ \A x \in O : x = i \/ (x \in O /\ x \notin K)
        /\ \A x \in 0 .. Len(ops) - 1 : x \in K \/ x = i \/ jump[x] = jump[x]
        /\ \A x \in K : jump[x] = Block_Jump(ops, x)
    BY <1>0, <1>2, <2>3
  <2> QED BY <1>0, <1>1, <2>1, <2>2, <2>4, LinkedStep
<1> QED BY <1>1, <1>2, <1>5, <1>6, <1>7

\* The operation at i takes the place of the innermost mark, or closes its block.
LEMMA DeepInner ==
  ASSUME Blocks, stack # <<>>, i < Len(ops), TypeOK',
         \/ At(ops, i) \in {"Else", "Do"} /\ stack' = Append(Pop(stack), i)
         \/ At(ops, i) = "End" /\ stack' = Pop(stack)
  PROVE  Deep(ops, i + 1, stack')
<1>0. i \in Nat /\ Len(stack) \in Nat /\ i \in Index /\ TypeOK
  BY Standing
<1>1. PICK l \in Nat \ {0} : l = Len(stack) /\ Depth(ops, i) = l
  BY Innermost
<1>2. /\ At(ops, i) \in {"Else", "Do"} => Depth(ops, i + 1) = l
      /\ At(ops, i) = "End" => Depth(ops, i + 1) = l - 1
  BY <1>0, <1>1, DepthStep
<1>3. CASE At(ops, i) \in {"Else", "Do"} /\ stack' = Append(Pop(stack), i)
  <2>1. /\ Len(stack') = l /\ stack'[l] = i
        /\ \A n \in 1 .. l - 1 : stack'[n] = stack[n]
    BY <1>0, <1>1, <1>3, StackReplace, SMT DEF TypeOK
  <2>2. ASSUME NEW n \in 1 .. Len(stack')
        PROVE  \/ /\ n \in 1 .. Len(stack) /\ stack'[n] = stack[n]
                  /\ n < Len(stack) \/ At(ops, i) \notin {"Else", "Do", "End"}
               \/ n = Len(stack') /\ stack'[n] = i /\ At(ops, i) \in {"If", "While", "Else", "Do"}
    <3>1. n = l \/ (n \in 1 .. l - 1 /\ n \in 1 .. l /\ n < l)
      BY <2>1, SMT
    <3> QED BY <1>1, <1>3, <2>1, <3>1
  <2>3. Len(stack') \in Nat /\ Depth(ops, i + 1) = Len(stack')
    BY <1>2, <1>3, <2>1
  <2> QED BY <1>0, <2>2, <2>3, DeepStep DEF Blocks
<1>4. CASE At(ops, i) = "End" /\ stack' = Pop(stack)
  <2>1. /\ Len(stack') = l - 1
        /\ \A n \in 1 .. l - 1 : stack'[n] = stack[n]
    BY <1>0, <1>1, <1>4, StackPop DEF TypeOK
  <2>2. ASSUME NEW n \in 1 .. Len(stack')
        PROVE  \/ /\ n \in 1 .. Len(stack) /\ stack'[n] = stack[n]
                  /\ n < Len(stack) \/ At(ops, i) \notin {"Else", "Do", "End"}
               \/ n = Len(stack') /\ stack'[n] = i /\ At(ops, i) \in {"If", "While", "Else", "Do"}
    <3>1. n \in 1 .. l - 1 /\ n \in 1 .. l /\ n < l
      BY <2>1, SMT
    <3> QED BY <1>1, <2>1, <3>1
  <2>3. Len(stack') \in Nat /\ Depth(ops, i + 1) = Len(stack')
    BY <1>2, <1>4, <2>1, SMT
  <2> QED BY <1>0, <2>2, <2>3, DeepStep DEF Blocks
<1> QED BY <1>3, <1>4

\* The innermost mark k is done with, and the jumps of k and i are written.
LEMMA LinkedInner ==
  ASSUME Blocks, stack # <<>>, i < Len(ops), NEW k, k = Top(stack), NEW O2, NEW j2,
         \A x : x \in O2 <=> (x \in Open /\ x # k) \/ (x = i /\ At(ops, i) \in {"Else", "Do"}),
         \A x \in Index : x # k /\ x # i => j2[x] = jump[x],
         j2[k] = Block_Jump(ops, k),
         At(ops, i) = "End" => j2[i] = Block_Jump(ops, i),
         At(ops, i) \in {"Else", "Do", "End"},
         At(ops, i) = "Do" => j2[i] \in Openers(ops, i)
  PROVE  Linked(ops, i + 1, O2, j2)
<1>0. /\ i \in Nat /\ Len(ops) \in Nat /\ Open \subseteq 0 .. i - 1 /\ i \notin Open
      /\ Linked(ops, i, Open, jump)
  BY Standing DEF Blocks
<1>1. k \in Open
  BY Innermost
<1>2. PICK O, K : O = Open /\ K = {k}
  OBVIOUS
<1>3. /\ K \subseteq O /\ O \subseteq 0 .. i - 1 /\ Linked(ops, i, O, jump)
      /\ \A x \in O : x \in K \/ x \in O2
      /\ \A x \in O2 : x = i \/ (x \in O /\ x \notin K)
      /\ \A x \in 0 .. Len(ops) - 1 : x \in K \/ x = i \/ j2[x] = jump[x]
      /\ \A x \in K : j2[x] = Block_Jump(ops, x)
  BY <1>0, <1>1, <1>2 DEF Index
<1>4. /\ i \in O2 \/ j2[i] = Block_Jump(ops, i)
      /\ i \in O2 /\ At(ops, i) = "Do" => j2[i] \in Openers(ops, i)
      /\ At(ops, i) # "While"
  OBVIOUS
<1> QED BY <1>0, <1>3, <1>4, LinkedStep, ZenonT(30)

\* A `do`.
LEMMA DoKeeps ==
  ASSUME Blocks, Link_Do, TypeOK'
  PROVE  Deep(ops, i, stack)' /\ Paired(ops, i, Open)' /\ Linked(ops, i, Open, jump)'
<1>0. /\ i \in Nat /\ Len(ops) \in Nat /\ Len(stack) \in Nat
      /\ Open \subseteq 0 .. i - 1 /\ i \notin Open
      /\ jump \in [Index -> 0 .. Len(ops) \cup {Empty_Jump}]
      /\ i < Len(ops) => i \in Index /\ jump[i] = Empty_Jump
      /\ Nested /\ TypeOK
  BY Standing
<1>1. PICK k : /\ k = Top(stack) /\ i < Len(ops) /\ At(ops, i) = "Do" /\ stack # <<>>
               /\ At(ops, k) = "While" /\ stack' = Append(Pop(stack), i)
               /\ jump' = [jump EXCEPT ![i] = k] /\ i' = i + 1 /\ ops' = ops
  BY DEF Link_Do, Visit, TopIs, Advance, Kind
<1>2. PICK n : /\ k \in Nat /\ k < i /\ k \in Open /\ Marks(ops, i, k, n) /\ Depth(ops, i) = n
  BY <1>1, Innermost
<1>3. PICK O : O = (Open \ {k}) \cup {i} /\ Open' = O
  BY <1>0, <1>1, OpenAfterReplace
<1>4. k \in Openers(ops, i)
  BY <1>0, <1>1, <1>2, MarkOpener
<1>5. Deep(ops, i + 1, stack')
  BY <1>1, DeepInner
<1>6. Paired(ops, i + 1, O)
  <2>1. Placed(ops, i)
    BY <1>1, <1>4 DEF Placed
  <2>2. \A c \in 0 .. i - 1 : ~Rivals(ops, c, i)
    BY <1>0, <1>1, <1>2, NoRival
  <2>3. \A a \in Open : a \in O \/ Is_Do_Of(ops, i, a)
    BY <1>1, <1>3, <1>4 DEF Is_Do_Of
  <2> QED BY <1>0, <1>1, <2>1, <2>2, <2>3, PairedStep DEF Blocks
<1>7. Linked(ops, i + 1, O, jump')
  <2>1. k \in Index /\ i \in Index /\ k # i
    BY <1>0, <1>1, <1>2, SMT DEF Index
  <2>2. jump'[i] = k /\ \A x \in Index : x # i => jump'[x] = jump[x]
    BY <1>0, <1>1, <2>1
  <2>3. jump[k] = Empty_Jump
    BY <1>1, <1>2 DEF Blocks, Linked
  <2>4. Block_Jump(ops, k) = Empty_Jump
    <3>1. At(ops, k) \notin Jumping_Kind
      BY <1>1 DEF Jumping_Kind
    <3> QED BY <3>1, BlockJumpIs
  <2>5. jump'[k] = Block_Jump(ops, k) /\ jump'[i] \in Openers(ops, i)
    BY <1>4, <2>1, <2>2, <2>3, <2>4
  <2>6. \A x : x \in O <=> (x \in Open /\ x # k) \/ (x = i /\ At(ops, i) \in {"Else", "Do"})
    BY <1>1, <1>3
  <2>7. PICK j : j = jump'
    OBVIOUS
  <2>8. /\ \A x \in Index : x # k /\ x # i => j[x] = jump[x]
        /\ j[k] = Block_Jump(ops, k) /\ j[i] \in Openers(ops, i)
        /\ At(ops, i) \in {"Else", "Do", "End"} /\ At(ops, i) # "End"
    BY <1>1, <2>2, <2>5, <2>7
  <2>9. Linked(ops, i + 1, O, j)
    BY <1>1, <2>6, <2>8, LinkedInner, SMT
  <2> QED BY <2>7, <2>9
<1> QED BY <1>1, <1>3, <1>5, <1>6, <1>7

\* An `else`.
LEMMA ElseKeeps ==
  ASSUME Blocks, Link_Else, TypeOK'
  PROVE  Deep(ops, i, stack)' /\ Paired(ops, i, Open)' /\ Linked(ops, i, Open, jump)'
<1>0. /\ i \in Nat /\ Len(ops) \in Nat /\ Len(stack) \in Nat
      /\ Open \subseteq 0 .. i - 1 /\ i \notin Open
      /\ jump \in [Index -> 0 .. Len(ops) \cup {Empty_Jump}]
      /\ i < Len(ops) => i \in Index /\ jump[i] = Empty_Jump
      /\ Nested /\ TypeOK
  BY Standing
<1>1. PICK k : /\ k = Top(stack) /\ i < Len(ops) /\ At(ops, i) = "Else" /\ stack # <<>>
               /\ At(ops, k) = "If" /\ stack' = Append(Pop(stack), i)
               /\ jump' = [jump EXCEPT ![k] = i + 1] /\ i' = i + 1 /\ ops' = ops
  BY DEF Link_Else, Visit, TopIs, Advance, Kind
<1>2. PICK n : /\ k \in Nat /\ k < i /\ k \in Open /\ Marks(ops, i, k, n) /\ Depth(ops, i) = n
  BY <1>1, Innermost
<1>3. PICK O : O = (Open \ {k}) \cup {i} /\ Open' = O
  BY <1>0, <1>1, OpenAfterReplace
<1>4. k \in Openers(ops, i)
  BY <1>0, <1>1, <1>2, MarkOpener
<1>5. Deep(ops, i + 1, stack')
  BY <1>1, DeepInner
<1>6. Paired(ops, i + 1, O)
  <2>1. Placed(ops, i)
    BY <1>1, <1>4 DEF Placed
  <2>2. \A c \in 0 .. i - 1 : ~Rivals(ops, c, i)
    BY <1>0, <1>1, <1>2, NoRival
  <2>3. \A a \in Open : At(ops, a) = "While" => a \in O
    BY <1>1, <1>3
  <2> QED BY <1>0, <1>1, <2>1, <2>2, <2>3, PairedStep DEF Blocks
<1>7. Linked(ops, i + 1, O, jump')
  <2>1. k \in Index /\ i \in Index /\ k # i
    BY <1>0, <1>1, <1>2, SMT DEF Index
  <2>2. jump'[k] = i + 1 /\ \A x \in Index : x # k => jump'[x] = jump[x]
    BY <1>0, <1>1, <2>1
  <2>3. Block_Jump(ops, k) = i + 1
    <3>1. First(Later(ops, k, {"Else", "End"})) = i
      <4>1. PICK ks : ks = {"Else", "End"}
        OBVIOUS
      <4>2. ks \subseteq {"Else", "Do", "End"} /\ At(ops, i) \in ks /\ i <= Len(ops) - 1
        BY <1>0, <1>1, <4>1, SMT
      <4>3. First(Later(ops, k, ks)) = i
        BY <1>0, <1>2, <4>2, MarkFirst
      <4> QED BY <4>1, <4>3
    <3> QED BY <1>1, <3>1, BlockJumpIs, SMT
  <2>4. jump'[k] = Block_Jump(ops, k) /\ \A x \in Index : x # k /\ x # i => jump'[x] = jump[x]
    BY <2>2, <2>3
  <2>5. \A x : x \in O <=> (x \in Open /\ x # k) \/ (x = i /\ At(ops, i) \in {"Else", "Do"})
    BY <1>1, <1>3
  <2>6. PICK j : j = jump'
    OBVIOUS
  <2>7. /\ \A x \in Index : x # k /\ x # i => j[x] = jump[x]
        /\ j[k] = Block_Jump(ops, k)
        /\ At(ops, i) \in {"Else", "Do", "End"} /\ At(ops, i) # "End" /\ At(ops, i) # "Do"
    BY <1>1, <2>4, <2>6
  <2>8. Linked(ops, i + 1, O, j)
    BY <1>1, <2>5, <2>7, LinkedInner, SMT
  <2> QED BY <2>6, <2>8
<1> QED BY <1>1, <1>3, <1>5, <1>6, <1>7

\* The `end` of an `if` or `else`.
LEMMA BranchEndKeeps ==
  ASSUME Blocks, End_Of_Branch, TypeOK'
  PROVE  Deep(ops, i, stack)' /\ Paired(ops, i, Open)' /\ Linked(ops, i, Open, jump)'
<1>0. /\ i \in Nat /\ Len(ops) \in Nat /\ Len(stack) \in Nat
      /\ Open \subseteq 0 .. i - 1 /\ i \notin Open
      /\ jump \in [Index -> 0 .. Len(ops) \cup {Empty_Jump}]
      /\ i < Len(ops) => i \in Index /\ jump[i] = Empty_Jump
      /\ Nested /\ TypeOK
  BY Standing
<1>1. PICK k : /\ k = Top(stack) /\ i < Len(ops) /\ At(ops, i) = "End" /\ stack # <<>>
               /\ At(ops, k) \in {"If", "Else"} /\ stack' = Pop(stack)
               /\ jump' = [jump EXCEPT ![k] = i, ![i] = i + 1] /\ i' = i + 1 /\ ops' = ops
  BY DEF End_Of_Branch, Visit, TopIs, Advance, Kind
<1>2. PICK n : /\ k \in Nat /\ k < i /\ k \in Open /\ Marks(ops, i, k, n) /\ Depth(ops, i) = n
  BY <1>1, Innermost
<1>3. PICK O : O = Open \ {k} /\ Open' = O
  BY <1>0, <1>1, OpenAfterPop
<1>4. PICK a : a \in Openers(ops, i) /\ At(ops, a) = "If"
  <2>1. CASE At(ops, k) = "If"
    BY <1>0, <1>2, <2>1, MarkOpener
  <2>2. CASE At(ops, k) = "Else"
    <3>1. Placed(ops, k)
      <4>1. k \in 0 .. i - 1
        BY <1>0, <1>2
      <4> QED BY <4>1 DEF Blocks, Paired
    <3>2. PICK a \in Openers(ops, k) : At(ops, a) = "If"
      BY <2>2, <3>1 DEF Placed
    <3>3. a \in Openers(ops, i)
      BY <1>0, <1>2, <2>2, <3>2, MarkOpener
    <3> QED BY <3>2, <3>3
  <2> QED BY <1>1, <2>1, <2>2
<1>5. Deep(ops, i + 1, stack')
  BY <1>1, DeepInner
<1>6. Paired(ops, i + 1, O)
  <2>1. Placed(ops, i) /\ \A c : ~Rivals(ops, c, i)
    BY <1>1, <1>4 DEF Placed, Rivals
  <2>2. \A x \in Open : At(ops, x) = "While" => x \in O
    BY <1>1, <1>3
  <2> QED BY <1>0, <1>1, <2>1, <2>2, PairedStep DEF Blocks
<1>7. Linked(ops, i + 1, O, jump')
  <2>1. k \in Index /\ i \in Index /\ k # i
    BY <1>0, <1>1, <1>2, SMT DEF Index
  <2>2. jump'[k] = i /\ jump'[i] = i + 1
        /\ \A x \in Index : x # k /\ x # i => jump'[x] = jump[x]
    BY <1>0, <1>1, <2>1
  <2>3. Block_Jump(ops, k) = i
    <3>1. ASSUME NEW ks, ks \subseteq {"Else", "Do", "End"}, "End" \in ks
          PROVE  First(Later(ops, k, ks)) = i
      <4>1. At(ops, i) \in ks /\ i <= Len(ops) - 1
        BY <1>0, <1>1, <3>1, SMT
      <4> QED BY <1>0, <1>2, <3>1, <4>1, MarkFirst
    <3>2. First(Later(ops, k, {"Else", "End"})) = i /\ First(Later(ops, k, {"End"})) = i
      BY <3>1
    <3> QED BY <1>1, <3>2, BlockJumpIs
  <2>4. Block_Jump(ops, i) = i + 1
    BY <1>0, <1>1, <1>4, EndJump
  <2>5. \A x : x \in O <=> (x \in Open /\ x # k) \/ (x = i /\ At(ops, i) \in {"Else", "Do"})
    BY <1>1, <1>3
  <2>6. PICK j : j = jump'
    OBVIOUS
  <2>7. /\ \A x \in Index : x # k /\ x # i => j[x] = jump[x]
        /\ j[k] = Block_Jump(ops, k) /\ j[i] = Block_Jump(ops, i)
        /\ At(ops, i) \in {"Else", "Do", "End"} /\ At(ops, i) # "Do"
    BY <1>1, <2>2, <2>3, <2>4, <2>6
  <2>8. Linked(ops, i + 1, O, j)
    BY <1>1, <2>5, <2>7, LinkedInner
  <2> QED BY <2>6, <2>8
<1> QED BY <1>1, <1>3, <1>5, <1>6, <1>7

\* The `end` of a loop.
LEMMA LoopEndKeeps ==
  ASSUME Blocks, End_Of_Loop, TypeOK'
  PROVE  Deep(ops, i, stack)' /\ Paired(ops, i, Open)' /\ Linked(ops, i, Open, jump)'
<1>0. /\ i \in Nat /\ Len(ops) \in Nat /\ Len(stack) \in Nat
      /\ Open \subseteq 0 .. i - 1 /\ i \notin Open
      /\ jump \in [Index -> 0 .. Len(ops) \cup {Empty_Jump}]
      /\ i < Len(ops) => i \in Index /\ jump[i] = Empty_Jump
      /\ Nested /\ TypeOK
  BY Standing
<1>1. PICK k : /\ k = Top(stack) /\ i < Len(ops) /\ At(ops, i) = "End" /\ stack # <<>>
               /\ At(ops, k) = "Do" /\ stack' = Pop(stack)
               /\ jump' = [jump EXCEPT ![i] = jump[k], ![k] = i + 1] /\ i' = i + 1 /\ ops' = ops
  BY DEF End_Of_Loop, Visit, TopIs, Advance, Kind
<1>2. PICK n : /\ k \in Nat /\ k < i /\ k \in Open /\ Marks(ops, i, k, n) /\ Depth(ops, i) = n
  BY <1>1, Innermost
<1>3. PICK O : O = Open \ {k} /\ Open' = O
  BY <1>0, <1>1, OpenAfterPop
<1>4. PICK a : a = jump[k] /\ a \in Openers(ops, i) /\ At(ops, a) = "While"
  <2>1. PICK a : a = jump[k] /\ a \in Openers(ops, k)
    BY <1>1, <1>2 DEF Blocks, Linked
  <2>2. Placed(ops, k)
    <3>1. k \in 0 .. i - 1
      BY <1>0, <1>2
    <3> QED BY <3>1 DEF Blocks, Paired
  <2>3. PICK b \in Openers(ops, k) : At(ops, b) = "While"
    BY <1>1, <2>2 DEF Placed
  <2>4. a = b
    BY <1>2, <2>1, <2>3, OneOpener
  <2>5. a \in Openers(ops, i)
    BY <1>0, <1>1, <1>2, <2>1, MarkOpener
  <2> QED BY <2>1, <2>3, <2>4, <2>5
<1>5. Deep(ops, i + 1, stack')
  BY <1>1, DeepInner
<1>6. Paired(ops, i + 1, O)
  <2>1. Placed(ops, i) /\ \A c : ~Rivals(ops, c, i)
    BY <1>1, <1>4 DEF Placed, Rivals
  <2>2. \A x \in Open : At(ops, x) = "While" => x \in O
    BY <1>1, <1>3
  <2> QED BY <1>0, <1>1, <2>1, <2>2, PairedStep DEF Blocks
<1>7. Linked(ops, i + 1, O, jump')
  <2>1. k \in Index /\ i \in Index /\ k # i
    BY <1>0, <1>1, <1>2, SMT DEF Index
  <2>2. jump'[k] = i + 1 /\ jump'[i] = a
        /\ \A x \in Index : x # k /\ x # i => jump'[x] = jump[x]
    BY <1>0, <1>1, <1>4, <2>1
  <2>3. Block_Jump(ops, k) = i + 1
    <3>1. PICK ks : ks = {"End"}
      OBVIOUS
    <3>2. ks \subseteq {"Else", "Do", "End"} /\ At(ops, i) \in ks /\ i <= Len(ops) - 1
      BY <1>0, <1>1, <3>1, SMT
    <3>3. First(Later(ops, k, ks)) = i
      BY <1>0, <1>2, <3>2, MarkFirst
    <3>4. First(Later(ops, k, {"End"})) = i
      BY <3>1, <3>3
    <3> QED BY <1>1, <3>4, BlockJumpIs
  <2>4. Block_Jump(ops, i) = a
    BY <1>0, <1>1, <1>4, EndJump
  <2>5. \A x : x \in O <=> (x \in Open /\ x # k) \/ (x = i /\ At(ops, i) \in {"Else", "Do"})
    BY <1>1, <1>3
  <2>6. PICK j : j = jump'
    OBVIOUS
  <2>7. /\ \A x \in Index : x # k /\ x # i => j[x] = jump[x]
        /\ j[k] = Block_Jump(ops, k) /\ j[i] = Block_Jump(ops, i)
        /\ At(ops, i) \in {"Else", "Do", "End"} /\ At(ops, i) # "Do"
    BY <1>1, <2>2, <2>3, <2>4, <2>6
  <2>8. Linked(ops, i + 1, O, j)
    BY <1>1, <2>5, <2>7, LinkedInner
  <2> QED BY <2>6, <2>8
<1> QED BY <1>1, <1>3, <1>5, <1>6, <1>7

\* The first operation.
LEMMA InitBlocks == Init => Blocks
<1> SUFFICES ASSUME Init PROVE Blocks
  OBVIOUS
<1>1. /\ i = 0 /\ stack = <<>> /\ Len(stack) = 0
      /\ jump = [k \in 0 .. Len(ops) - 1 |-> Empty_Jump]
  BY DEF Init
<1>2. Open = {} /\ 0 .. i - 1 = {} /\ 0 .. i = {0} /\ 1 .. Len(stack) = {}
  BY <1>1, SMT DEF Open
<1>3. Deep(ops, i, stack)
  BY <1>1, <1>2, DepthFirst, SMT DEF Deep
<1>4. Paired(ops, i, Open)
  BY <1>2 DEF Paired
<1>5. Linked(ops, i, Open, jump)
  BY <1>1, <1>2 DEF Linked
<1> QED BY <1>3, <1>4, <1>5, InitIInv DEF Blocks

\* How the pass came to stop.
Stopped ==
  /\ status = "linked" => i = Len(ops) /\ stack = <<>>
  /\ status = "unclosed" => i = Len(ops) /\ stack # <<>>
  /\ status = "misplaced" => i \in Index /\ Kind(i) = "End" /\ TopIs({"While"})
  /\ status = "ensure" => /\ i \in Index
                          /\ \/ Kind(i) = "Do" /\ ~TopIs({"While"})
                             \/ Kind(i) = "Else" /\ ~TopIs({"If"})
  /\ status = "assert" => i \in Index /\ Kind(i) = "End" /\ stack = <<>>

\* Every step keeps the second invariant, and what is known of the end.
LEMMA BlocksNext ==
  Blocks /\ Stopped /\ [Next]_vars /\ TypeOK' => Blocks' /\ Stopped'
<1> SUFFICES ASSUME Blocks, Stopped, [Next]_vars, TypeOK' PROVE Blocks' /\ Stopped'
  OBVIOUS
<1>1. IInv'
  BY InductiveInvariant DEF Blocks
<1>2. ASSUME Deep(ops, i, stack)' /\ Paired(ops, i, Open)' /\ Linked(ops, i, Open, jump)'
      PROVE  Blocks'
  BY <1>1, <1>2 DEF Blocks
<1>3. ASSUME status = "running", status' = "running" PROVE Stopped'
  BY <1>3 DEF Stopped
<1>4. CASE Open_Block
  BY <1>2, <1>3, <1>4, OpenKeeps DEF Open_Block, Visit, Advance
<1>5. CASE Link_Do
  BY <1>2, <1>3, <1>5, DoKeeps DEF Link_Do, Visit, Advance
<1>6. CASE Link_Else
  BY <1>2, <1>3, <1>6, ElseKeeps DEF Link_Else, Visit, Advance
<1>7. CASE End_Of_Branch
  BY <1>2, <1>3, <1>7, BranchEndKeeps DEF End_Of_Branch, Visit, Advance
<1>8. CASE End_Of_Loop
  BY <1>2, <1>3, <1>8, LoopEndKeeps DEF End_Of_Loop, Visit, Advance
<1>9. CASE Skip
  BY <1>2, <1>3, <1>9, SkipKeeps DEF Skip, Visit, Advance
<1>10. ASSUME UNCHANGED <<ops, jump, i, stack>> PROVE Blocks'
  <2>1. Open' = Open
    BY <1>10 DEF Open
  <2> QED BY <1>2, <1>10, <2>1 DEF Blocks
<1>11. i < Len(ops) => i \in Index
  BY Standing
<1>12. CASE Return_True
  BY <1>10, <1>12 DEF Return_True, Stop, Stopped
<1>13. CASE Do_Without_While \/ Else_Without_If
  <2>1. /\ UNCHANGED <<ops, jump, i, stack>> /\ status' = "ensure" /\ i \in Index
        /\ \/ Kind(i) = "Do" /\ ~TopIs({"While"})
           \/ Kind(i) = "Else" /\ ~TopIs({"If"})
    BY <1>11, <1>13 DEF Do_Without_While, Else_Without_If, Visit, Stop
  <2> QED BY <1>10, <2>1 DEF Stopped, Index, Kind, TopIs
<1>14. CASE End_Of_While
  <2>1. /\ UNCHANGED <<ops, jump, i, stack>> /\ status' = "misplaced" /\ i \in Index
        /\ Kind(i) = "End" /\ TopIs({"While"})
    BY <1>11, <1>14 DEF End_Of_While, Visit, Stop
  <2> QED BY <1>10, <2>1 DEF Stopped, Index, Kind, TopIs
<1>15. CASE End_Without_Block
  <2>1. /\ UNCHANGED <<ops, jump, i, stack>> /\ status' = "assert" /\ i \in Index
        /\ Kind(i) = "End" /\ stack = <<>>
    BY <1>11, <1>15 DEF End_Without_Block, Visit, Stop
  <2> QED BY <1>10, <2>1 DEF Stopped, Index, Kind, TopIs
<1>16. CASE UNCHANGED vars
  BY <1>10, <1>16 DEF vars, Stopped, Index, Kind, TopIs
<1> QED
  BY <1>4, <1>5, <1>6, <1>7, <1>8, <1>9, <1>12, <1>13, <1>14, <1>15, <1>16 DEF Next

\* The jumps of a body that crossreference links are those its block structure
\* prescribes, whatever its length and its nesting.
THEOREM LinksCorrect == Spec => []LinksFollowBlocks
<1>1. Blocks /\ Stopped => LinksFollowBlocks
  <2> SUFFICES ASSUME Blocks, Stopped, status = "linked", NEW k \in Index
               PROVE  jump[k] = Block_Jump(ops, k)
    BY DEF LinksFollowBlocks
  <2>1. i = Len(ops) /\ Len(stack) = 0
    BY DEF Stopped
  <2>2. Open = {} /\ k \in 0 .. i - 1
    BY <2>1, SMT DEF Open, Index
  <2> QED BY <2>2 DEF Blocks, Linked
<1>2. Init => Stopped
  BY DEF Init, Stopped
<1> QED BY <1>1, <1>2, InitBlocks, BlocksNext, TypeCorrect, PTL DEF Spec

-----------------------------------------------------------------------------
(* Well formed bodies *)

\* The `else` or `do` operations of the block that a opens.
Middle(kinds, a) ==
  {c \in 0 .. Len(kinds) - 1 : At(kinds, c) \in {"Else", "Do"} /\ a \in Openers(kinds, c)}

\* A set has at most one element when all its elements are equal.
LEMMA AtMostOne ==
  ASSUME NEW S, IsFiniteSet(S)
  PROVE  /\ Cardinality(S) \in Nat
         /\ Cardinality(S) <= 1 <=> \A c, d \in S : c = d
         /\ Cardinality(S) = 1 => S # {}
         /\ S # {} => Cardinality(S) >= 1
<1>1. Cardinality(S) \in Nat /\ (Cardinality(S) = 0 <=> S = {})
  BY FS_CardinalityType, FS_EmptySet
<1>2. ASSUME \A c, d \in S : c = d PROVE Cardinality(S) <= 1
  <2>1. CASE S = {}
    BY <1>1, <2>1, SMT
  <2>2. CASE S # {}
    <3>1. PICK c : S = {c}
      BY <1>2, <2>2, SMT
    <3> QED BY <3>1, FS_Singleton, SMT
  <2> QED BY <2>1, <2>2
<1>3. ASSUME Cardinality(S) <= 1, NEW c \in S, NEW d \in S, c # d PROVE FALSE
  <2>1. IsFiniteSet({c}) /\ Cardinality({c}) = 1 /\ d \notin {c}
    BY <1>3, FS_Singleton
  <2>2. IsFiniteSet({c} \cup {d}) /\ Cardinality({c} \cup {d}) = 2
    BY <2>1, FS_AddElement, SMT
  <2>3. {c} \cup {d} \in SUBSET S
    OBVIOUS
  <2>4. Cardinality({c} \cup {d}) <= Cardinality(S)
    BY <2>3, FS_Subset
  <2> QED BY <1>1, <1>3, <2>2, <2>4, SMT
<1> QED BY <1>1, <1>2, <1>3, SMT

\* Well_Formed, in the terms of the invariant.
LEMMA WellFormedIs ==
  ASSUME NEW kinds, Len(kinds) \in Nat
  PROVE  Well_Formed(kinds) <=>
           /\ Depth(kinds, Len(kinds)) = 0
           /\ \A k \in 0 .. Len(kinds) - 1 : Placed(kinds, k)
           /\ \A a \in 0 .. Len(kinds) - 1 : At(kinds, a) \in {"If", "While"} =>
                \A c, d \in Middle(kinds, a) : c = d
           /\ \A a \in 0 .. Len(kinds) - 1 : At(kinds, a) = "While" => Middle(kinds, a) # {}
<1> DEFINE I == 0 .. Len(kinds) - 1
           O == Opened(kinds, 0, Len(kinds) - 1)
           E == Ended(kinds, 0, Len(kinds) - 1)
<1>1. O = E <=> Depth(kinds, Len(kinds)) = 0
  <2>1. O \in Nat /\ E \in Nat
    <3>1. 0 \in Nat /\ 0 <= Len(kinds)
      BY SMT
    <3>2. /\ Opened(kinds, 0, Len(kinds) - 1) \in Nat /\ Ended(kinds, 0, Len(kinds) - 1) \in Nat
          /\ Depth(kinds, 0) \in Int /\ Depth(kinds, Len(kinds)) \in Int
          /\ Opened(kinds, 0, Len(kinds) - 1) - Ended(kinds, 0, Len(kinds) - 1)
               = Depth(kinds, Len(kinds)) - Depth(kinds, 0)
      BY <3>1, DepthBetween
    <3> QED BY <3>2
  <2>2. Depth(kinds, Len(kinds)) = O - E
    BY DEF Depth
  <2> HIDE DEF O, E
  <2> QED BY <2>1, <2>2, SMT
<1>2. \A a : LET m == Cardinality(Middle(kinds, a))
             IN /\ m \in Nat
                /\ m <= 1 <=> \A c, d \in Middle(kinds, a) : c = d
                /\ m = 1 => Middle(kinds, a) # {}
                /\ Middle(kinds, a) # {} => m >= 1
  <2> TAKE a
  <2>1. IsFiniteSet(I) /\ Middle(kinds, a) \in SUBSET I
    BY FS_Interval, SMT DEF Middle
  <2>2. IsFiniteSet(Middle(kinds, a))
    BY <2>1, FS_Subset
  <2> QED BY <2>2, AtMostOne
<1>3. Well_Formed(kinds) <=>
        /\ O = E
        /\ \A k \in I :
             /\ At(kinds, k) = "End" => Openers(kinds, k) # {}
             /\ At(kinds, k) = "Else" => \E a \in Openers(kinds, k) : At(kinds, a) = "If"
             /\ At(kinds, k) = "Do" => \E a \in Openers(kinds, k) : At(kinds, a) = "While"
             /\ At(kinds, k) = "If" => Cardinality(Middle(kinds, k)) <= 1
             /\ At(kinds, k) = "While" => Cardinality(Middle(kinds, k)) = 1
  BY DEF Well_Formed, Middle
<1> HIDE DEF O, E
<1>4. \A k : /\ Cardinality(Middle(kinds, k)) <= 1 <=> \A c, d \in Middle(kinds, k) : c = d
             /\ Cardinality(Middle(kinds, k)) = 1 <=>
                  Middle(kinds, k) # {} /\ \A c, d \in Middle(kinds, k) : c = d
  <2> TAKE k
  <2>1. PICK m \in Nat : m = Cardinality(Middle(kinds, k))
    BY <1>2
  <2>2. /\ m <= 1 <=> \A c, d \in Middle(kinds, k) : c = d
        /\ m = 1 => Middle(kinds, k) # {}
        /\ Middle(kinds, k) # {} => m >= 1
    BY <1>2, <2>1
  <2>3. m = 1 <=> m <= 1 /\ m >= 1
    BY SMT
  <2>4. m = 1 <=> Middle(kinds, k) # {} /\ \A c, d \in Middle(kinds, k) : c = d
    BY <2>2, <2>3
  <2> QED BY <2>1, <2>2, <2>4
<1>5. \A k : Placed(kinds, k) <=>
             /\ At(kinds, k) = "End" => Openers(kinds, k) # {}
             /\ At(kinds, k) = "Else" => \E a \in Openers(kinds, k) : At(kinds, a) = "If"
             /\ At(kinds, k) = "Do" => \E a \in Openers(kinds, k) : At(kinds, a) = "While"
  BY DEF Placed
<1> HIDE DEF I
<1>6. Well_Formed(kinds) <=>
        /\ Depth(kinds, Len(kinds)) = 0
        /\ \A k \in I : Placed(kinds, k)
        /\ \A a \in I : At(kinds, a) \in {"If", "While"} => \A c, d \in Middle(kinds, a) : c = d
        /\ \A a \in I : At(kinds, a) = "While" => Middle(kinds, a) # {}
  <2>1. ASSUME Well_Formed(kinds)
        PROVE  /\ Depth(kinds, Len(kinds)) = 0
               /\ \A k \in I : Placed(kinds, k)
               /\ \A a \in I : At(kinds, a) \in {"If", "While"}
                  => \A c, d \in Middle(kinds, a) : c = d
               /\ \A a \in I : At(kinds, a) = "While" => Middle(kinds, a) # {}
    BY <1>1, <1>3, <1>4, <1>5, <2>1
  <2>2. ASSUME Depth(kinds, Len(kinds)) = 0, \A k \in I : Placed(kinds, k),
               \A a \in I : At(kinds, a) \in {"If", "While"}
               => \A c, d \in Middle(kinds, a) : c = d,
               \A a \in I : At(kinds, a) = "While" => Middle(kinds, a) # {}
        PROVE  Well_Formed(kinds)
    <3>1. \A a \in I : /\ At(kinds, a) = "If" => Cardinality(Middle(kinds, a)) <= 1
                       /\ At(kinds, a) = "While" => Cardinality(Middle(kinds, a)) = 1
      BY <1>4, <2>2
    <3>2. O = E
      BY <1>1, <2>2
    <3>3. \A k \in I :
             /\ At(kinds, k) = "End" => Openers(kinds, k) # {}
             /\ At(kinds, k) = "Else" => \E a \in Openers(kinds, k) : At(kinds, a) = "If"
             /\ At(kinds, k) = "Do" => \E a \in Openers(kinds, k) : At(kinds, a) = "While"
      BY <1>5, <2>2
    <3> QED BY <1>3, <3>1, <3>2, <3>3
  <2> QED BY <2>1, <2>2
<1> QED BY <1>6 DEF I

\* A body that is linked is well formed.
LEMMA LinkedWellFormed ==
  ASSUME Blocks, Stopped, status = "linked"
  PROVE  Well_Formed(ops)
<1>1. i = Len(ops) /\ i \in Nat /\ Len(stack) = 0 /\ Open = {}
  <2>1. i = Len(ops) /\ Len(stack) = 0
    BY DEF Stopped
  <2> QED BY <2>1, Standing, SMT DEF Open
<1>2. Paired(ops, i, {}) /\ Depth(ops, i) = 0
  BY <1>1 DEF Blocks, Deep
<1>3. ASSUME NEW a \in 0 .. i - 1, NEW c \in Middle(ops, a), NEW d \in Middle(ops, a)
      PROVE  c = d
  <2>1. c \in 0 .. i - 1 /\ d \in 0 .. i - 1 /\ Rivals(ops, c, d)
    BY <1>1 DEF Middle, Rivals
  <2> QED BY <1>2, <2>1 DEF Paired
<1>4. ASSUME NEW a \in 0 .. i - 1, At(ops, a) = "While"
      PROVE  Middle(ops, a) # {}
  <2>1. PICK c \in 0 .. i - 1 : Is_Do_Of(ops, c, a)
    BY <1>2, <1>4 DEF Paired
  <2>2. c \in Middle(ops, a)
    BY <1>1, <2>1 DEF Middle, Is_Do_Of
  <2> QED BY <2>2
<1>5. \A k \in 0 .. i - 1 : Placed(ops, k)
  BY <1>2 DEF Paired
<1> QED BY <1>1, <1>2, <1>3, <1>4, <1>5, WellFormedIs

\* Where no block is open an operation that needs one is not placed.
LEMMA NotPlaced ==
  ASSUME Blocks, stack = <<>>, NEW a
  PROVE  a \notin Openers(ops, i)
<1>1. Len(stack) = 0 /\ i \in Nat
  BY Standing
<1> QED BY <1>1, NoOpener DEF Blocks, Deep

\* A second `else` or `do` in a block.
LEMMA SecondMiddle ==
  ASSUME Blocks, stack # <<>>, i \in Index, Well_Formed(ops),
         NEW k, k = Top(stack), At(ops, k) \in {"Else", "Do"}, At(ops, i) \in {"Else", "Do"}
  PROVE  FALSE
<1>0. i \in Nat /\ Len(ops) \in Nat
  BY Standing
<1>1. PICK n : k \in Nat /\ k < i /\ Marks(ops, i, k, n) /\ Depth(ops, i) = n
  BY Innermost
<1>2. Placed(ops, k)
  <2>1. k \in 0 .. i - 1
    BY <1>0, <1>1, SMT
  <2> QED BY <2>1 DEF Blocks, Paired
<1>3. PICK a : a \in Openers(ops, k)
  BY <1>2 DEF Placed
<1>4. a \in Openers(ops, i)
  BY <1>0, <1>1, <1>3, MarkOpener
<1>5. a \in Nat /\ At(ops, a) \in {"If", "While"} /\ Same_Block(ops, a, k)
  BY <1>1, <1>3, OpenersIs
<1>6. a < k
  BY <1>5 DEF Same_Block
<1>7. a \in 0 .. Len(ops) - 1 /\ k \in 0 .. Len(ops) - 1 /\ i \in 0 .. Len(ops) - 1
  BY <1>0, <1>1, <1>5, <1>6, SMT DEF Index
<1>8. k \in Middle(ops, a) /\ i \in Middle(ops, a)
  BY <1>3, <1>4, <1>7 DEF Middle
<1>9. k = i
  BY <1>0, <1>5, <1>7, <1>8, WellFormedIs
<1> QED BY <1>0, <1>1, <1>9, SMT

\* A `while` that is ended without a `do`.
LEMMA NoMiddle ==
  ASSUME Blocks, stack # <<>>, i \in Index, Well_Formed(ops),
         NEW k, k = Top(stack), At(ops, k) = "While", At(ops, i) = "End"
  PROVE  FALSE
<1>0. i \in Nat /\ Len(ops) \in Nat
  BY Standing
<1>1. PICK n : /\ k \in Nat /\ k < i /\ Marks(ops, i, k, n) /\ Depth(ops, i) = n
  BY Innermost
<1>2. k \in 0 .. Len(ops) - 1
  BY <1>0, <1>1, SMT DEF Index
<1>3. PICK c : c \in Middle(ops, k)
  BY <1>0, <1>2, WellFormedIs, SMT
<1>4. c \in Nat /\ At(ops, c) \in {"Else", "Do"} /\ k \in Openers(ops, c)
  BY <1>0, <1>3, SMT DEF Middle
<1>5. Same_Block(ops, k, c)
  BY <1>4, OpenersIs
<1>6. k < c /\ Depth(ops, c) = Depth(ops, k + 1) /\ Stays_In(ops, k, c)
  BY <1>1, <1>4, <1>5, SameBlock
<1>7. c \notin k + 1 .. i - 1 /\ Depth(ops, k + 1) = n
  BY <1>1, <1>4, <1>5 DEF Marks
<1>8. c # i
  BY <1>4
<1>9. i + 1 \in k + 1 .. c
  BY <1>0, <1>1, <1>4, <1>6, <1>7, <1>8, SMT
<1>10. Depth(ops, i + 1) >= n
  BY <1>6, <1>7, <1>9 DEF Stays_In
<1>11. Depth(ops, i) \in Int /\ Depth(ops, i + 1) = Depth(ops, i) - 1
  BY <1>0, DepthStep
<1> QED BY <1>1, <1>10, <1>11, SMT

\* A body that the pass stops at is not well formed.
LEMMA StoppedIllFormed ==
  ASSUME Blocks, Stopped, status \notin {"running", "linked"}, Well_Formed(ops)
  PROVE  FALSE
<1>0. i \in Nat /\ Len(ops) \in Nat /\ Len(stack) \in Nat /\ status \in Status
  BY Standing DEF TypeOK
<1>1. /\ Depth(ops, Len(ops)) = 0
      /\ \A k \in Index : Placed(ops, k)
  BY <1>0, WellFormedIs DEF Index
<1>2. CASE status = "unclosed"
  <2>1. i = Len(ops) /\ Depth(ops, i) = Len(stack) /\ Len(stack) # 0
    BY <1>2, SeqEmpty, Standing DEF Stopped, Blocks, Deep, TypeOK
  <2> QED BY <1>1, <2>1
<1>3. CASE status = "misplaced"
  <2>1. /\ i \in Index /\ At(ops, i) = "End" /\ stack # <<>> /\ At(ops, Top(stack)) = "While"
    BY <1>3 DEF Stopped, TopIs, Kind
  <2> QED BY <2>1, NoMiddle
<1>4. CASE status = "assert"
  <2>1. i \in Index /\ At(ops, i) = "End" /\ stack = <<>>
    BY <1>4 DEF Stopped, Kind
  <2>2. \E a : a \in Openers(ops, i)
    BY <1>1, <2>1 DEF Placed
  <2> QED BY <2>1, <2>2, NotPlaced
<1>5. CASE status = "ensure"
  <2>1. PICK kind \in {"If", "While"} :
          /\ i \in Index /\ ~TopIs({kind}) /\ At(ops, i) \in {"Else", "Do"}
          /\ \E a \in Openers(ops, i) : At(ops, a) = kind
    BY <1>1, <1>5 DEF Stopped, Kind, Placed
  <2>2. PICK a : a \in Openers(ops, i) /\ At(ops, a) = kind
    BY <2>1
  <2>3. stack # <<>>
    BY <2>2, NotPlaced
  <2>4. PICK k, n : /\ k = Top(stack) /\ Marks(ops, i, k, n) /\ Depth(ops, i) = n
                    /\ At(ops, k) \in {"If", "While", "Else", "Do"}
    BY <2>3, Innermost
  <2>5. At(ops, k) \in {"If", "While"}
    BY <2>1, <2>3, <2>4, SecondMiddle
  <2>6. k = a
    BY <1>0, <2>2, <2>4, <2>5, MarkOpener, OneOpener
  <2> QED BY <2>1, <2>2, <2>3, <2>4, <2>6 DEF TopIs, Kind
<1> QED BY <1>0, <1>2, <1>3, <1>4, <1>5 DEF Status

\* crossreference finishes without an error on exactly the well formed bodies,
\* whatever their length and their nesting.
THEOREM AcceptsExactly == Spec => []AcceptsWellFormed
<1>1. Blocks /\ Stopped => AcceptsWellFormed
  BY LinkedWellFormed, StoppedIllFormed DEF AcceptsWellFormed
<1>2. Init => Stopped
  BY DEF Init, Stopped
<1> QED BY <1>1, <1>2, InitBlocks, BlocksNext, TypeCorrect, PTL DEF Spec
=============================================================================
