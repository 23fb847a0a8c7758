--------------------------- MODULE CallStackProofs ---------------------------
(***************************************************************************)
(* Proofs about CallStack, for an array of any size and programs that nest *)
(* their calls to any depth.                                               *)
(***************************************************************************)
EXTENDS CallStack, StackLemmas

\* callptr is still an index: no call has overwritten it.
Intact == callptr <= Callstack_Size

\* The array holds the first callptr return addresses.
Cells == \A k \in 1 .. callptr : callstack[k - 1] = rets[k]

\* What the calls of a body rely on.  While callptr is intact it counts the
\* calls in progress, less the one in transit, and the array mirrors them; an
\* overwritten callptr is more than one past the array, so that neither a
\* prologue nor an epilogue can take it for an index, and this happens only
\* in more than Callstack_Size nested calls.
IInv ==
  /\ TypeOK
  /\ pc = "body" =>
       \/ Intact /\ callptr = Len(rets) /\ Cells
       \/ callptr > Callstack_Size + 1 /\ Len(rets) > Callstack_Size
  /\ pc = "prologue" =>
       /\ rets # <<>> /\ Top(rsp) = Top(rets)
       /\ \/ Intact /\ callptr = Len(rets) - 1 /\ Cells
          \/ callptr > Callstack_Size + 1 /\ Len(rets) > Callstack_Size
  /\ pc = "ret" =>
       /\ rets # <<>> /\ Top(rsp) = Top(rets)
       /\ callptr < Callstack_Size /\ callptr = Len(rets) - 1 /\ Cells

-----------------------------------------------------------------------------

\* The slots under a return address in transit are the program's.
LEMMA UnderTransit ==
  ASSUME TypeOK, pc \in {"prologue", "ret"}
  PROVE  Pop(rsp) \in Seq(Values) /\ Top(rsp) \in Sites /\ Top(rsp) \in Nat
BY CallStackAssumption DEF TypeOK

\* A return address on top of the program's data stack.
LEMMA Transit ==
  ASSUME NEW d \in Seq(Values), NEW site \in Sites
  PROVE  Append(d, site) # <<>> /\ Pop(Append(d, site)) = d /\ Top(Append(d, site)) = site
<1> DEFINE SV == Sites \cup Values
<1>1. Seq(Values) \subseteq Seq(SV)
  BY Z3
<1>2. d \in Seq(SV) /\ site \in SV
  BY <1>1
<1> HIDE DEF SV
<1> QED BY <1>2, StackPush

\* A call puts its return address in transit, over the data stack d.
LEMMA CallStep ==
  ASSUME IInv, pc = "body", NEW d \in Seq(Values), NEW site \in Sites,
         rsp' = Append(d, site), rets' = Append(rets, site), pc' = "prologue",
         at' \in Functions, UNCHANGED <<callstack, callptr>>
  PROVE  IInv'
<1>1. rets \in Seq(Sites)
  BY DEF IInv, TypeOK
<1>2. /\ rets' \in Seq(Sites) /\ rets' # <<>> /\ Top(rets') = site
      /\ Len(rets') = Len(rets) + 1 /\ Len(rets) \in Nat
      /\ \A k \in 1 .. Len(rets) : rets'[k] = rets[k]
  BY <1>1, StackPush
<1>4. rsp' # <<>> /\ Pop(rsp') = d /\ Top(rsp') = site
  BY Transit
<1>5. TypeOK'
  BY <1>2, <1>4 DEF IInv, TypeOK, Pc
<1>6. callptr \in Nat /\ Callstack_Size \in Nat
  BY CallStackAssumption DEF IInv, TypeOK
<1>7. CASE Intact /\ callptr = Len(rets) /\ Cells
  <2>1. Intact' /\ callptr' = Len(rets') - 1
    BY <1>2, <1>6, <1>7 DEF Intact
  <2>2. Cells'
    BY <1>2, <1>6, <1>7 DEF Cells
  <2> QED BY <1>2, <1>4, <1>5, <2>1, <2>2 DEF IInv
<1>8. CASE callptr > Callstack_Size + 1 /\ Len(rets) > Callstack_Size
  <2>1. callptr' > Callstack_Size + 1 /\ Len(rets') > Callstack_Size
    BY <1>2, <1>6, <1>8
  <2> QED BY <1>2, <1>4, <1>5, <2>1 DEF IInv
<1> QED BY <1>7, <1>8 DEF IInv

\* IInv is inductive.
LEMMA InductiveStep == IInv /\ [Next]_vars => IInv'
<1> SUFFICES ASSUME IInv, [Next]_vars PROVE IInv'
  OBVIOUS
<1>0. /\ TypeOK /\ callptr \in Nat /\ rets \in Seq(Sites) /\ Len(rets) \in Nat
      /\ Callstack_Size \in Nat \ {0}
  BY CallStackAssumption, SeqLen DEF IInv, TypeOK
<1>1. CASE Push
  <2>1. rsp' \in Seq(Values)
    BY <1>0, <1>1 DEF Push, TypeOK
  <2> QED BY <1>0, <1>1, <2>1 DEF Push, IInv, TypeOK, Intact, Cells
<1>2. CASE Drop
  <2>1. rsp' \in Seq(Values)
    BY <1>0, <1>2, StackPop DEF Drop, TypeOK
  <2> QED BY <1>0, <1>2, <2>1 DEF Drop, IInv, TypeOK, Intact, Cells
<1>3. CASE Call_Symbol
  <2>1. rsp \in Seq(Values)
    BY <1>0, <1>3 DEF Call_Symbol, TypeOK
  <2> QED BY <1>3, <2>1, CallStep DEF Call_Symbol
<1>4. CASE Call_Intrinsic
  <2>1. Pop(rsp) \in Seq(Values)
    BY <1>0, <1>4, StackPop DEF Call_Intrinsic, TypeOK
  <2> QED BY <1>4, <2>1, CallStep DEF Call_Intrinsic
<1>5. CASE Prologue
  <2>1. pc = "prologue" /\ callptr < Callstack_Size /\ callptr' = callptr + 1
        /\ rets' = rets /\ pc' = "body" /\ rsp' = Pop(rsp)
    BY <1>5 DEF Prologue
  <2>2. Pop(rsp) \in Seq(Values) /\ Top(rsp) \in Sites
    BY <1>0, <2>1, UnderTransit
  <2>3. callptr = Len(rets) - 1 /\ Cells /\ Top(rsp) = rets[Len(rets)]
    BY <1>0, <2>1 DEF IInv, Top
  <2>4. TypeOK'
    BY <1>0, <1>5, <2>1, <2>2 DEF Prologue, TypeOK, Pc
  <2>5. Cells'
    <3> SUFFICES ASSUME NEW k \in 1 .. callptr + 1 PROVE callstack'[k - 1] = rets[k]
      BY <2>1 DEF Cells
    <3>1. CASE k = callptr + 1
      BY <1>0, <1>5, <2>1, <2>3, <3>1 DEF Prologue, TypeOK
    <3>2. CASE k # callptr + 1
      BY <1>0, <1>5, <2>1, <2>3, <3>2 DEF Prologue, TypeOK, Cells
    <3> QED BY <3>1, <3>2
  <2> QED BY <1>0, <2>1, <2>3, <2>4, <2>5 DEF IInv, Intact
<1>6. CASE Prologue_Overwrites_Callptr
  <2>1. pc = "prologue" /\ callptr = Callstack_Size /\ callptr' = Top(rsp) + 1
        /\ UNCHANGED <<callstack, at, rets>> /\ pc' = "body" /\ rsp' = Pop(rsp)
    BY <1>6 DEF Prologue_Overwrites_Callptr
  <2>2. Pop(rsp) \in Seq(Values) /\ Top(rsp) \in Nat /\ Top(rsp) > Callstack_Size
    BY <1>0, <2>1, UnderTransit, CallStackAssumption
  <2>3. callptr = Len(rets) - 1
    BY <1>0, <2>1 DEF IInv
  <2>4. callptr' \in Nat /\ callptr' > Callstack_Size + 1 /\ Len(rets') > Callstack_Size
    BY <1>0, <2>1, <2>2, <2>3
  <2>5. TypeOK'
    BY <1>0, <2>1, <2>2, <2>4 DEF TypeOK, Pc
  <2> QED BY <2>1, <2>4, <2>5 DEF IInv
<1>7. CASE Prologue_Faults
  <2>1. Pop(rsp) \in Seq(Values)
    BY <1>0, <1>7, UnderTransit DEF Prologue_Faults
  <2> QED BY <1>0, <1>7, <2>1 DEF Prologue_Faults, IInv, TypeOK, Pc
<1>8. CASE Epilogue
  <2>1. pc = "body" /\ rets # <<>> /\ callptr' = callptr - 1 /\ pc' = "ret"
        /\ UNCHANGED <<callstack, at, rets>> /\ rsp' = Append(rsp, callstack[callptr - 1])
    BY <1>8 DEF Epilogue
  <2>2. callptr - 1 \in 0 .. Callstack_Size - 1
    BY <1>0, <1>8 DEF Epilogue, TypeOK
  <2>3. callptr = Len(rets) /\ Cells
    BY <1>0, <2>1, <2>2 DEF IInv
  <2>4. callstack[callptr - 1] = Top(rets) /\ Top(rets) \in Sites
    BY <1>0, <2>1, <2>2, <2>3, StackPop DEF Cells, Top
  <2>5. rsp \in Seq(Values)
    BY <1>0, <2>1 DEF TypeOK
  <2>6. rsp' # <<>> /\ Pop(rsp') = rsp /\ Top(rsp') = Top(rets)
    BY <2>1, <2>4, <2>5, Transit
  <2>7. TypeOK'
    BY <1>0, <2>1, <2>2, <2>4, <2>5, <2>6 DEF TypeOK, Pc
  <2>8. Cells' /\ callptr' < Callstack_Size /\ callptr' = Len(rets') - 1
    BY <1>0, <2>1, <2>2, <2>3 DEF Cells
  <2>9. Top(rsp') = Top(rets')
    BY <2>1, <2>6
  <2> QED BY <2>1, <2>7, <2>8, <2>9 DEF IInv
<1>9. CASE Epilogue_Faults
  <2>1. Len(rets) \in Nat \ {0}
    BY <1>0, <1>9, StackPop DEF Epilogue_Faults
  <2>2. callptr > 0
    BY <1>0, <1>9, <2>1 DEF Epilogue_Faults, IInv
  <2> QED BY <1>0, <1>9, <2>2 DEF Epilogue_Faults, IInv, TypeOK, Pc
<1>10. CASE Ret
  <2>1. pc = "ret" /\ rets # <<>> /\ Top(rsp) = Top(rets) /\ callptr < Callstack_Size
        /\ callptr = Len(rets) - 1 /\ Cells
    BY <1>10 DEF Ret, IInv
  <2>2. Pop(rsp) \in Seq(Values) /\ Top(rsp) \in Sites
    BY <1>0, <2>1, UnderTransit
  <2>3. /\ Pop(rets) \in Seq(Sites) /\ Len(Pop(rets)) = Len(rets) - 1
        /\ \A k \in 1 .. Len(rets) - 1 : Pop(rets)[k] = rets[k]
    BY <1>0, <2>1, StackPop
  <2>4. TypeOK'
    BY <1>0, <1>10, <2>2, <2>3 DEF Ret, TypeOK, Pc
  <2>5. callptr' = Len(rets') /\ Intact'
    BY <1>0, <1>10, <2>1, <2>3 DEF Ret, Intact
  <2>6. Cells'
    <3> SUFFICES ASSUME NEW k \in 1 .. callptr PROVE callstack[k - 1] = Pop(rets)[k]
      BY <1>10 DEF Ret, Cells
    <3>1. k \in 1 .. Len(rets) - 1
      BY <2>1
    <3> QED BY <2>1, <2>3, <3>1 DEF Cells
  <2> QED BY <1>10, <2>4, <2>5, <2>6 DEF Ret, IInv
<1>11. CASE Exit
  BY <1>0, <1>11 DEF Exit, IInv, TypeOK, Pc
<1>12. CASE UNCHANGED vars
  BY <1>12 DEF vars, IInv, TypeOK, Intact, Cells
<1> QED
  BY <1>1, <1>2, <1>3, <1>4, <1>5, <1>6, <1>7, <1>8, <1>9, <1>10, <1>11, <1>12 DEF Next

-----------------------------------------------------------------------------

\* The states in which the program starts satisfy the inductive invariant.
LEMMA InitInvariant == Init => IInv
<1> SUFFICES ASSUME Init PROVE IInv
  OBVIOUS
<1>1. TypeOK
  BY CallStackAssumption DEF Init, TypeOK, Pc
<1>2. callptr = 0 /\ Len(rets) = 0 /\ Cells /\ Intact /\ pc = "body"
  BY CallStackAssumption DEF Init, Cells, Intact
<1> QED BY <1>1, <1>2 DEF IInv

\* In the code of every body the stack that rsp points to is the program's
\* data stack, free of return addresses, at any depth of calls.
THEOREM TypeCorrect == Spec => []TypeOK
<1>1. IInv => TypeOK
  BY DEF IInv
<1> QED BY InitInvariant, InductiveStep, <1>1, PTL DEF Spec

\* A function returns to the call that entered it, for every size of the call
\* stack and at any depth, the depths that overwrite callptr included.
THEOREM ReturnsCorrect == Spec => []ReturnsToCaller
<1>1. IInv => ReturnsToCaller
  BY DEF IInv, ReturnsToCaller
<1> QED BY InitInvariant, InductiveStep, <1>1, PTL DEF Spec

\* Every instruction sequence of the generated code is a step of Calls, or
\* none.
LEMMA RefinementStep ==
  IInv /\ [Next]_vars => [Abstract!Next]_(Abstract!callsVars)
<1> SUFFICES ASSUME IInv, [Next]_vars
             PROVE  [Abstract!Next]_(Abstract!callsVars)
  OBVIOUS
<1> USE DEF Abstract!Next, Abstract!callsVars
<1>0. /\ TypeOK /\ callptr \in Nat /\ rets \in Seq(Sites) /\ Len(rets) \in Nat
      /\ Callstack_Size \in Nat \ {0}
  BY CallStackAssumption, SeqLen DEF IInv, TypeOK
<1>1. CASE Push
  BY <1>1 DEF Push, Abstract!Work
<1>2. CASE Drop
  BY <1>2 DEF Drop, Abstract!Work, Abstract!Pop, Pop
<1>3. CASE Call_Symbol
  <2>1. rsp \in Seq(Values)
    BY <1>0, <1>3 DEF Call_Symbol, TypeOK
  <2>2. Pop(rsp') = rsp
    BY <1>3, <2>1, Transit DEF Call_Symbol
  <2> QED BY <1>3, <2>2 DEF Call_Symbol, Abstract!Call
<1>4. CASE Call_Intrinsic
  <2>1. Pop(rsp) \in Seq(Values)
    BY <1>0, <1>4, StackPop DEF Call_Intrinsic, TypeOK
  <2>2. Pop(rsp') = Pop(rsp)
    BY <1>4, <2>1, Transit DEF Call_Intrinsic
  <2>3. Abstract!Pop(rsp) = Pop(rsp) /\ Abstract!Top(rsp) = Top(rsp)
    BY DEF Abstract!Pop, Pop, Abstract!Top, Top
  <2> QED BY <1>4, <2>2, <2>3 DEF Call_Intrinsic, Abstract!Call
<1>5. CASE Prologue
  BY <1>5 DEF Prologue
<1>6. CASE Prologue_Overwrites_Callptr
  BY <1>6 DEF Prologue_Overwrites_Callptr
<1>7. CASE Prologue_Faults
  BY <1>0, <1>7 DEF Prologue_Faults, IInv, Intact, Abstract!Fault
<1>8. CASE Epilogue
  <2>1. rsp \in Seq(Values) /\ callptr - 1 \in 0 .. Callstack_Size - 1
    BY <1>0, <1>8 DEF Epilogue, TypeOK
  <2>2. callptr = Len(rets) /\ Cells
    BY <1>0, <1>8, <2>1 DEF Epilogue, IInv
  <2>3. callstack[callptr - 1] = Top(rets) /\ Top(rets) \in Sites
    BY <1>0, <1>8, <2>1, <2>2, StackPop DEF Epilogue, Cells, Top
  <2>4. Pop(rsp') = rsp
    BY <1>8, <2>1, <2>3, Transit DEF Epilogue
  <2> QED BY <1>8, <2>4 DEF Epilogue
<1>9. CASE Epilogue_Faults
  <2>1. pc = "body" /\ rets # <<>> /\ callptr - 1 \notin 0 .. Callstack_Size - 1
    BY <1>0, <1>9 DEF Epilogue_Faults, TypeOK
  <2>2. Len(rets) \in Nat \ {0}
    BY <1>0, <2>1, StackPop
  <2>3. Len(rets) > Callstack_Size
    BY <1>0, <2>1, <2>2 DEF IInv, Intact
  <2> QED BY <1>9, <2>3 DEF Epilogue_Faults, Abstract!Fault
<1>10. CASE Ret
  <2>1. Abstract!Pop(rets) = Pop(rets) /\ Abstract!Top(rets) = Top(rets)
    BY DEF Abstract!Pop, Pop, Abstract!Top, Top
  <2> QED BY <1>10, <2>1 DEF Ret, IInv, Abstract!Return
<1>11. CASE Exit
  BY <1>11 DEF Exit
<1>12. CASE UNCHANGED vars
  BY <1>12 DEF vars
<1> QED
  BY <1>1, <1>2, <1>3, <1>4, <1>5, <1>6, <1>7, <1>8, <1>9, <1>10, <1>11, <1>12 DEF Next

\* The generated code implements Calls: calls nest, return to their callers,
\* leave the data stack alone, and fault only past Callstack_Size of them.
THEOREM Refinement == Spec => ImplementsCalls
<1>1. Init => Abstract!Init
  BY DEF Init, Abstract!Init
<1> QED BY InitInvariant, InductiveStep, RefinementStep, <1>1, PTL
        DEF Spec, ImplementsCalls, Abstract!Spec
=============================================================================
