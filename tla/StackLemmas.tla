----------------------------- MODULE StackLemmas -----------------------------
(***************************************************************************)
(* Facts about the stacks of the compiler and of the generated code.       *)
(***************************************************************************)
EXTENDS Operations, TLAPS

\* Elements of a sequence.
LEMMA SeqElement ==
  ASSUME NEW S, NEW s \in Seq(S), NEW n \in 1 .. Len(s)
  PROVE  s[n] \in S
OBVIOUS

\* The length of a sequence, and its elements.
LEMMA SeqLen ==
  ASSUME NEW S, NEW s \in Seq(S)
  PROVE  Len(s) \in Nat /\ s \in [1 .. Len(s) -> S] /\ DOMAIN s = 1 .. Len(s)
OBVIOUS

\* The empty sequence.
LEMMA SeqEmpty ==
  ASSUME NEW S
  PROVE  /\ <<>> \in Seq(S) /\ Len(<<>>) = 0
         /\ \A s \in Seq(S) : s # <<>> => Len(s) \in Nat \ {0}
OBVIOUS

\* The functions from the first n numbers are the sequences of length n.
LEMMA SeqFunction ==
  ASSUME NEW S, NEW n \in Nat, NEW s \in [1 .. n -> S]
  PROVE  s \in Seq(S) /\ Len(s) = n
OBVIOUS

\* A sequence with one more element.
LEMMA SeqAppend ==
  ASSUME NEW S, NEW s \in Seq(S), NEW a \in S
  PROVE  /\ Append(s, a) \in Seq(S) /\ Append(s, a) # <<>>
         /\ Len(Append(s, a)) = Len(s) + 1 /\ Append(s, a)[Len(s) + 1] = a
         /\ \A n \in 1 .. Len(s) : Append(s, a)[n] = s[n]
OBVIOUS

-----------------------------------------------------------------------------
(* Stacks.                                                                *)

\* What top() and pop() do.
LEMMA StackPop ==
  ASSUME NEW S, NEW s \in Seq(S), s # <<>>
  PROVE  /\ Len(s) \in Nat \ {0}
         /\ Top(s) \in S
         /\ Pop(s) \in Seq(S)
         /\ Len(Pop(s)) = Len(s) - 1
         /\ \A n \in 1 .. Len(s) - 1 : Pop(s)[n] = s[n]
<1>1. Len(s) \in Nat \ {0}
  BY SeqEmpty
<1>2. Top(s) \in S
  BY <1>1, SeqElement DEF Top
<1>3. CASE Len(s) = 1
  BY <1>1, <1>2, <1>3 DEF Pop
<1>4. CASE Len(s) > 1
  BY <1>1, <1>2, <1>4 DEF Pop
<1>5. Len(s) = 1 \/ Len(s) > 1
  <2>1. \A n \in Nat \ {0} : n = 1 \/ n > 1
    OBVIOUS
  <2> QED BY <1>1, <2>1, Zenon
<1> QED BY <1>3, <1>4, <1>5, Zenon

\* Replacing the top of the stack, as `else` and `do` do.
LEMMA StackReplace ==
  ASSUME NEW S, NEW s \in Seq(S), s # <<>>, NEW x \in S
  PROVE  /\ Append(Pop(s), x) \in Seq(S)
         /\ Len(Append(Pop(s), x)) = Len(s)
         /\ \A n \in 1 .. Len(s) - 1 : Append(Pop(s), x)[n] = s[n]
         /\ Append(Pop(s), x)[Len(s)] = x
<1>1. /\ Pop(s) \in Seq(S) /\ Len(Pop(s)) = Len(s) - 1 /\ Len(s) \in Nat \ {0}
      /\ \A n \in 1 .. Len(s) - 1 : Pop(s)[n] = s[n]
  BY StackPop
<1> DEFINE t == Pop(s)
<1> HIDE DEF t
<1>2. t \in Seq(S) /\ Len(t) = Len(s) - 1
      /\ \A n \in 1 .. Len(s) - 1 : t[n] = s[n]
  BY <1>1 DEF t
<1>3. /\ Append(t, x) \in Seq(S)
      /\ Len(Append(t, x)) = Len(s)
      /\ \A n \in 1 .. Len(s) - 1 : Append(t, x)[n] = s[n]
      /\ Append(t, x)[Len(s)] = x
  BY <1>1, <1>2
<1> QED BY <1>3 DEF t

\* A push, and the pop that undoes it.
LEMMA StackPush ==
  ASSUME NEW S, NEW s \in Seq(S), NEW e \in S
  PROVE  /\ Append(s, e) \in Seq(S) /\ Append(s, e) # <<>>
         /\ Len(Append(s, e)) = Len(s) + 1 /\ Len(s) \in Nat
         /\ Top(Append(s, e)) = e
         /\ Pop(Append(s, e)) = s
         /\ \A k \in 1 .. Len(s) : Append(s, e)[k] = s[k]
BY SeqAppend DEF Top, Pop

=============================================================================
