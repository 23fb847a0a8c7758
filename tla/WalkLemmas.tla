----------------------------- MODULE WalkLemmas -----------------------------
(***************************************************************************)
(* What a certificate is worth.  A certificate is a set of walks over the  *)
(* bodies of the words: a walk has the typestack at every operation that can*)
(* be reached, and every operation turns the typestack it finds into those *)
(* of the operations that follow it.  A machine whose calls in progress    *)
(* follow walks, each on top of what its caller has left on the data stack,*)
(* goes on doing so, and finds on the stack what the typechecker expects.  *)
(***************************************************************************)
EXTENDS Execution, StackLemmas

\* Steps that need arithmetic or sequences cite SMT.
USE Zenon

-----------------------------------------------------------------------------
(* Sequences, and the parts of a stack                                      *)

\* A sequence with one element replaced.
LEMMA SeqExcept ==
  ASSUME NEW A, NEW s \in Seq(A), NEW k \in 1 .. Len(s), NEW a \in A
  PROVE  /\ [s EXCEPT ![k] = a] \in Seq(A) /\ Len([s EXCEPT ![k] = a]) = Len(s)
         /\ \A n \in 1 .. Len(s) : [s EXCEPT ![k] = a][n] = IF n = k THEN a ELSE s[n]
BY SMT

\* Sequences with the same elements.
LEMMA SeqSame ==
  ASSUME NEW A, NEW s \in Seq(A), NEW t \in Seq(A), Len(s) = Len(t),
         \A n \in 1 .. Len(s) : s[n] = t[n]
  PROVE  s = t
BY SMT

\* A sequence over a smaller set.
LEMMA SeqWider ==
  ASSUME NEW A, NEW T, A \subseteq T, NEW s \in Seq(A)
  PROVE  s \in Seq(T)
BY SMT

\* Append adds a sequence of one element.
LEMMA SeqAppendConcat ==
  ASSUME NEW A, NEW s \in Seq(A), NEW a \in A
  PROVE  Append(s, a) = s \o <<a>>
BY SMT

\* Two sequences, one after the other.
LEMMA SeqConcat ==
  ASSUME NEW A, NEW s \in Seq(A), NEW t \in Seq(A)
  PROVE  /\ s \o t \in Seq(A) /\ Len(s \o t) = Len(s) + Len(t)
         /\ \A n \in 1 .. Len(s) + Len(t) :
              (s \o t)[n] = IF n <= Len(s) THEN s[n] ELSE t[n - Len(s)]
BY SMT

\* Nothing before or after a sequence.
LEMMA SeqConcatEmpty ==
  ASSUME NEW A, NEW s \in Seq(A)
  PROVE  s \o <<>> = s /\ <<>> \o s = s
BY SMT

\* Three sequences, one after the other.
LEMMA SeqAssociative ==
  ASSUME NEW A, NEW s \in Seq(A), NEW t \in Seq(A), NEW u \in Seq(A)
  PROVE  (s \o t) \o u = s \o (t \o u)
BY SMT

\* A part of a sequence.
LEMMA SeqSub ==
  ASSUME NEW A, NEW s, NEW a \in Int, NEW b \in Int, \A n \in a .. b : s[n] \in A
  PROVE  /\ SubSeq(s, a, b) \in Seq(A)
         /\ Len(SubSeq(s, a, b)) = IF a <= b THEN b - a + 1 ELSE 0
         /\ \A n \in 1 .. b - a + 1 : SubSeq(s, a, b)[n] = s[a + n - 1]
BY SMT

\* The top r slots of a stack, and what is below them.
Upper(s, r) == SubSeq(s, Len(s) - r + 1, Len(s))
Lower(s, r) == SubSeq(s, 1, Len(s) - r)

\* What Upper and Lower are.
LEMMA Split ==
  ASSUME NEW T, NEW s \in Seq(T), NEW r \in Nat, r <= Len(s)
  PROVE  /\ Upper(s, r) \in Seq(T) /\ Len(Upper(s, r)) = r
         /\ \A k \in 1 .. r : Upper(s, r)[k] = s[Len(s) - r + k]
         /\ Lower(s, r) \in Seq(T) /\ Len(Lower(s, r)) = Len(s) - r
         /\ \A k \in 1 .. Len(s) - r : Lower(s, r)[k] = s[k]
<1>1. PICK l \in Nat, m \in Int : l = Len(s) /\ r <= l /\ m = l - r + 1
  BY SMT
<1>2. \A k \in 1 .. l : s[k] \in T
  BY <1>1, SeqElement
<1>3. /\ SubSeq(s, m, l) \in Seq(T)
      /\ Len(SubSeq(s, m, l)) = IF m <= l THEN l - m + 1 ELSE 0
      /\ \A k \in 1 .. l - m + 1 : SubSeq(s, m, l)[k] = s[m + k - 1]
  <2>1. \A k \in m .. l : s[k] \in T
    BY <1>1, <1>2, SMT
  <2> QED BY <2>1, SeqSub, SMT
<1>4. /\ r = IF m <= l THEN l - m + 1 ELSE 0
      /\ l - m + 1 = r /\ \A k \in 1 .. r : m + k - 1 = l - r + k
  BY <1>1, SMT
<1>5. Upper(s, r) = SubSeq(s, m, l)
  BY <1>1 DEF Upper
<1>6. /\ Upper(s, r) \in Seq(T) /\ Len(Upper(s, r)) = r
      /\ \A k \in 1 .. r : Upper(s, r)[k] = s[l - r + k]
  BY <1>3, <1>4, <1>5
<1>7. /\ SubSeq(s, 1, l - r) \in Seq(T)
      /\ Len(SubSeq(s, 1, l - r)) = IF 1 <= l - r THEN l - r - 1 + 1 ELSE 0
      /\ \A k \in 1 .. l - r - 1 + 1 : SubSeq(s, 1, l - r)[k] = s[1 + k - 1]
  <2>1. \A k \in 1 .. l - r : s[k] \in T
    BY <1>1, <1>2, SMT
  <2> QED BY <1>1, <2>1, SeqSub, SMT
<1>8. /\ l - r = IF 1 <= l - r THEN l - r - 1 + 1 ELSE 0
      /\ l - r - 1 + 1 = l - r /\ \A k \in 1 .. l - r : 1 + k - 1 = k
  BY <1>1, SMT
<1>9. Lower(s, r) = SubSeq(s, 1, l - r)
  BY <1>1 DEF Lower
<1>10. /\ Lower(s, r) \in Seq(T) /\ Len(Lower(s, r)) = l - r
       /\ \A k \in 1 .. l - r : Lower(s, r)[k] = s[k]
  BY <1>7, <1>8, <1>9
<1> QED BY <1>1, <1>6, <1>10

\* A stack is what is below its top r slots, and these.
LEMMA SplitJoins ==
  ASSUME NEW T, NEW s \in Seq(T), NEW r \in Nat, r <= Len(s)
  PROVE  s = Lower(s, r) \o Upper(s, r)
<1>1. PICK v, w, z : v = Lower(s, r) /\ w = Upper(s, r) /\ z = v \o w
  OBVIOUS
<1>2. PICK l \in Nat : l = Len(s) /\ r <= l
  BY SMT
<1>3. /\ v \in Seq(T) /\ Len(v) = l - r /\ \A k \in 1 .. l - r : v[k] = s[k]
      /\ w \in Seq(T) /\ Len(w) = r /\ \A k \in 1 .. r : w[k] = s[l - r + k]
  BY <1>1, <1>2, Split
<1>4. v \in Seq(T) /\ w \in Seq(T)
  BY <1>3
<1>5. z \in Seq(T) /\ Len(z) = Len(v) + Len(w)
      /\ \A k \in 1 .. Len(v) + Len(w) : z[k] = IF k <= Len(v) THEN v[k] ELSE w[k - Len(v)]
  BY <1>1, <1>4, SeqConcat, SMT
<1>6. \A k \in 1 .. l : k > l - r => k - (l - r) \in 1 .. r /\ l - r + (k - (l - r)) = k
  BY <1>2, SMT
<1>7. ASSUME NEW k \in 1 .. l
      PROVE  z[k] = s[k]
  <2>00. l - r \in Nat /\ (l - r) + r = l
    BY <1>2, SMT
  <2>. PICK e \in Nat : e = l - r /\ e + r = l
    BY <2>00
  <2>0. e = Len(v) /\ e = l - r /\ e + r = l /\ Len(w) = r
    BY <1>3
  <2>1. CASE k <= e
    BY <1>3, <1>5, <2>0, <2>1, SMT
  <2>2. CASE k > e
    <3>1. PICK j \in 1 .. r : j = k - e /\ l - r + j = k
      BY <2>0, <2>2, SMT
    <3>2. w[j] = s[k]
      BY <1>3, <3>1
    <3>3. k \in 1 .. Len(v) + Len(w) /\ ~(k <= Len(v)) /\ k - Len(v) = j
      BY <2>0, <2>2, <3>1, SMT
    <3> QED BY <1>5, <3>2, <3>3
  <2> QED BY <2>0, <2>1, <2>2, SMT
<1>8. Len(z) = l
  BY <1>2, <1>3, <1>5, SMT
<1> QED BY <1>1, <1>2, <1>5, <1>7, <1>8, SeqSame

\* What lies further down does not matter to the top slots.
LEMMA SplitLocal ==
  ASSUME NEW T, NEW p \in Seq(T), NEW u \in Seq(T), NEW r \in Nat, r <= Len(u)
  PROVE  /\ Upper(p \o u, r) = Upper(u, r)
         /\ Lower(p \o u, r) = p \o Lower(u, r)
<1>1. PICK d : d = p \o u
  OBVIOUS
<1>2. PICK a \in Nat, b \in Nat : a = Len(p) /\ b = Len(u) /\ r <= b
  BY SMT
<1>3. d \in Seq(T) /\ Len(d) = a + b
      /\ \A k \in 1 .. a + b : d[k] = IF k <= a THEN p[k] ELSE u[k - a]
  BY <1>1, <1>2, SeqConcat, ZenonT(30)
<1>4. r <= Len(d)
  BY <1>2, <1>3, SMT
<1>5. PICK v, w, x, y : v = Lower(d, r) /\ w = Upper(d, r) /\ x = Lower(u, r) /\ y = Upper(u, r)
  OBVIOUS
<1>6. PICK c \in Nat : c = Len(d) /\ c = a + b
  BY <1>3, SMT
<1>6a. /\ v \in Seq(T) /\ Len(v) = c - r /\ \A k \in 1 .. c - r : v[k] = d[k]
      /\ w \in Seq(T) /\ Len(w) = r /\ \A k \in 1 .. r : w[k] = d[c - r + k]
  <2>1. d \in Seq(T) /\ Len(d) = c /\ r <= Len(d)
    BY <1>3, <1>4, <1>6
  <2> QED BY <1>5, <2>1, Split
<1>7. /\ x \in Seq(T) /\ Len(x) = b - r /\ \A k \in 1 .. b - r : x[k] = u[k]
      /\ y \in Seq(T) /\ Len(y) = r /\ \A k \in 1 .. r : y[k] = u[b - r + k]
  <2>1. u \in Seq(T) /\ Len(u) = b /\ r <= Len(u)
    BY <1>2
  <2> QED BY <1>5, <2>1, Split, ZenonT(30)
<1>8. w = y
  <2>1. \A k \in 1 .. r : /\ c - r + k \in 1 .. a + b /\ ~(c - r + k <= a)
                          /\ c - r + k - a = b - r + k
    BY <1>2, <1>6, SMT
  <2>2. ASSUME NEW k \in 1 .. r PROVE d[c - r + k] = u[b - r + k]
    <3>1. PICK j : j = c - r + k
      OBVIOUS
    <3>2. j \in 1 .. a + b /\ ~(j <= a) /\ j - a = b - r + k
      BY <1>2, <1>6, <3>1, SMT
    <3> QED BY <1>3, <3>1, <3>2
  <2>3. w \in Seq(T) /\ y \in Seq(T) /\ Len(w) = Len(y) /\ \A k \in 1 .. Len(w) : w[k] = y[k]
    BY <1>6a, <1>7, <2>2
  <2> QED BY <2>3, SeqSame
<1>9. PICK z : z = p \o x
  OBVIOUS
<1>9a. x \in Seq(T)
  BY <1>7
<1>10. z \in Seq(T) /\ Len(z) = a + Len(x)
       /\ \A k \in 1 .. a + Len(x) : z[k] = IF k <= a THEN p[k] ELSE x[k - a]
  BY <1>2, <1>9, <1>9a, SeqConcat
<1>10a. \A k \in 1 .. c - r : ~(k <= a) => k - a \in 1 .. b - r
  BY <1>2, <1>6, SMT
<1>11. Len(v) = c - r /\ Len(z) = c - r /\ \A k \in 1 .. c - r : k \in 1 .. a + b
       /\ k \in 1 .. a + Len(x)
  BY <1>2, <1>6, <1>6a, <1>7, <1>10, SMT
<1>11a. ASSUME NEW k \in 1 .. c - r PROVE v[k] = z[k]
  <2>1. CASE k <= a
    BY <1>3, <1>6a, <1>10, <1>11, <2>1
  <2>2. CASE ~(k <= a)
    <3>1. PICK j \in 1 .. b - r : j = k - a
      BY <1>10a, <2>2
    <3>2. x[j] = u[j]
      BY <1>7
    <3> QED BY <1>3, <1>6a, <1>10, <1>11, <2>2, <3>1, <3>2
  <2> QED BY <2>1, <2>2
<1>12. v = z
  BY <1>6a, <1>10, <1>11, <1>11a, SeqSame
<1> QED BY <1>1, <1>5, <1>8, <1>9, <1>12

\* Two parts of a stack, the lower one first; and a push.
Join(s, t) == s \o t
Pushed(s, a) == Append(s, a)

\* A join is a stack, as long as its two parts together.
LEMMA JoinIs ==
  ASSUME NEW T, NEW p \in Seq(T), NEW u \in Seq(T)
  PROVE  /\ Join(p, u) \in Seq(T) /\ Len(Join(p, u)) = Len(p) + Len(u)
         /\ Len(p) \in Nat /\ Len(u) \in Nat
BY SeqConcat, SMT DEF Join

\* Joining an empty stack changes nothing.
LEMMA JoinEmpty ==
  ASSUME NEW T, NEW p \in Seq(T)
  PROVE  Join(p, <<>>) = p /\ Join(<<>>, p) = p
BY SeqConcatEmpty DEF Join

\* Of three parts, it does not matter which two are joined first.
LEMMA JoinAssociative ==
  ASSUME NEW T, NEW p \in Seq(T), NEW m \in Seq(T), NEW u \in Seq(T)
  PROVE  Join(Join(p, m), u) = Join(p, Join(m, u))
BY SeqAssociative, SMT DEF Join

\* A push leaves a stack that is longer by one.
LEMMA PushIs ==
  ASSUME NEW T, NEW u \in Seq(T), NEW a \in T
  PROVE  Pushed(u, a) \in Seq(T) /\ Len(Pushed(u, a)) = Len(u) + 1 /\ Pushed(u, a) # <<>>
BY SeqAppend, SMT DEF Pushed

\* A push works on the upper part of a stack.
LEMMA JoinPush ==
  ASSUME NEW T, NEW p \in Seq(T), NEW u \in Seq(T), NEW a \in T
  PROVE  Pushed(Join(p, u), a) = Join(p, Pushed(u, a))
<1>1. PICK d, c : d = p \o u /\ c = <<a>>
  OBVIOUS
<1>2. d \in Seq(T) /\ c \in Seq(T)
  BY <1>1, SeqConcat, SMT
<1>3. Append(d, a) = d \o c /\ Append(u, a) = u \o c
  BY <1>1, <1>2, SeqAppendConcat
<1>4. (p \o u) \o c = p \o (u \o c)
  BY <1>2, SeqAssociative, SMTT(30)
<1> QED BY <1>1, <1>3, <1>4 DEF Join, Pushed

\* So do pop() and top().
LEMMA JoinPop ==
  ASSUME NEW T, NEW p \in Seq(T), NEW u \in Seq(T), u # <<>>
  PROVE  Pop(Join(p, u)) = Join(p, Pop(u)) /\ Top(Join(p, u)) = Top(u)
<1>1. Len(u) \in Nat \ {0} /\ Len(p) \in Nat
  BY SeqEmpty, SMT
<1>2. 1 <= Len(u)
  BY <1>1, SMT
<1>3. Lower(p \o u, 1) = p \o Lower(u, 1)
  BY <1>2, SplitLocal, SMT
<1>4. \A s : Pop(s) = Lower(s, 1)
  BY DEF Pop, Lower
<1>5. Top(p \o u) = Top(u)
  <2>1. PICK d : d = p \o u
    OBVIOUS
  <2>2. Len(d) = Len(p) + Len(u) /\ \A k \in 1 .. Len(p) + Len(u) : d[k] = IF k <= Len(p) THEN p[k]
        ELSE u[k - Len(p)]
    BY <2>1, SeqConcat
  <2>3. PICK n : n = Len(p) + Len(u)
    OBVIOUS
  <2>4. n \in 1 .. Len(p) + Len(u) /\ ~(n <= Len(p)) /\ n - Len(p) = Len(u)
    BY <1>1, <2>3, SMT
  <2>5. d[n] = u[Len(u)]
    BY <2>2, <2>4
  <2> QED BY <2>1, <2>2, <2>3, <2>5 DEF Top
<1> QED BY <1>3, <1>4, <1>5 DEF Join

\* SplitJoins, of a join.
LEMMA SplitJoin ==
  ASSUME NEW T, NEW s \in Seq(T), NEW r \in Nat, r <= Len(s)
  PROVE  Join(Lower(s, r), Upper(s, r)) = s
BY SplitJoins DEF Join

Bottom(d, k) == SubSeq(d, 1, k)
Above(d, k) == SubSeq(d, k + 1, Len(d))

\* The two parts of a join, by position.
LEMMA JoinParts ==
  \A A : \A b \in Seq(A) : \A u \in Seq(A) : \A d, k :
    /\ d = Join(b, u)
    /\ k = Len(b)
    => /\ Len(d) = k + Len(u) /\ k \in Nat /\ k <= Len(d)
       /\ Bottom(d, k) = b /\ Above(d, k) = u
\* A join taken apart again.
<1>SplitOfJoin.
    ASSUME NEW T, NEW p \in Seq(T), NEW u \in Seq(T)
    PROVE  Lower(p \o u, Len(u)) = p /\ Upper(p \o u, Len(u)) = u
  <2> USE <1>SplitOfJoin
  <2>1. Lower(p \o u, Len(u)) = p \o Lower(u, Len(u)) /\ Upper(p \o u, Len(u)) = Upper(u, Len(u))
    BY SplitLocal, SMT
  <2>2. PICK n \in Nat : n = Len(u) /\ n <= Len(u)
    BY SMT
  <2>3. /\ Upper(u, n) \in Seq(T) /\ Len(Upper(u, n)) = n
        /\ \A k \in 1 .. n : Upper(u, n)[k] = u[Len(u) - n + k]
        /\ Lower(u, n) \in Seq(T) /\ Len(Lower(u, n)) = Len(u) - n
    BY <2>2, Split, ZenonT(30)
  <2>3a. n - n = 0 /\ \A k \in 1 .. n : n - n + k = k
    BY SMT
  <2>4. Lower(u, n) = <<>>
    BY <2>2, <2>3, <2>3a, SeqEmpty
  <2>5. \A k \in 1 .. n : Upper(u, n)[k] = u[k]
    BY <2>2, <2>3, <2>3a
  <2>6. Upper(u, n) = u
    BY <2>2, <2>3, <2>5, SeqSame
  <2> QED BY <2>1, <2>2, <2>4, <2>6, SeqConcatEmpty

\* SplitOfJoin, of a join.
<1>JoinSplit.
    ASSUME NEW T, NEW p \in Seq(T), NEW u \in Seq(T)
    PROVE  Lower(Join(p, u), Len(u)) = p /\ Upper(Join(p, u), Len(u)) = u
  BY <1>JoinSplit, <1>SplitOfJoin DEF Join

<1> SUFFICES ASSUME NEW A, NEW b \in Seq(A), NEW u \in Seq(A), NEW d, d = Join(b, u),
                    NEW k, k = Len(b)
             PROVE  /\ Len(d) = k + Len(u) /\ k \in Nat /\ k <= Len(d)
                    /\ Bottom(d, k) = b /\ Above(d, k) = u
  BY SMT
<1>1. PICK l : l = Len(u)
  OBVIOUS
<1>2. Len(d) = k + l /\ k \in Nat /\ l \in Nat
  BY <1>1, JoinIs
<1>3. Lower(d, l) = b /\ Upper(d, l) = u
  BY <1>1, <1>JoinSplit
<1>4. Len(d) - l = k /\ Len(d) - l + 1 = k + 1 /\ k <= Len(d)
  BY <1>2, SMT
<1>5. SubSeq(d, 1, Len(d) - l) = b /\ SubSeq(d, Len(d) - l + 1, Len(d)) = u
  BY <1>3 DEF Lower, Upper
<1> QED BY <1>1, <1>2, <1>4, <1>5 DEF Bottom, Above

-----------------------------------------------------------------------------
(* The effects of types.cc against the code of emit_intrinsic               *)

\* The code emitted for an intrinsic and one of its effects: as many slots are
\* read as the effect has inputs, what is left is the effect's outputs in their
\* order, and a slot that is moved is the one a variable of the effect names.
Agrees(intr, e) ==
  LET code == Emitted(intr)
  IN /\ e.input \in Seq(Type \cup Variable) /\ e.output \in Seq(Type \cup Variable)
     /\ code.reads = Len(e.input)
     /\ code.leaves \in Seq(0 .. Len(e.input))
     /\ Len(code.leaves) = Len(e.output)
     /\ \A n \in 1 .. Len(e.output) :
          IF code.leaves[n] = 0 THEN e.output[n] \in Value
          ELSE /\ e.output[n] \in Variable
               /\ \A m \in 1 .. Len(e.input) : e.input[m] = e.output[n] <=> m = code.leaves[n]

\* What is computed from values that the effect takes has the type it promises.
Computes(intr, e) ==
  \A args \in Seq(Value) :
    /\ Len(args) = Len(e.input)
    /\ \A m \in 1 .. Len(e.input) : e.input[m] \in Variable \/ Same_Type(args[m], e.input[m])
    => \A n \in 1 .. Len(e.output) :
         Emitted(intr).leaves[n] = 0 => Computed(intr, args) = e.output[n]

\* What an effect with two types for inputs and one output asks for.
LEMMA BinaryComputes ==
  ASSUME NEW intr, NEW a \in Value, NEW b \in Value, NEW o,
         \A args : args[1] = a /\ args[2] = b => Computed(intr, args) = o
  PROVE  Computes(intr, Effect(<<a, b>>, <<o>>))
<1> DEFINE e == Effect(<<a, b>>, <<o>>)
<1>1. /\ Len(e.input) = 2 /\ e.input[1] = a /\ e.input[2] = b
      /\ Len(e.output) = 1 /\ e.output[1] = o
  BY DEF Effect
<1>2. a \notin Variable /\ b \notin Variable
  BY DEF Value, Type, Variable
<1> HIDE DEF e
<1>3. ASSUME NEW args \in Seq(Value), Len(args) = 2,
             \A m \in 1 .. 2 : e.input[m] \in Variable \/ Same_Type(args[m], e.input[m])
      PROVE  Computed(intr, args) = o
  <2>1. Same_Type(args[1], a) /\ Same_Type(args[2], b)
    BY <1>1, <1>2, <1>3, SMT
  <2>2. 1 \in 1 .. Len(args) /\ 2 \in 1 .. Len(args)
    BY <1>3, SMT
  <2>3. args[1] \in Value /\ args[2] \in Value
    BY <2>2, SeqElement
  <2>4. args[1] = a /\ args[2] = b
    BY <2>1, <2>3 DEF Value, Same_Type
  <2> QED BY <2>4
<1>4. Computes(intr, e)
  BY <1>1, <1>3, SMT DEF Computes
<1> QED BY <1>4 DEF e

\* Every effect that the typechecker knows of an intrinsic agrees with the code
\* emitted for it.  Top is left to TopTyped: its effects leave the stack alone.
LEMMA EffectsAgree ==
  ASSUME NEW intr \in Intrinsic_Kind \ {"Call", "Top"}, NEW n
  PROVE  /\ Len(Intrinsic_Effects(intr)) \in 1 .. 3
         /\ n \in 1 .. Len(Intrinsic_Effects(intr)) =>
              /\ Agrees(intr, Intrinsic_Effects(intr)[n])
              /\ Computes(intr, Intrinsic_Effects(intr)[n])
<1> DEFINE effs == Intrinsic_Effects(intr)
           code == Emitted(intr)
<1> USE DEF Comparisons, Arithmetic, Syscalls
<1>1. CASE intr = "Add"
  <2>0. \A args : (\E i \in 1 .. 2 : args[i] = "Pointer") <=> args[1] = "Pointer"
        \/ args[2] = "Pointer"
    BY SMT
  <2>1. effs = <<Effect(<<"Pointer", "Int">>, <<"Pointer">>),
               Effect(<<"Int", "Pointer">>, <<"Pointer">>),
               Effect(<<"Int", "Int">>, <<"Int">>)>>
    BY <1>1 DEF Intrinsic_Effects
  <2>2. code = [reads |-> 2, leaves |-> <<0>>]
    BY <1>1 DEF Emitted
  <2>3. \A args : Computed(intr, args) = IF args[1] = "Pointer" \/ args[2] = "Pointer"
        THEN "Pointer" ELSE "Int"
    BY <1>1, <2>0 DEF Computed
  <2> HIDE DEF effs, code
  <2>4. CASE effs[n] = Effect(<<"Pointer", "Int">>, <<"Pointer">>)
    <3>1. Agrees(intr, effs[n])
      BY <2>2, <2>4, SMT DEF Agrees, effs, code, Effect, Value, Type, Variable
    <3>2. \A args : args[1] = "Pointer" /\ args[2] = "Int" => Computed(intr, args) = "Pointer"
      BY <2>3
    <3>3. Computes(intr, effs[n])
      BY <2>4, <3>2, BinaryComputes DEF Value, Type
    <3> QED BY <2>1, <3>1, <3>3, SMT DEF effs
  <2>5. CASE effs[n] = Effect(<<"Int", "Pointer">>, <<"Pointer">>)
    <3>1. Agrees(intr, effs[n])
      BY <2>2, <2>5, SMT DEF Agrees, effs, code, Effect, Value, Type, Variable
    <3>2. \A args : args[1] = "Int" /\ args[2] = "Pointer" => Computed(intr, args) = "Pointer"
      BY <2>3
    <3>3. Computes(intr, effs[n])
      BY <2>5, <3>2, BinaryComputes DEF Value, Type
    <3> QED BY <2>1, <3>1, <3>3, SMT DEF effs
  <2>6. CASE effs[n] = Effect(<<"Int", "Int">>, <<"Int">>)
    <3>1. Agrees(intr, effs[n])
      BY <2>2, <2>6, SMT DEF Agrees, effs, code, Effect, Value, Type, Variable
    <3>2. \A args : args[1] = "Int" /\ args[2] = "Int" => Computed(intr, args) = "Int"
      BY <2>3
    <3>3. Computes(intr, effs[n])
      BY <2>6, <3>2, BinaryComputes DEF Value, Type
    <3> QED BY <2>1, <3>1, <3>3, SMT DEF effs
  <2> QED BY <2>1, <2>4, <2>5, <2>6, SMT DEF effs
<1>2. CASE intr = "Subtract"
  <2>1. effs = <<Effect(<<"Pointer", "Pointer">>, <<"Int">>),
               Effect(<<"Pointer", "Int">>, <<"Pointer">>),
               Effect(<<"Int", "Int">>, <<"Int">>)>>
    BY <1>2 DEF Intrinsic_Effects
  <2>2. code = [reads |-> 2, leaves |-> <<0>>]
    BY <1>2 DEF Emitted
  <2>3. \A args : Computed(intr, args) = IF args[1] = "Pointer" /\ args[2] # "Pointer"
        THEN "Pointer" ELSE "Int"
    BY <1>2 DEF Computed
  <2> HIDE DEF effs, code
  <2>4. CASE effs[n] = Effect(<<"Pointer", "Pointer">>, <<"Int">>)
    <3>1. Agrees(intr, effs[n])
      BY <2>2, <2>4, SMT DEF Agrees, effs, code, Effect, Value, Type, Variable
    <3>2. \A args : args[1] = "Pointer" /\ args[2] = "Pointer" => Computed(intr, args) = "Int"
      BY <2>3
    <3>3. Computes(intr, effs[n])
      BY <2>4, <3>2, BinaryComputes DEF Value, Type
    <3> QED BY <2>1, <3>1, <3>3, SMT DEF effs
  <2>5. CASE effs[n] = Effect(<<"Pointer", "Int">>, <<"Pointer">>)
    <3>1. Agrees(intr, effs[n])
      BY <2>2, <2>5, SMT DEF Agrees, effs, code, Effect, Value, Type, Variable
    <3>2. \A args : args[1] = "Pointer" /\ args[2] = "Int" => Computed(intr, args) = "Pointer"
      BY <2>3
    <3>3. Computes(intr, effs[n])
      BY <2>5, <3>2, BinaryComputes DEF Value, Type
    <3> QED BY <2>1, <3>1, <3>3, SMT DEF effs
  <2>6. CASE effs[n] = Effect(<<"Int", "Int">>, <<"Int">>)
    <3>1. Agrees(intr, effs[n])
      BY <2>2, <2>6, SMT DEF Agrees, effs, code, Effect, Value, Type, Variable
    <3>2. \A args : args[1] = "Int" /\ args[2] = "Int" => Computed(intr, args) = "Int"
      BY <2>3
    <3>3. Computes(intr, effs[n])
      BY <2>6, <3>2, BinaryComputes DEF Value, Type
    <3> QED BY <2>1, <3>1, <3>3, SMT DEF effs
  <2> QED BY <2>1, <2>4, <2>5, <2>6, SMT DEF effs
<1>3. CASE intr \in Comparisons
  <2>1. effs = <<Effect(<<"Pointer", "Pointer">>, <<"Bool">>),
               Effect(<<"Int", "Int">>, <<"Bool">>),
               Effect(<<"Bool", "Bool">>, <<"Bool">>)>>
    BY <1>3 DEF Intrinsic_Effects
  <2>2. code = [reads |-> 2, leaves |-> <<0>>]
    BY <1>3 DEF Emitted
  <2>3. \A args : Computed(intr, args) = "Bool"
    BY <1>3 DEF Computed
  <2> HIDE DEF effs, code
  <2>4. CASE effs[n] = Effect(<<"Pointer", "Pointer">>, <<"Bool">>)
    <3>1. Agrees(intr, effs[n])
      BY <2>2, <2>4, SMT DEF Agrees, effs, code, Effect, Value, Type, Variable
    <3>2. \A args : args[1] = "Pointer" /\ args[2] = "Pointer" => Computed(intr, args) = "Bool"
      BY <2>3
    <3>3. Computes(intr, effs[n])
      BY <2>4, <3>2, BinaryComputes DEF Value, Type
    <3> QED BY <2>1, <3>1, <3>3, SMT DEF effs
  <2>5. CASE effs[n] = Effect(<<"Int", "Int">>, <<"Bool">>)
    <3>1. Agrees(intr, effs[n])
      BY <2>2, <2>5, SMT DEF Agrees, effs, code, Effect, Value, Type, Variable
    <3>2. \A args : args[1] = "Int" /\ args[2] = "Int" => Computed(intr, args) = "Bool"
      BY <2>3
    <3>3. Computes(intr, effs[n])
      BY <2>5, <3>2, BinaryComputes DEF Value, Type
    <3> QED BY <2>1, <3>1, <3>3, SMT DEF effs
  <2>6. CASE effs[n] = Effect(<<"Bool", "Bool">>, <<"Bool">>)
    <3>1. Agrees(intr, effs[n])
      BY <2>2, <2>6, SMT DEF Agrees, effs, code, Effect, Value, Type, Variable
    <3>2. \A args : args[1] = "Bool" /\ args[2] = "Bool" => Computed(intr, args) = "Bool"
      BY <2>3
    <3>3. Computes(intr, effs[n])
      BY <2>6, <3>2, BinaryComputes DEF Value, Type
    <3> QED BY <2>1, <3>1, <3>3, SMT DEF effs
  <2> QED BY <2>1, <2>4, <2>5, <2>6, SMT DEF effs
<1>4. CASE intr = "Drop"
  <2>1. effs = <<Effect(<<"Any">>, <<>>)>>
    BY <1>4 DEF Intrinsic_Effects
  <2>2. code = [reads |-> 1, leaves |-> <<>>]
    BY <1>4 DEF Emitted
  <2> HIDE DEF effs, code
  <2>4. CASE effs[n] = Effect(<<"Any">>, <<>>)
    <3>1. Agrees(intr, effs[n])
      BY <2>2, <2>4, SMT DEF Agrees, effs, code, Effect, Value, Type, Variable
    <3>2. Computes(intr, effs[n])
      BY <2>2, <2>4, SMT DEF Computes, effs, code, Effect, Value, Type, Variable, Same_Type
    <3> QED BY <2>1, <3>1, <3>2, SMT DEF effs
  <2> QED BY <2>1, <2>4, SMT DEF effs
<1>5. CASE intr = "Two_Drop"
  <2>1. effs = <<Effect(<<"Any", "Any">>, <<>>)>>
    BY <1>5 DEF Intrinsic_Effects
  <2>2. code = [reads |-> 2, leaves |-> <<>>]
    BY <1>5 DEF Emitted
  <2> HIDE DEF effs, code
  <2>4. CASE effs[n] = Effect(<<"Any", "Any">>, <<>>)
    <3>1. Agrees(intr, effs[n])
      BY <2>2, <2>4, SMT DEF Agrees, effs, code, Effect, Value, Type, Variable
    <3>2. Computes(intr, effs[n])
      BY <2>2, <2>4, SMT DEF Computes, effs, code, Effect, Value, Type, Variable, Same_Type
    <3> QED BY <2>1, <3>1, <3>2, SMT DEF effs
  <2> QED BY <2>1, <2>4, SMT DEF effs
<1>6. CASE intr = "Boolean_Negate"
  <2>1. effs = <<Effect(<<"Bool">>, <<"Bool">>)>>
    BY <1>6 DEF Intrinsic_Effects
  <2>2. code = [reads |-> 1, leaves |-> <<0>>]
    BY <1>6 DEF Emitted
  <2>3. \A args : Computed(intr, args) = "Bool"
    BY <1>6 DEF Computed
  <2> HIDE DEF effs, code
  <2>4. CASE effs[n] = Effect(<<"Bool">>, <<"Bool">>)
    <3>1. Agrees(intr, effs[n])
      BY <2>2, <2>4, SMT DEF Agrees, effs, code, Effect, Value, Type, Variable
    <3>2. Computes(intr, effs[n])
      BY <2>2, <2>3, <2>4, SMT DEF Computes, effs, code, Effect, Value, Type, Variable, Same_Type
    <3> QED BY <2>1, <3>1, <3>2, SMT DEF effs
  <2> QED BY <2>1, <2>4, SMT DEF effs
<1>7. CASE intr \in {"Boolean_And", "Boolean_Or"}
  <2>1. effs = <<Effect(<<"Bool", "Bool">>, <<"Bool">>)>>
    BY <1>7 DEF Intrinsic_Effects
  <2>2. code = [reads |-> 2, leaves |-> <<0>>]
    BY <1>7 DEF Emitted
  <2>3. \A args : Computed(intr, args) = "Bool"
    BY <1>7 DEF Computed
  <2> HIDE DEF effs, code
  <2>4. CASE effs[n] = Effect(<<"Bool", "Bool">>, <<"Bool">>)
    <3>1. Agrees(intr, effs[n])
      BY <2>2, <2>4, SMT DEF Agrees, effs, code, Effect, Value, Type, Variable
    <3>2. Computes(intr, effs[n])
      BY <2>2, <2>3, <2>4, SMT DEF Computes, effs, code, Effect, Value, Type, Variable, Same_Type
    <3> QED BY <2>1, <3>1, <3>2, SMT DEF effs
  <2> QED BY <2>1, <2>4, SMT DEF effs
<1>8. CASE intr \in Arithmetic
  <2>1. effs = <<Effect(<<"Int", "Int">>, <<"Int">>)>>
    BY <1>8 DEF Intrinsic_Effects
  <2>2. code = [reads |-> 2, leaves |-> <<0>>]
    BY <1>8 DEF Emitted
  <2>3. \A args : Computed(intr, args) = "Int"
    BY <1>8 DEF Computed
  <2> HIDE DEF effs, code
  <2>4. CASE effs[n] = Effect(<<"Int", "Int">>, <<"Int">>)
    <3>1. Agrees(intr, effs[n])
      BY <2>2, <2>4, SMT DEF Agrees, effs, code, Effect, Value, Type, Variable
    <3>2. Computes(intr, effs[n])
      BY <2>2, <2>3, <2>4, SMT DEF Computes, effs, code, Effect, Value, Type, Variable, Same_Type
    <3> QED BY <2>1, <3>1, <3>2, SMT DEF effs
  <2> QED BY <2>1, <2>4, SMT DEF effs
<1>9. CASE intr = "Div_Mod"
  <2>1. effs = <<Effect(<<"Int", "Int">>, <<"Int", "Int">>)>>
    BY <1>9 DEF Intrinsic_Effects
  <2>2. code = [reads |-> 2, leaves |-> <<0, 0>>]
    BY <1>9 DEF Emitted
  <2>3. \A args : Computed(intr, args) = "Int"
    BY <1>9 DEF Computed
  <2> HIDE DEF effs, code
  <2>4. CASE effs[n] = Effect(<<"Int", "Int">>, <<"Int", "Int">>)
    <3>1. Agrees(intr, effs[n])
      BY <2>2, <2>4, SMT DEF Agrees, effs, code, Effect, Value, Type, Variable
    <3>2. Computes(intr, effs[n])
      BY <2>2, <2>3, <2>4, SMT DEF Computes, effs, code, Effect, Value, Type, Variable, Same_Type
    <3> QED BY <2>1, <3>1, <3>2, SMT DEF effs
  <2> QED BY <2>1, <2>4, SMT DEF effs
<1>10. CASE intr = "Dup"
  <2>1. effs = <<Effect(<<"$1">>, <<"$1", "$1">>)>>
    BY <1>10 DEF Intrinsic_Effects
  <2>2. code = [reads |-> 1, leaves |-> <<1, 1>>]
    BY <1>10 DEF Emitted
  <2> HIDE DEF effs, code
  <2>4. CASE effs[n] = Effect(<<"$1">>, <<"$1", "$1">>)
    <3>1. Agrees(intr, effs[n])
      BY <2>2, <2>4, SMT DEF Agrees, effs, code, Effect, Value, Type, Variable
    <3>2. Computes(intr, effs[n])
      BY <2>2, <2>4, SMT DEF Computes, effs, code, Effect, Value, Type, Variable, Same_Type
    <3> QED BY <2>1, <3>1, <3>2, SMT DEF effs
  <2> QED BY <2>1, <2>4, SMT DEF effs
<1>11. CASE intr = "Two_Dup"
  <2>1. effs = <<Effect(<<"$1", "$2">>, <<"$1", "$2", "$1", "$2">>)>>
    BY <1>11 DEF Intrinsic_Effects
  <2>2. code = [reads |-> 2, leaves |-> <<1, 2, 1, 2>>]
    BY <1>11 DEF Emitted
  <2> HIDE DEF effs, code
  <2>4. CASE effs[n] = Effect(<<"$1", "$2">>, <<"$1", "$2", "$1", "$2">>)
    <3>1. Agrees(intr, effs[n])
      BY <2>2, <2>4, SMT DEF Agrees, effs, code, Effect, Value, Type, Variable
    <3>2. Computes(intr, effs[n])
      BY <2>2, <2>4, SMT DEF Computes, effs, code, Effect, Value, Type, Variable, Same_Type
    <3> QED BY <2>1, <3>1, <3>2, SMT DEF effs
  <2> QED BY <2>1, <2>4, SMT DEF effs
<1>12. CASE intr = "Over"
  <2>1. effs = <<Effect(<<"$1", "$2">>, <<"$1", "$2", "$1">>)>>
    BY <1>12 DEF Intrinsic_Effects
  <2>2. code = [reads |-> 2, leaves |-> <<1, 2, 1>>]
    BY <1>12 DEF Emitted
  <2> HIDE DEF effs, code
  <2>4. CASE effs[n] = Effect(<<"$1", "$2">>, <<"$1", "$2", "$1">>)
    <3>1. Agrees(intr, effs[n])
      BY <2>2, <2>4, SMT DEF Agrees, effs, code, Effect, Value, Type, Variable
    <3>2. Computes(intr, effs[n])
      BY <2>2, <2>4, SMT DEF Computes, effs, code, Effect, Value, Type, Variable, Same_Type
    <3> QED BY <2>1, <3>1, <3>2, SMT DEF effs
  <2> QED BY <2>1, <2>4, SMT DEF effs
<1>13. CASE intr = "Two_Over"
  <2>1. effs = <<Effect(<<"$1", "$2", "$3", "$4">>, <<"$1", "$2", "$3", "$4", "$1", "$2">>)>>
    BY <1>13 DEF Intrinsic_Effects
  <2>2. code = [reads |-> 4, leaves |-> <<1, 2, 3, 4, 1, 2>>]
    BY <1>13 DEF Emitted
  <2> HIDE DEF effs, code
  <2>4. CASE effs[n] = Effect(<<"$1", "$2", "$3", "$4">>, <<"$1", "$2", "$3", "$4", "$1", "$2">>)
    <3>1. Agrees(intr, effs[n])
      BY <2>2, <2>4, SMT DEF Agrees, effs, code, Effect, Value, Type, Variable
    <3>2. Computes(intr, effs[n])
      BY <2>2, <2>4, SMT DEF Computes, effs, code, Effect, Value, Type, Variable, Same_Type
    <3> QED BY <2>1, <3>1, <3>2, SMT DEF effs
  <2> QED BY <2>1, <2>4, SMT DEF effs
<1>14. CASE intr = "Swap"
  <2>1. effs = <<Effect(<<"$1", "$2">>, <<"$2", "$1">>)>>
    BY <1>14 DEF Intrinsic_Effects
  <2>2. code = [reads |-> 2, leaves |-> <<2, 1>>]
    BY <1>14 DEF Emitted
  <2> HIDE DEF effs, code
  <2>4. CASE effs[n] = Effect(<<"$1", "$2">>, <<"$2", "$1">>)
    <3>1. Agrees(intr, effs[n])
      BY <2>2, <2>4, SMT DEF Agrees, effs, code, Effect, Value, Type, Variable
    <3>2. Computes(intr, effs[n])
      BY <2>2, <2>4, SMT DEF Computes, effs, code, Effect, Value, Type, Variable, Same_Type
    <3> QED BY <2>1, <3>1, <3>2, SMT DEF effs
  <2> QED BY <2>1, <2>4, SMT DEF effs
<1>15. CASE intr = "Two_Swap"
  <2>1. effs = <<Effect(<<"$1", "$2", "$3", "$4">>, <<"$3", "$4", "$1", "$2">>)>>
    BY <1>15 DEF Intrinsic_Effects
  <2>2. code = [reads |-> 4, leaves |-> <<3, 4, 1, 2>>]
    BY <1>15 DEF Emitted
  <2> HIDE DEF effs, code
  <2>4. CASE effs[n] = Effect(<<"$1", "$2", "$3", "$4">>, <<"$3", "$4", "$1", "$2">>)
    <3>1. Agrees(intr, effs[n])
      BY <2>2, <2>4, SMT DEF Agrees, effs, code, Effect, Value, Type, Variable
    <3>2. Computes(intr, effs[n])
      BY <2>2, <2>4, SMT DEF Computes, effs, code, Effect, Value, Type, Variable, Same_Type
    <3> QED BY <2>1, <3>1, <3>2, SMT DEF effs
  <2> QED BY <2>1, <2>4, SMT DEF effs
<1>16. CASE intr = "Tuck"
  <2>1. effs = <<Effect(<<"$1", "$2">>, <<"$2", "$1", "$2">>)>>
    BY <1>16 DEF Intrinsic_Effects
  <2>2. code = [reads |-> 2, leaves |-> <<2, 1, 2>>]
    BY <1>16 DEF Emitted
  <2> HIDE DEF effs, code
  <2>4. CASE effs[n] = Effect(<<"$1", "$2">>, <<"$2", "$1", "$2">>)
    <3>1. Agrees(intr, effs[n])
      BY <2>2, <2>4, SMT DEF Agrees, effs, code, Effect, Value, Type, Variable
    <3>2. Computes(intr, effs[n])
      BY <2>2, <2>4, SMT DEF Computes, effs, code, Effect, Value, Type, Variable, Same_Type
    <3> QED BY <2>1, <3>1, <3>2, SMT DEF effs
  <2> QED BY <2>1, <2>4, SMT DEF effs
<1>17. CASE intr = "Rot"
  <2>1. effs = <<Effect(<<"$1", "$2", "$3">>, <<"$2", "$3", "$1">>)>>
    BY <1>17 DEF Intrinsic_Effects
  <2>2. code = [reads |-> 3, leaves |-> <<2, 3, 1>>]
    BY <1>17 DEF Emitted
  <2> HIDE DEF effs, code
  <2>4. CASE effs[n] = Effect(<<"$1", "$2", "$3">>, <<"$2", "$3", "$1">>)
    <3>1. Agrees(intr, effs[n])
      BY <2>2, <2>4, SMT DEF Agrees, effs, code, Effect, Value, Type, Variable
    <3>2. Computes(intr, effs[n])
      BY <2>2, <2>4, SMT DEF Computes, effs, code, Effect, Value, Type, Variable, Same_Type
    <3> QED BY <2>1, <3>1, <3>2, SMT DEF effs
  <2> QED BY <2>1, <2>4, SMT DEF effs
<1>18. CASE intr = "Argv"
  <2>1. effs = <<Effect(<<>>, <<"Pointer">>)>>
    BY <1>18 DEF Intrinsic_Effects
  <2>2. code = [reads |-> 0, leaves |-> <<0>>]
    BY <1>18 DEF Emitted
  <2>3. \A args : Computed(intr, args) = "Pointer"
    BY <1>18 DEF Computed
  <2> HIDE DEF effs, code
  <2>4. CASE effs[n] = Effect(<<>>, <<"Pointer">>)
    <3>1. Agrees(intr, effs[n])
      BY <2>2, <2>4, SMT DEF Agrees, effs, code, Effect, Value, Type, Variable
    <3>2. Computes(intr, effs[n])
      BY <2>2, <2>3, <2>4, SMT DEF Computes, effs, code, Effect, Value, Type, Variable, Same_Type
    <3> QED BY <2>1, <3>1, <3>2, SMT DEF effs
  <2> QED BY <2>1, <2>4, SMT DEF effs
<1>19. CASE intr \in {"Argc", "Random32", "Random64"}
  <2>1. effs = <<Effect(<<>>, <<"Int">>)>>
    BY <1>19 DEF Intrinsic_Effects
  <2>2. code = [reads |-> 0, leaves |-> <<0>>]
    BY <1>19 DEF Emitted
  <2>3. \A args : Computed(intr, args) = "Int"
    BY <1>19 DEF Computed
  <2> HIDE DEF effs, code
  <2>4. CASE effs[n] = Effect(<<>>, <<"Int">>)
    <3>1. Agrees(intr, effs[n])
      BY <2>2, <2>4, SMT DEF Agrees, effs, code, Effect, Value, Type, Variable
    <3>2. Computes(intr, effs[n])
      BY <2>2, <2>3, <2>4, SMT DEF Computes, effs, code, Effect, Value, Type, Variable, Same_Type
    <3> QED BY <2>1, <3>1, <3>2, SMT DEF effs
  <2> QED BY <2>1, <2>4, SMT DEF effs
<1>20. CASE intr = "Load"
  <2>1. effs = <<Effect(<<"Pointer">>, <<"Int">>)>>
    BY <1>20 DEF Intrinsic_Effects
  <2>2. code = [reads |-> 1, leaves |-> <<0>>]
    BY <1>20 DEF Emitted
  <2>3. \A args : Computed(intr, args) = "Int"
    BY <1>20 DEF Computed
  <2> HIDE DEF effs, code
  <2>4. CASE effs[n] = Effect(<<"Pointer">>, <<"Int">>)
    <3>1. Agrees(intr, effs[n])
      BY <2>2, <2>4, SMT DEF Agrees, effs, code, Effect, Value, Type, Variable
    <3>2. Computes(intr, effs[n])
      BY <2>2, <2>3, <2>4, SMT DEF Computes, effs, code, Effect, Value, Type, Variable, Same_Type
    <3> QED BY <2>1, <3>1, <3>2, SMT DEF effs
  <2> QED BY <2>1, <2>4, SMT DEF effs
<1>21. CASE intr = "Store"
  <2>1. effs = <<Effect(<<"Pointer", "Any">>, <<>>)>>
    BY <1>21 DEF Intrinsic_Effects
  <2>2. code = [reads |-> 2, leaves |-> <<>>]
    BY <1>21 DEF Emitted
  <2> HIDE DEF effs, code
  <2>4. CASE effs[n] = Effect(<<"Pointer", "Any">>, <<>>)
    <3>1. Agrees(intr, effs[n])
      BY <2>2, <2>4, SMT DEF Agrees, effs, code, Effect, Value, Type, Variable
    <3>2. Computes(intr, effs[n])
      BY <2>2, <2>4, SMT DEF Computes, effs, code, Effect, Value, Type, Variable, Same_Type
    <3> QED BY <2>1, <3>1, <3>2, SMT DEF effs
  <2> QED BY <2>1, <2>4, SMT DEF effs
<1>22. CASE intr \in Syscalls
  <2> PICK j \in 0 .. 6 : Syscall_Arguments(intr) = j
    <3>1. intr = "Syscall0" => Syscall_Arguments(intr) = 0
      BY SMT DEF Syscall_Arguments
    <3>2. intr = "Syscall1" => Syscall_Arguments(intr) = 1
      BY SMT DEF Syscall_Arguments
    <3>3. intr = "Syscall2" => Syscall_Arguments(intr) = 2
      BY SMT DEF Syscall_Arguments
    <3>4. intr = "Syscall3" => Syscall_Arguments(intr) = 3
      BY SMT DEF Syscall_Arguments
    <3>5. intr = "Syscall4" => Syscall_Arguments(intr) = 4
      BY SMT DEF Syscall_Arguments
    <3>6. intr = "Syscall5" => Syscall_Arguments(intr) = 5
      BY SMT DEF Syscall_Arguments
    <3>7. intr = "Syscall6" => Syscall_Arguments(intr) = 6
      BY SMT DEF Syscall_Arguments
    <3> QED BY <1>22, <3>1, <3>2, <3>3, <3>4, <3>5, <3>6, <3>7, SMT
  <2> DEFINE vs == <<"$1", "$2", "$3", "$4", "$5", "$6">>
             in == SubSeq(vs, 1, j) \o <<"Int">>
  <2>1. effs = <<Effect(in, <<"Int">>)>>
    BY <1>22 DEF Intrinsic_Effects
  <2>2. code = [reads |-> j + 1, leaves |-> <<0>>]
    BY <1>22 DEF Emitted
  <2>3. \A args : Computed(intr, args) = "Int"
    BY <1>22 DEF Computed
  <2>4. in \in Seq(Type \cup Variable) /\ Len(in) = j + 1
    <3>1. \A i \in 1 .. j : vs[i] \in Type \cup Variable
      BY SMT DEF Variable
    <3>2. SubSeq(vs, 1, j) \in Seq(Type \cup Variable) /\ Len(SubSeq(vs, 1, j)) = j
      BY <3>1, SeqSub, SMT
    <3>3. <<"Int">> \in Seq(Type \cup Variable) /\ Len(<<"Int">>) = 1
      BY SMT DEF Type
    <3> QED BY <3>2, <3>3, SeqConcat, SMT
  <2> HIDE DEF effs, code, in
  <2>5. CASE effs[n] = Effect(in, <<"Int">>)
    <3>1. Agrees(intr, effs[n])
      BY <2>2, <2>4, <2>5, SMT DEF Agrees, effs, code, Effect, Value, Type, Variable
    <3>2. Computes(intr, effs[n])
      BY <2>2, <2>3, <2>5, SMT DEF Computes, effs, code, Effect, Value, Type, Variable, Same_Type
    <3> QED BY <2>1, <3>1, <3>2, SMT DEF effs
  <2> QED BY <2>1, <2>5, SMT DEF effs
<1> QED BY <1>1, <1>2, <1>3, <1>4, <1>5, <1>6, <1>7, <1>8, <1>9, <1>10, <1>11, <1>12, <1>13, <1>14,
       <1>15, <1>16, <1>17, <1>18, <1>19, <1>20, <1>21, <1>22 DEF Intrinsic_Kind

\* The effect that decides is one that matches.
LEMMA FirstMatch ==
  ASSUME NEW s, NEW effs, Has_Match(s, effs), Len(effs) \in 1 .. 3
  PROVE  \E n \in 1 .. Len(effs) :
           Matches(s, effs[n]) /\ Apply_First(s, effs) = Apply(s, effs[n])
<1> DEFINE Matching == {n \in 1 .. Len(effs) : Matches(s, effs[n])}
<1>1. Matching \subseteq 1 .. 3 /\ Matching # {}
  BY SMT DEF Has_Match
<1> PICK n \in Matching : \A m \in Matching : n <= m
  <2> HIDE DEF Matching
  <2>1. 1 .. 3 = {1, 2, 3}
    BY SMT
  <2>2. CASE 1 \in Matching
    BY <1>1, <2>1, <2>2, SMT
  <2>3. CASE 1 \notin Matching /\ 2 \in Matching
    BY <1>1, <2>1, <2>3, SMT
  <2>4. CASE 1 \notin Matching /\ 2 \notin Matching
    <3>1. Matching = {3}
      BY <1>1, <2>1, <2>4
    <3>2. 3 <= 3
      BY SMT
    <3> QED BY <3>1, <3>2
  <2> QED BY <2>2, <2>3, <2>4
<1>3. {k \in Matching : \A m \in Matching : k <= m} = {n}
  <2> HIDE DEF Matching
  <2>1. ASSUME NEW k \in Matching, \A m \in Matching : k <= m PROVE k = n
    BY <1>1, <2>1, SMT
  <2> QED BY <2>1
<1>4. First_Match(s, effs) = {effs[n]}
  <2>1. First_Match(s, effs) = {effs[k] : k \in {n}}
    BY <1>3 DEF First_Match
  <2> QED BY <2>1
<1>5. {Apply(s, e) : e \in First_Match(s, effs)} = {Apply(s, effs[n])}
  BY <1>4
<1>6. Apply_First(s, effs) = Apply(s, effs[n])
  <2>1. Apply_First(s, effs) = CHOOSE t \in {Apply(s, effs[n])} : TRUE
    BY <1>5 DEF Apply_First
  <2> QED BY <2>1
<1> QED BY <1>6

\* A variable that occurs once stands for the slot it is matched with.
Only_At(e, v, k) ==
  k \in 1 .. Len(e.input) /\ \A m \in 1 .. Len(e.input) : e.input[m] = v <=> m = k

\* The outputs of an effect, as Apply appends them.
Given(s, e) ==
  [n \in 1 .. Len(e.output) |->
     IF e.output[n] \in Variable THEN Bound(s, e, e.output[n]) ELSE e.output[n]]

\* What is emitted for an intrinsic says which slots it reads and leaves.
Has_Code(intr) ==
  /\ Emitted(intr).reads \in Nat
  /\ Emitted(intr).leaves \in Seq(0 .. Emitted(intr).reads)

\* What the code of an intrinsic leaves in place of what it reads.
Left(intr, s) ==
  LET code == Emitted(intr)
      args == Upper(s, code.reads)
  IN [n \in 1 .. Len(code.leaves) |->
        IF code.leaves[n] = 0 THEN Computed(intr, args) ELSE args[code.leaves[n]]]

\* What the code of an intrinsic does to a stack with the slots it reads.
LEMMA RunIs ==
  ASSUME NEW intr, Has_Code(intr), NEW T, Value \subseteq T, NEW s \in Seq(T),
         Emitted(intr).reads <= Len(s)
  PROVE  /\ Left(intr, s) \in Seq(T) /\ Len(Left(intr, s)) = Len(Emitted(intr).leaves)
         /\ Lower(s, Emitted(intr).reads) \in Seq(T)
         /\ Run_Intrinsic(intr, s) = Lower(s, Emitted(intr).reads) \o Left(intr, s)
         /\ Run_Intrinsic(intr, s) \in Seq(T)
         /\ Len(Run_Intrinsic(intr, s)) = Len(s) - Emitted(intr).reads + Len(Emitted(intr).leaves)
<1>1. PICK r \in Nat, lv \in Seq(0 .. Emitted(intr).reads) : r = Emitted(intr).reads
                                                             /\ lv = Emitted(intr).leaves
  BY DEF Has_Code
<1>2. PICK args : args = Upper(s, r)
  OBVIOUS
<1>3. Computed(intr, args) \in T
  <2>1. Computed(intr, args) \in {"Bool", "Pointer", "Int"}
    BY DEF Computed
  <2> QED BY <2>1 DEF Value, Type
<1>4. args \in Seq(T) /\ Len(args) = r /\ Lower(s, r) \in Seq(T) /\ Len(Lower(s, r)) = Len(s) - r
  <2>1. r <= Len(s)
    BY <1>1
  <2> QED BY <1>2, <2>1, Split, ZenonT(30)
<1>5. Left(intr, s) = [n \in 1 .. Len(lv) |-> IF lv[n] = 0 THEN Computed(intr, args)
      ELSE args[lv[n]]]
  BY <1>1, <1>2 DEF Left
<1>6. \A n \in 1 .. Len(lv) : (IF lv[n] = 0 THEN Computed(intr, args) ELSE args[lv[n]]) \in T
  BY <1>1, <1>3, <1>4, SMTT(30)
<1>7. Len(lv) \in Nat
  BY SMT
<1>8. Left(intr, s) \in Seq(T) /\ Len(Left(intr, s)) = Len(lv)
  BY <1>5, <1>6, <1>7, SMT
<1>9. Run_Intrinsic(intr, s) = Lower(s, r) \o Left(intr, s)
  BY <1>1 DEF Run_Intrinsic, Left, Upper, Lower
<1>10. Lower(s, r) \o Left(intr, s) \in Seq(T)
       /\ Len(Lower(s, r) \o Left(intr, s)) = Len(Lower(s, r)) + Len(Left(intr, s))
  BY <1>4, <1>8, SeqConcat, SMTT(30)
<1> QED BY <1>1, <1>4, <1>8, <1>9, <1>10

\* The effect the typechecker applies for an intrinsic is what its code does:
\* in the number of slots on any stack, and slot by slot on a stack of values.
LEMMA IntrinsicTyped ==
  \A intr \in Intrinsic_Kind \ {"Call"} : \A T : \A s \in Seq(T) :
    /\ Value \subseteq T
    /\ Has_Match(s, Intrinsic_Effects(intr))
    => LET t == Apply_First(s, Intrinsic_Effects(intr))
       IN /\ Has_Code(intr) /\ Emitted(intr).reads <= Len(s)
          /\ t \in Seq(T)
          /\ Len(t) = Len(s) - Emitted(intr).reads + Len(Emitted(intr).leaves)
          /\ s \in Seq(Value) => t = Run_Intrinsic(intr, s)
\* Bound finds that slot.
<1>BoundIs.
    ASSUME NEW t, NEW e, NEW v, NEW k, Only_At(e, v, k)
    PROVE  Bound(t, e, v) = Upper(t, Len(e.input))[k]
  <2> USE <1>BoundIs
  <2>1. {n \in 1 .. Len(e.input) : e.input[n] = v} = {k}
    BY DEF Only_At
  <2>2. k <= k
    BY SMT DEF Only_At
  <2>3. (CHOOSE n \in {k} : \A m \in {k} : m <= n) = k
    BY <2>2
  <2>4. Bound(t, e, v) = Arguments(t, e)[k]
    BY <2>1, <2>3 DEF Bound
  <2>5. Arguments(t, e) = Upper(t, Len(e.input))
    BY DEF Arguments, Upper
  <2> QED BY <2>4, <2>5

\* Applying an effect that agrees with the code replaces the slots it takes by
\* as many as the code leaves, each one a copy where the code copies.
<1>ApplyIs.
    ASSUME NEW intr, NEW e, Agrees(intr, e), NEW T, Value \subseteq T, NEW s \in Seq(T),
           Len(e.input) <= Len(s)
    PROVE  /\ Has_Code(intr) /\ Emitted(intr).reads = Len(e.input)
           /\ Given(s, e) \in Seq(T) /\ Len(Given(s, e)) = Len(Emitted(intr).leaves)
           /\ Lower(s, Len(e.input)) \in Seq(T)
           /\ Apply(s, e) = Lower(s, Len(e.input)) \o Given(s, e)
           /\ \A n \in 1 .. Len(e.output) :
                Given(s, e)[n] = IF Emitted(intr).leaves[n] = 0 THEN e.output[n]
                                 ELSE Upper(s, Len(e.input))[Emitted(intr).leaves[n]]
  <2> USE <1>ApplyIs
  <2> PICK r, o, lv : r = Len(e.input) /\ o = Len(e.output) /\ lv = Emitted(intr).leaves
    OBVIOUS
  <2> r \in Nat /\ o \in Nat /\ lv \in Seq(0 .. r) /\ Len(lv) = o
      /\ Emitted(intr).reads = r
    <3>1. e.input \in Seq(Type \cup Variable) /\ e.output \in Seq(Type \cup Variable)
      BY DEF Agrees
    <3> QED BY <3>1, SMT DEF Agrees
  <2>3. Apply(s, e) = Lower(s, r) \o Given(s, e)
    BY DEF Apply, Lower, Given
  <2>4. /\ Upper(s, r) \in Seq(T) /\ Len(Upper(s, r)) = r
        /\ Lower(s, r) \in Seq(T)
    BY Split, SMT
  <2>5. ASSUME NEW n \in 1 .. o
        PROVE  /\ Given(s, e)[n] \in T
               /\ Given(s, e)[n] = IF lv[n] = 0 THEN e.output[n] ELSE Upper(s, r)[lv[n]]
    <3>1. Given(s, e)[n] = IF e.output[n] \in Variable THEN Bound(s, e, e.output[n])
          ELSE e.output[n]
      BY DEF Given
    <3>2. CASE lv[n] = 0
      <4>1. e.output[n] \in Value
        BY <3>2 DEF Agrees
      <4>2. e.output[n] \notin Variable
        BY <4>1 DEF Value, Type, Variable
      <4> QED BY <3>1, <3>2, <4>1, <4>2
    <3>3. CASE lv[n] # 0
      <4>1. lv[n] \in 1 .. r
        BY <3>3, SMT
      <4>2. /\ e.output[n] \in Variable
            /\ \A m \in 1 .. Len(e.input) : e.input[m] = e.output[n] <=> m = lv[n]
        BY <3>3 DEF Agrees
      <4>3. Bound(s, e, e.output[n]) = Upper(s, r)[lv[n]]
        <5> PICK k, v : k = lv[n] /\ v = e.output[n]
          OBVIOUS
        <5>2. Only_At(e, v, k)
          BY <4>1, <4>2 DEF Only_At
        <5>3. Bound(s, e, v) = Upper(s, Len(e.input))[k]
          BY <5>2, <1>BoundIs, SMT
        <5> QED BY <5>3
      <4>4. Upper(s, r)[lv[n]] \in T
        BY <2>4, <4>1, SeqElement
      <4> QED BY <3>1, <3>3, <4>2, <4>3, <4>4
    <3> QED BY <3>2, <3>3
  <2>6. Given(s, e) \in Seq(T) /\ Len(Given(s, e)) = o
    <3>1. Given(s, e) = [n \in 1 .. o |-> Given(s, e)[n]]
      BY DEF Given
    <3> HIDE DEF Given
    <3> DEFINE g == Given(s, e)
    <3> HIDE DEF g
    <3>2. [n \in 1 .. o |-> g[n]] \in Seq(T) /\ Len([n \in 1 .. o |-> g[n]]) = o
      BY <2>5, SMT DEF g
    <3> QED BY <3>1, <3>2 DEF g
  <2> QED BY <2>3, <2>4, <2>5, <2>6 DEF Has_Code

\* An effect that agrees with the code, applied where it matches.
<1>ApplyRuns.
    ASSUME NEW intr, NEW e, Agrees(intr, e), Computes(intr, e), NEW T, Value \subseteq T,
           NEW s \in Seq(T), Matches(s, e)
    PROVE  /\ Has_Code(intr) /\ Emitted(intr).reads <= Len(s)
           /\ Apply(s, e) \in Seq(T)
           /\ Len(Apply(s, e)) = Len(s) - Emitted(intr).reads + Len(Emitted(intr).leaves)
           /\ s \in Seq(Value) => Apply(s, e) = Run_Intrinsic(intr, s)
  <2> USE <1>ApplyRuns
  <2>1. PICK r, lv, o : r = Emitted(intr).reads /\ lv = Emitted(intr).leaves /\ o = Len(e.output)
    OBVIOUS
  <2>2. e.input \in Seq(Type \cup Variable) /\ e.output \in Seq(Type \cup Variable)
        /\ r = Len(e.input) /\ Len(lv) = o
    BY <2>1 DEF Agrees
  <2>3. r \in Nat /\ o \in Nat /\ Len(s) \in Nat
    BY <2>1, <2>2, SMT
  <2>4. r <= Len(s)
    <3>1. Len(s) >= r
      BY <2>2 DEF Matches
    <3> QED BY <2>3, <3>1
  <2>5. /\ Has_Code(intr)
        /\ Given(s, e) \in Seq(T) /\ Len(Given(s, e)) = o
        /\ Lower(s, r) \in Seq(T)
        /\ Apply(s, e) = Lower(s, r) \o Given(s, e)
        /\ \A n \in 1 .. o : Given(s, e)[n] = IF lv[n] = 0 THEN e.output[n] ELSE Upper(s, r)[lv[n]]
    <3>1. Len(e.input) <= Len(s)
      BY <2>2, <2>4
    <3>2. /\ Has_Code(intr)
          /\ Given(s, e) \in Seq(T) /\ Len(Given(s, e)) = Len(Emitted(intr).leaves)
          /\ Lower(s, Len(e.input)) \in Seq(T)
          /\ Apply(s, e) = Lower(s, Len(e.input)) \o Given(s, e)
          /\ \A n \in 1 .. Len(e.output) :
               Given(s, e)[n] = IF Emitted(intr).leaves[n] = 0 THEN e.output[n]
                                ELSE Upper(s, Len(e.input))[Emitted(intr).leaves[n]]
      BY <3>1, <1>ApplyIs, SMT
    <3> QED BY <2>1, <2>2, <3>2
  <2>6. Apply(s, e) \in Seq(T) /\ Len(Apply(s, e)) = Len(s) - r + o
    <3>1. PICK a, b : a = Lower(s, r) /\ b = Given(s, e)
      OBVIOUS
    <3>2. a \in Seq(T) /\ b \in Seq(T) /\ Len(b) = o
      BY <2>5, <3>1
    <3>3. Len(a) = Len(s) - r
      BY <2>3, <2>4, <3>1, Split
    <3>4. a \o b \in Seq(T) /\ Len(a \o b) = Len(a) + Len(b)
      BY <3>2, SeqConcat
    <3> QED BY <2>3, <2>5, <3>1, <3>2, <3>3, <3>4
  <2>7. ASSUME s \in Seq(Value) PROVE Apply(s, e) = Run_Intrinsic(intr, s)
    <3>1. PICK args : args = Upper(s, r)
      OBVIOUS
    <3>2. args \in Seq(Value) /\ Len(args) = Len(e.input)
      BY <2>2, <2>3, <2>4, <2>7, <3>1, Split, SMT
    <3>3. Arguments(s, e) = args
      BY <2>2, <3>1 DEF Arguments, Upper
    <3>4. \A m \in 1 .. Len(e.input) : e.input[m] \in Variable \/ Same_Type(args[m], e.input[m])
      BY <3>3 DEF Matches
    <3>5. \A n \in 1 .. o : lv[n] = 0 => Computed(intr, args) = e.output[n]
      BY <2>1, <3>2, <3>4 DEF Computes
    <3>6. /\ Left(intr, s) \in Seq(T) /\ Len(Left(intr, s)) = o
          /\ Run_Intrinsic(intr, s) = Lower(s, r) \o Left(intr, s)
      <4>1. Emitted(intr).reads <= Len(s)
        BY <2>1, <2>4
      <4>2. /\ Left(intr, s) \in Seq(T) /\ Len(Left(intr, s)) = Len(Emitted(intr).leaves)
            /\ Run_Intrinsic(intr, s) = Lower(s, Emitted(intr).reads) \o Left(intr, s)
        BY <2>5, <4>1, RunIs
      <4> QED BY <2>1, <2>2, <4>2
    <3>7. Left(intr, s) = [n \in 1 .. Len(lv) |-> IF lv[n] = 0 THEN Computed(intr, args)
          ELSE args[lv[n]]]
      BY <2>1, <3>1 DEF Left
    <3>8. \A n \in 1 .. o : Left(intr, s)[n] = Given(s, e)[n]
      BY <2>2, <2>5, <3>1, <3>5, <3>7
    <3>9. Left(intr, s) = Given(s, e)
      BY <2>5, <3>6, <3>8, SeqSame
    <3> QED BY <2>5, <3>6, <3>9
  <2> QED BY <2>1, <2>2, <2>4, <2>5, <2>6, <2>7

\* Top, whose effects are one for each type that may be on top of the stack,
\* pushes the type that its code pushes.
<1>TopTyped.
    ASSUME NEW T, Value \subseteq T, NEW s \in Seq(T), Has_Match(s, Intrinsic_Effects("Top"))
    PROVE  /\ Has_Code("Top") /\ Emitted("Top").reads = 0 /\ Len(Emitted("Top").leaves) = 1
           /\ Apply_First(s, Intrinsic_Effects("Top")) \in Seq(T)
           /\ Len(Apply_First(s, Intrinsic_Effects("Top"))) = Len(s) + 1
           /\ Apply_First(s, Intrinsic_Effects("Top")) = Run_Intrinsic("Top", s)
  <2> USE <1>TopTyped
  <2> DEFINE e == Effect(<<"$1">>, <<"$1", "Pointer">>)
             effs == Intrinsic_Effects("Top")
  <2>1. effs = <<e>>
    BY DEF Intrinsic_Effects, Comparisons, Arithmetic, Syscalls
  <2>2. Emitted("Top") = [reads |-> 0, leaves |-> <<0>>]
    BY DEF Emitted, Comparisons, Arithmetic, Syscalls
  <2>3. \A args : Computed("Top", args) = "Pointer"
    BY DEF Computed, Comparisons
  <2>4. Has_Code("Top") /\ Emitted("Top").reads = 0 /\ Len(Emitted("Top").leaves) = 1
        /\ Emitted("Top").leaves[1] = 0
    <3>1. <<0>> \in Seq(0 .. 0) /\ Len(<<0>>) = 1 /\ <<0>>[1] = 0 /\ 0 \in Nat
      BY SMT
    <3>2. Emitted("Top").reads = 0 /\ Emitted("Top").leaves = <<0>>
      BY <2>2, SMT
    <3>3. Has_Code("Top")
      BY <3>1, <3>2 DEF Has_Code
    <3> QED BY <3>1, <3>2, <3>3
  <2>5. /\ Len(e.input) = 1 /\ e.input[1] = "$1"
        /\ Len(e.output) = 2 /\ e.output[1] = "$1" /\ e.output[2] = "Pointer"
    BY DEF Effect
  <2> HIDE DEF e, effs
  <2>6. Matches(s, e) /\ Apply_First(s, effs) = Apply(s, e)
    <3>1. Len(effs) = 1 /\ Len(effs) \in 1 .. 3 /\ \A n \in 1 .. Len(effs) : effs[n] = e
      BY <2>1, SMT
    <3> QED BY <3>1, FirstMatch DEF effs
  <2>7. PICK l \in Nat : l = Len(s) /\ 1 <= l
    <3>1. Len(s) >= 1 /\ Len(s) \in Nat
      BY <2>5, <2>6, SMT DEF Matches
    <3> QED BY <3>1
  <2>8. /\ Lower(s, 1) \in Seq(T) /\ Len(Lower(s, 1)) = l - 1
        /\ \A k \in 1 .. l - 1 : Lower(s, 1)[k] = s[k]
        /\ Upper(s, 1)[1] = s[l]
    <3>1. Upper(s, 1)[1] = s[Len(s) - 1 + 1]
      BY <2>7, Split, SMT
    <3>2. Len(s) - 1 + 1 = l
      BY <2>7, SMT
    <3>3. /\ Lower(s, 1) \in Seq(T) /\ Len(Lower(s, 1)) = Len(s) - 1
          /\ \A k \in 1 .. Len(s) - 1 : Lower(s, 1)[k] = s[k]
      <4>1. 1 <= Len(s)
        BY <2>7
      <4> QED BY <4>1, Split, SMT
    <3> QED BY <2>7, <3>1, <3>2, <3>3
  <2>9. Bound(s, e, "$1") = s[l]
    <3>1. Only_At(e, "$1", 1)
      BY <2>5, SMT DEF Only_At
    <3>2. Bound(s, e, "$1") = Upper(s, Len(e.input))[1]
      BY <3>1, <1>BoundIs, SMT
    <3> QED BY <2>5, <2>8, <3>2
  <2>10. s[l] \in T
    BY <2>7, SeqElement, SMT
  <2>11. PICK g : g = <<s[l], "Pointer">>
    OBVIOUS
  <2>12. Given(s, e) = g
    <3>1. Given(s, e) = [n \in 1 .. 2 |-> IF e.output[n] \in Variable THEN Bound(s, e, e.output[n])
          ELSE e.output[n]]
      BY <2>5 DEF Given
    <3> QED BY <2>5, <2>9, <2>11, <3>1, SMT DEF Variable
  <2>13. Apply(s, e) = Lower(s, 1) \o g
    BY <2>5, <2>12 DEF Apply, Lower, Given
  <2>14. g \in Seq(T) /\ Len(g) = 2 /\ g[1] = s[l] /\ g[2] = "Pointer"
    BY <2>10, <2>11, SMT DEF Value, Type
  <2>15. PICK z : z = Lower(s, 1) \o g
    OBVIOUS
  <2>16. /\ z \in Seq(T) /\ Len(z) = l + 1 /\ z[l + 1] = "Pointer"
         /\ \A k \in 1 .. l : z[k] = s[k]
    <3>1. PICK a : a = Lower(s, 1)
      OBVIOUS
    <3>2. PICK m \in Nat : m = l - 1 /\ m + 1 = l
      <4>1. l - 1 \in Nat /\ (l - 1) + 1 = l
        BY <2>7, SMT
      <4> QED BY <4>1
    <3>3. a \in Seq(T) /\ Len(a) = m /\ \A k \in 1 .. m : a[k] = s[k]
      BY <2>8, <3>1, <3>2
    <3>4. z \in Seq(T) /\ Len(z) = Len(a) + Len(g)
          /\ \A k \in 1 .. Len(a) + Len(g) : z[k] = IF k <= Len(a) THEN a[k] ELSE g[k - Len(a)]
      <4>1. z = a \o g /\ a \in Seq(T) /\ g \in Seq(T)
        BY <2>14, <2>15, <3>1, <3>3
      <4> QED BY <4>1, SeqConcat
    <3>5. z \in Seq(T) /\ Len(z) = m + 2
          /\ \A k \in 1 .. m + 2 : z[k] = IF k <= m THEN a[k] ELSE g[k - m]
      BY <2>14, <3>3, <3>4
    <3>6. z[m + 1] = g[1] /\ z[m + 2] = g[2] /\ m + 2 = l + 1
      <4>1. m + 1 \in 1 .. m + 2 /\ ~(m + 1 <= m) /\ m + 1 - m = 1
            /\ m + 2 \in 1 .. m + 2 /\ ~(m + 2 <= m) /\ m + 2 - m = 2 /\ m + 2 = l + 1
        BY <3>2, SMT
      <4>2. z[m + 1] = g[m + 1 - m] /\ z[m + 2] = g[m + 2 - m]
        BY <3>5, <4>1, SMT
      <4> QED BY <4>1, <4>2
    <3>7. \A k \in 1 .. l : k \in 1 .. m + 2 /\ (k <= m \/ k = m + 1)
      BY <3>2, SMT
    <3>8. ASSUME NEW k \in 1 .. l PROVE z[k] = s[k]
      <4>1. CASE k <= m
        BY <3>3, <3>5, <3>7, <4>1, SMT
      <4>2. CASE k = m + 1
        BY <2>14, <3>2, <3>6, <4>2
      <4> QED BY <3>7, <4>1, <4>2
    <3>9. Len(z) = l + 1
      BY <3>2, <3>5, SMT
    <3> QED BY <2>14, <3>5, <3>6, <3>8, <3>9
  <2>17. /\ Left("Top", s) \in Seq(T) /\ Len(Left("Top", s)) = 1
         /\ Lower(s, 0) \in Seq(T)
         /\ Run_Intrinsic("Top", s) = Lower(s, 0) \o Left("Top", s)
    <3>1. Emitted("Top").reads <= Len(s)
      BY <2>4, <2>7, SMT
    <3> QED BY <2>4, <3>1, RunIs
  <2>18. Left("Top", s)[1] = "Pointer"
    <3>1. Left("Top", s) = [n \in 1 .. 1 |->
            IF Emitted("Top").leaves[n] = 0 THEN Computed("Top", Upper(s, 0))
            ELSE Upper(s, 0)[Emitted("Top").leaves[n]]]
      BY <2>4 DEF Left
    <3> QED BY <2>3, <2>4, <3>1, SMT
  <2>19. Lower(s, 0) = s
    <3>1. Len(Lower(s, 0)) = Len(s) - 0 /\ \A k \in 1 .. Len(s) - 0 : Lower(s, 0)[k] = s[k]
      <4>1. 0 <= Len(s)
        BY <2>7, SMT
      <4> QED BY <4>1, Split, SMT
    <3>2. Len(s) - 0 = Len(s)
      BY <2>7, SMT
    <3> QED BY <2>17, <3>1, <3>2, SeqSame
  <2>20. Run_Intrinsic("Top", s) = z
    <3>1. PICK b : b = Left("Top", s)
      OBVIOUS
    <3>2. PICK y : y = s \o b
      OBVIOUS
    <3>3. y \in Seq(T) /\ Len(y) = Len(s) + Len(b)
          /\ \A k \in 1 .. Len(s) + Len(b) : y[k] = IF k <= Len(s) THEN s[k] ELSE b[k - Len(s)]
      BY <2>17, <3>1, <3>2, SeqConcat
    <3>4. y \in Seq(T) /\ Len(y) = l + 1
          /\ \A k \in 1 .. l + 1 : y[k] = IF k <= l THEN s[k] ELSE b[k - l]
      BY <2>7, <2>17, <3>1, <3>3
    <3>5. y[l + 1] = "Pointer"
      <4>1. l + 1 \in 1 .. l + 1 /\ ~(l + 1 <= l) /\ l + 1 - l = 1
        BY <2>7, SMT
      <4>2. y[l + 1] = b[l + 1 - l]
        BY <3>4, <4>1, SMT
      <4> QED BY <2>18, <3>1, <4>1, <4>2
    <3>6. \A k \in 1 .. l + 1 : (k <= l /\ k \in 1 .. l) \/ k = l + 1
      BY <2>7, SMT
    <3>7. \A k \in 1 .. l + 1 : y[k] = z[k]
      <4> TAKE k \in 1 .. l + 1
      <4>1. CASE k <= l /\ k \in 1 .. l
        <5>1. y[k] = s[k]
          BY <3>4, <4>1
        <5>2. z[k] = s[k]
          BY <2>16, <4>1
        <5> QED BY <5>1, <5>2
      <4>2. CASE k = l + 1
        <5>1. z[l + 1] = "Pointer"
          BY <2>16
        <5> QED BY <3>5, <4>2, <5>1
      <4> QED BY <3>6, <4>1, <4>2
    <3> QED BY <2>16, <2>17, <2>19, <3>1, <3>2, <3>4, <3>7, SeqSame
  <2> QED BY <2>4, <2>6, <2>7, <2>13, <2>15, <2>16, <2>20 DEF effs

<1> SUFFICES ASSUME NEW intr \in Intrinsic_Kind \ {"Call"}, NEW T, Value \subseteq T,
                    NEW s \in Seq(T),
                  Has_Match(s, Intrinsic_Effects(intr))
             PROVE  LET t == Apply_First(s, Intrinsic_Effects(intr))
                    IN /\ Has_Code(intr) /\ Emitted(intr).reads <= Len(s)
                       /\ t \in Seq(T)
                       /\ Len(t) = Len(s) - Emitted(intr).reads + Len(Emitted(intr).leaves)
                       /\ s \in Seq(Value) => t = Run_Intrinsic(intr, s)
  OBVIOUS
<1>1. CASE intr = "Top"
  <2>1. Len(s) \in Nat /\ Len(s) - 0 + 1 = Len(s) + 1 /\ 0 <= Len(s)
    BY SMT
  <2> QED BY <1>1, <2>1, <1>TopTyped
<1>2. CASE intr # "Top"
  <2> PICK effs : effs = Intrinsic_Effects(intr)
    OBVIOUS
  <2>2. Len(effs) \in 1 .. 3 /\ \A n \in 1 .. Len(effs) : Agrees(intr, effs[n])
        /\ Computes(intr, effs[n])
    BY <1>2, EffectsAgree
  <2>3. PICK n \in 1 .. Len(effs) : Matches(s, effs[n]) /\ Apply_First(s, effs) = Apply(s, effs[n])
    BY <2>2, FirstMatch
  <2>4. PICK e : e = effs[n]
    OBVIOUS
  <2>5. /\ Agrees(intr, e) /\ Computes(intr, e) /\ Matches(s, e)
        /\ Apply_First(s, Intrinsic_Effects(intr)) = Apply(s, e)
    BY <2>2, <2>3, <2>4
  <2>6. /\ Has_Code(intr) /\ Emitted(intr).reads <= Len(s)
        /\ Apply(s, e) \in Seq(T)
        /\ Len(Apply(s, e)) = Len(s) - Emitted(intr).reads + Len(Emitted(intr).leaves)
        /\ s \in Seq(Value) => Apply(s, e) = Run_Intrinsic(intr, s)
    BY <2>5, <1>ApplyRuns
  <2> QED BY <2>5, <2>6
<1> QED BY <1>1, <1>2

-----------------------------------------------------------------------------
(* Walks over the bodies of a program                                       *)

\* The operations of a word or of main.
Text(p, w) == IF w = "main" THEN p.main ELSE p.words[w].body

\* What has operations.
Names(p) == DOMAIN p.words \cup {"main"}

\* The effect of a word; main takes nothing and leaves nothing.
Effect_Of(p, w) == IF w = "main" THEN Effect(<<>>, <<>>) ELSE p.words[w].effect

\* What main typechecks: every word with an effect, and main.
Promised(p) == Checked_Words(p) \cup {"main"}

\* No_Any, of a program.
Anyless(p) ==
  /\ \A w \in Names(p) : \A n \in 1 .. Len(Text(p, w)) : Text(p, w)[n].arg # "Any"
  /\ \A w \in Checked_Words(p) :
       \A n \in 1 .. Len(p.words[w].effect.input) : p.words[w].effect.input[n] # "Any"
  /\ \A w \in Checked_Words(p) :
       \A n \in 1 .. Len(p.words[w].effect.output) : p.words[w].effect.output[n] # "Any"

\* The types that a typestack of the walk holds: without `any`, those of values.
Slots(p) == IF Anyless(p) THEN Value ELSE Type

\* The typestacks of a walk.
Stacks(p) == Seq(Slots(p))

\* As far as the comparison of types tells: without `any` it tells everything,
\* with it only the lengths are certain.
Like(p, s, t) == Len(s) = Len(t) /\ (Anyless(p) => s = t)

\* Where a walk over a word can be.
Points(p, w) == [stack : Stacks(p), ip : 0 .. Len(Text(p, w))]

\* The walk over a word ends here: past the last operation, or at a return.
Ends(p, w, ip) == IF ip >= Len(Text(p, w)) THEN TRUE ELSE At(Text(p, w), ip).kind = "Return"

\* Some point of P has this stack at this operation.
Covered(p, P, s, ip) == \E y \in P : y.ip = ip /\ Like(p, y.stack, s)

\* The operation op accepts the stack of point x, and P has what follows.
Passes(p, G, P, x, op) ==
  /\ op.kind \in {"Push_Int", "Push_Symbol"} =>
       Covered(p, P, Pushed(x.stack, IF op.kind = "Push_Int" THEN op.arg ELSE "Pointer"), x.ip + 1)
  /\ op.kind = "Cast" =>
       x.stack # <<>> /\ Covered(p, P, Pushed(Pop(x.stack), op.arg), x.ip + 1)
  /\ op.kind = "Intrinsic" =>
       /\ op.arg # "Call" /\ Has_Match(x.stack, Intrinsic_Effects(op.arg))
       /\ Covered(p, P, Apply_First(x.stack, Intrinsic_Effects(op.arg)), x.ip + 1)
  /\ op.kind \in {"If", "Do"} =>
       /\ x.stack # <<>> /\ (Anyless(p) => Top(x.stack) = "Bool")
       /\ Covered(p, P, Pop(x.stack), x.ip + 1) /\ Covered(p, P, Pop(x.stack), op.jump)
  /\ op.kind \in {"Else", "End"} => Covered(p, P, x.stack, op.jump)
  /\ op.kind = "While" => Covered(p, P, x.stack, x.ip + 1)
  /\ op.kind = "Call_Symbol" =>
       \/ /\ p.words[op.arg].dynamic
          /\ \E g \in G : /\ g.word = op.arg /\ g.input = x.stack
                          /\ Covered(p, P, g.output, x.ip + 1)
       \/ LET e == p.words[op.arg].effect
          IN /\ op.arg \in Checked_Words(p)
             /\ Len(e.input) <= Len(x.stack)
             /\ Anyless(p) => Upper(x.stack, Len(e.input)) = e.input
             /\ Covered(p, P, Join(Lower(x.stack, Len(e.input)), e.output), x.ip + 1)

\* A point of a walk over w: at an end the stack is one of outs, elsewhere the
\* walk goes on in P.
Sound(p, G, P, outs, w, x) ==
  IF Ends(p, w, x.ip) THEN \E o \in outs : Like(p, x.stack, o)
  ELSE Passes(p, G, P, x, At(Text(p, w), x.ip))

\* One thing on its own.
Just(o) == {o}

\* A finished walk over a word, from one typestack to another.
Is_Walk(p, G, g) ==
  /\ g.word \in Names(p) /\ g.input \in Stacks(p) /\ g.output \in Stacks(p)
  /\ g.points \subseteq Points(p, g.word)
  /\ State(g.input, 0) \in g.points
  /\ \A x \in g.points : Sound(p, G, g.points, Just(g.output), g.word, x)

\* The walks G rely on no other walks.
Closed(p, G) == \A g \in G : Is_Walk(p, G, g)

\* There is a walk over a word that turns its inputs into its outputs.
Has_Walk(p, G, w) ==
  \E g \in G : /\ g.word = w /\ g.input = Effect_Of(p, w).input
               /\ g.output = Effect_Of(p, w).output

\* What the typechecker has established when it accepts a program.
Certificate(p, G) == Closed(p, G) /\ \A w \in Promised(p) : Has_Walk(p, G, w)

\* Like is an equivalence.
LEMMA LikeFacts ==
  ASSUME NEW p
  PROVE  /\ \A s : Like(p, s, s)
         /\ \A s, t : Like(p, s, t) => Like(p, t, s)
         /\ \A s, t, u : Like(p, s, t) /\ Like(p, t, u) => Like(p, s, u)
BY DEF Like

\* Slots lies between the types of values and all types.
LEMMA SlotsAre ==
  ASSUME NEW p
  PROVE  Value \subseteq Slots(p) /\ Slots(p) \subseteq Type
         /\ (Anyless(p) => Slots(p) = Value)
BY DEF Slots, Value

\* What covers a stack covers every stack like it.
LEMMA CoveredLike ==
  ASSUME NEW p, NEW P, NEW s, NEW t, Like(p, s, t), NEW ip, Covered(p, P, s, ip)
  PROVE  Covered(p, P, t, ip)
<1> PICK y \in P : y.ip = ip /\ Like(p, y.stack, s)
  BY DEF Covered
<1>2. Like(p, y.stack, t)
  BY LikeFacts
<1> QED BY <1>2 DEF Covered

-----------------------------------------------------------------------------
(* What one operation is checked against                                    *)

\* The operation at a place of a body that is not its end.
LEMMA TextIs ==
  ASSUME NEW p \in Programs, NEW w \in Names(p), NEW ip \in 0 .. Len(Text(p, w)), ~Ends(p, w, ip)
  PROVE  LET op == At(Text(p, w), ip)
         IN /\ Len(Text(p, w)) \in Nat /\ ip \in 0 .. Len(Text(p, w)) - 1
               /\ ip + 1 \in 0 .. Len(Text(p, w))
            /\ op.kind \in Operation_Kind \ {"Return"}
            /\ op.jump \in 0 .. Len(Text(p, w)) \cup {Empty_Jump}
            /\ op.kind = "Push_Int" => op.arg \in {"Int", "Bool"}
            /\ op.kind = "Cast" => op.arg \in Type
            /\ op.kind = "Intrinsic" => op.arg \in Intrinsic_Kind
            /\ op.kind = "Call_Symbol" => op.arg \in DOMAIN p.words
            /\ Anyless(p) => op.arg # "Any"
<1> PICK t : t = Text(p, w)
  OBVIOUS
<1>2. Is_Body(t, DOMAIN p.words)
  BY ProgramsAssumption DEF Text, Names
<1>3. t \in Seq([kind : Operation_Kind, arg : STRING, jump : 0 .. Len(t) \cup {Empty_Jump}])
  BY <1>2 DEF Is_Body
<1>4. Len(t) \in Nat /\ ip \in 0 .. Len(t) - 1
  <2>1. Len(t) \in Nat
    BY <1>3, SMT
  <2>2. ~(ip >= Len(t))
    BY DEF Ends
  <2> QED BY <2>1, <2>2, SMT
<1> PICK n : n = ip + 1
  OBVIOUS
<1> n \in 1 .. Len(t) /\ n \in 0 .. Len(t)
  BY <1>4, SMT
<1> PICK op : op = t[n]
  OBVIOUS
<1>8. op \in [kind : Operation_Kind, arg : STRING, jump : 0 .. Len(t) \cup {Empty_Jump}]
  BY <1>3, SeqElement
<1>9. At(t, ip) = op
  BY DEF At
<1>10. op.kind # "Return"
  BY <1>4, <1>9 DEF Ends
<1>11. /\ op.kind = "Push_Int" => op.arg \in {"Int", "Bool"}
       /\ op.kind = "Cast" => op.arg \in Type
       /\ op.kind = "Intrinsic" => op.arg \in Intrinsic_Kind
       /\ op.kind = "Call_Symbol" => op.arg \in DOMAIN p.words
  BY <1>2 DEF Is_Body
<1>12. Anyless(p) => op.arg # "Any"
  BY DEF Anyless
<1> QED BY <1>4, <1>8, <1>9, <1>10, <1>11, <1>12

-----------------------------------------------------------------------------
-----------------------------------------------------------------------------
(* The data stack follows a walk                                            *)

\* The walk g is at operation ip with what d holds above b.
Follows(p, g, b, d, ip) ==
  \E u \in Seq(Value) : d = Join(b, u) /\ Covered(p, g.points, u, ip)

\* How to show that a walk is followed.
LEMMA FollowsIs ==
  ASSUME NEW p, NEW g, NEW b, NEW u \in Seq(Value), NEW ip, Covered(p, g.points, u, ip)
  PROVE  Follows(p, g, b, Join(b, u), ip)
BY DEF Follows

\* The walk g is at its point x, with u above b.
Stands(p, G, g, b, d, ip, u, x) ==
  /\ d = Join(b, u) /\ x.ip = ip /\ Like(p, x.stack, u)
  /\ x.stack \in Stacks(p) /\ ip \in 0 .. Len(Text(p, g.word)) /\ g.word \in Names(p)
  /\ Sound(p, G, g.points, Just(g.output), g.word, x)

\* What the walk knows of an operation that is about to run.
LEMMA FollowsAt ==
  ASSUME NEW p \in Programs, NEW G, Closed(p, G), NEW g \in G, NEW b, NEW d, NEW ip,
         Follows(p, g, b, d, ip)
  PROVE  \E u \in Seq(Value), x \in g.points : Stands(p, G, g, b, d, ip, u, x)
<1> PICK u \in Seq(Value) : d = Join(b, u) /\ Covered(p, g.points, u, ip)
  BY DEF Follows
<1> PICK x \in g.points : x.ip = ip /\ Like(p, x.stack, u)
  BY DEF Covered
<1>3. Is_Walk(p, G, g)
  BY DEF Closed
<1>4. g.word \in Names(p) /\ x \in Points(p, g.word)
      /\ Sound(p, G, g.points, Just(g.output), g.word, x)
  BY <1>3 DEF Is_Walk
<1>5. x.stack \in Stacks(p) /\ x.ip \in 0 .. Len(Text(p, g.word))
  BY <1>4 DEF Points
<1>6. Stands(p, G, g, b, d, ip, u, x)
  BY <1>4, <1>5 DEF Stands
<1> QED BY <1>6

\* The same after a pop.
LEMMA LikePop ==
  ASSUME NEW p, NEW A, NEW B, NEW s \in Seq(A), NEW t \in Seq(B), Like(p, s, t), s # <<>>
  PROVE  /\ t # <<>> /\ Pop(t) \in Seq(B) /\ Pop(s) \in Seq(A) /\ Top(t) \in B
         /\ Like(p, Pop(s), Pop(t)) /\ (Anyless(p) => Top(s) = Top(t))
<1>1. Len(s) \in Nat \ {0} /\ Pop(s) \in Seq(A) /\ Len(Pop(s)) = Len(s) - 1
  BY StackPop
<1>2. Len(t) = Len(s) /\ (Anyless(p) => s = t)
  BY DEF Like
<1>3. t # <<>>
  BY <1>1, <1>2
<1>4. Pop(t) \in Seq(B) /\ Len(Pop(t)) = Len(t) - 1 /\ Top(t) \in B
  BY <1>3, StackPop
<1> QED BY <1>1, <1>2, <1>3, <1>4 DEF Like

\* The operation that runs next, in a walk that the data stack follows.
Runs_At(p, G, g, b, d, ip, op) ==
  /\ p \in Programs /\ Closed(p, G) /\ g \in G
  /\ b \in Seq(Value) /\ Follows(p, g, b, d, ip)
  /\ ~Ends(p, g.word, ip) /\ op = At(Text(p, g.word), ip)

\* What the walk says of that operation.
LEMMA RunsAt ==
  ASSUME NEW p, NEW G, NEW g, NEW b, NEW d, NEW ip, NEW op, Runs_At(p, G, g, b, d, ip, op)
  PROVE  \E u \in Seq(Value), x \in g.points :
           /\ d = Join(b, u) /\ x.ip = ip /\ Like(p, x.stack, u) /\ x.stack \in Seq(Slots(p))
           /\ Passes(p, G, g.points, x, op)
           /\ op.kind \in Operation_Kind \ {"Return"}
           /\ op.kind = "Push_Int" => op.arg \in {"Int", "Bool"}
           /\ op.kind = "Cast" => op.arg \in Type
           /\ op.kind = "Intrinsic" => op.arg \in Intrinsic_Kind
           /\ op.kind = "Call_Symbol" => op.arg \in DOMAIN p.words
           /\ Anyless(p) => op.arg # "Any"
<1>1. PICK u \in Seq(Value), x \in g.points : Stands(p, G, g, b, d, ip, u, x)
  <2>1. p \in Programs /\ Closed(p, G) /\ g \in G /\ Follows(p, g, b, d, ip)
    BY DEF Runs_At
  <2> QED BY <2>1, FollowsAt
<1>2. Passes(p, G, g.points, x, op)
  BY <1>1 DEF Stands, Sound, Runs_At
<1>3. PICK w : w = g.word
  OBVIOUS
<1>4. /\ op.kind \in Operation_Kind \ {"Return"}
      /\ op.kind = "Push_Int" => op.arg \in {"Int", "Bool"}
      /\ op.kind = "Cast" => op.arg \in Type
      /\ op.kind = "Intrinsic" => op.arg \in Intrinsic_Kind
      /\ op.kind = "Call_Symbol" => op.arg \in DOMAIN p.words
      /\ Anyless(p) => op.arg # "Any"
  <2>1. p \in Programs /\ w \in Names(p) /\ ip \in 0 .. Len(Text(p, w)) /\ ~Ends(p, w, ip)
        /\ op = At(Text(p, w), ip)
    BY <1>1, <1>3 DEF Stands, Runs_At
  <2> QED BY <2>1, TextIs
<1> QED BY <1>1, <1>2, <1>4 DEF Stands, Stacks

\* The code of an intrinsic finds the slots it reads, with the types of an
\* effect, and is followed by the walk.
LEMMA IntrinsicFollows ==
  \A p, G, g, b, d, ip, op :
    /\ Runs_At(p, G, g, b, d, ip, op)
    /\ op.kind = "Intrinsic"
    => /\ Follows(p, g, b, Run_Intrinsic(op.arg, d), ip + 1)
       /\ Has_Code(op.arg) /\ Len(b) + Emitted(op.arg).reads <= Len(d)
       /\ Anyless(p) => Has_Match(d, Intrinsic_Effects(op.arg))
(* What lies further down the data stack does not matter                    *)

\* The code of an intrinsic does not see what lies below the slots it reads.
<1>RunLocal.
    ASSUME NEW intr, Has_Code(intr), NEW T, Value \subseteq T, NEW p \in Seq(T), NEW s \in Seq(T),
           Emitted(intr).reads <= Len(s)
    PROVE  Run_Intrinsic(intr, Join(p, s)) = Join(p, Run_Intrinsic(intr, s))
  <2> USE <1>RunLocal
  <2>1. PICK r \in Nat : r = Emitted(intr).reads
    BY DEF Has_Code
  <2>2. PICK d : d = p \o s
    OBVIOUS
  <2>3. d \in Seq(T) /\ Len(d) = Len(p) + Len(s) /\ Len(p) \in Nat /\ Len(s) \in Nat
    BY <2>2, SeqConcat, SMT
  <2>4. r <= Len(d) /\ r <= Len(s)
    BY <2>1, <2>3, SMT
  <2>5. Upper(d, r) = Upper(s, r) /\ Lower(d, r) = p \o Lower(s, r)
    BY <2>2, <2>4, SplitLocal, SMT
  <2>6. Left(intr, d) = Left(intr, s)
    BY <2>1, <2>5 DEF Left
  <2>7. Run_Intrinsic(intr, d) = Lower(d, r) \o Left(intr, d)
    BY <2>1, <2>3, <2>4, RunIs
  <2>8. Run_Intrinsic(intr, s) = Lower(s, r) \o Left(intr, s)
    BY <2>1, <2>4, RunIs
  <2>9. Lower(s, r) \in Seq(T) /\ Left(intr, s) \in Seq(T)
    BY <2>1, <2>4, RunIs
  <2>10. (p \o Lower(s, r)) \o Left(intr, s) = p \o (Lower(s, r) \o Left(intr, s))
    BY <2>9, SeqAssociative, SMTT(30)
  <2> QED BY <2>2, <2>5, <2>6, <2>7, <2>8, <2>10 DEF Join

\* An effect that matches a stack matches it on top of anything.
<1>MatchesLocal.
    ASSUME NEW T, NEW p \in Seq(T), NEW s \in Seq(T), NEW e, Len(e.input) \in Nat, Matches(s, e)
    PROVE  Matches(Join(p, s), e)
  <2> USE <1>MatchesLocal
  <2> PICK r \in Nat : r = Len(e.input)
    OBVIOUS
  <2> PICK d : d = p \o s
    OBVIOUS
  <2>3. d \in Seq(T) /\ Len(d) = Len(p) + Len(s) /\ Len(p) \in Nat /\ Len(s) \in Nat
    BY SeqConcat, SMT
  <2>4. r <= Len(s) /\ r <= Len(d)
    <3>1. Len(s) >= r
      BY DEF Matches
    <3> QED BY <2>3, <3>1, SMT
  <2>5. Upper(d, r) = Upper(s, r)
    BY <2>4, SplitLocal, SMT
  <2>6. Arguments(d, e) = Arguments(s, e)
    BY <2>5 DEF Arguments, Upper
  <2>7. \A v : Bound(d, e, v) = Bound(s, e, v)
    BY <2>6 DEF Bound
  <2>8. Matches(d, e)
    <3>1. Len(d) >= Len(e.input)
      BY <2>3, <2>4
    <3> QED BY <2>6, <2>7, <3>1 DEF Matches
  <2> QED BY <2>8 DEF Join

\* The same for the effects of an intrinsic.
<1>HasMatchLocal.
    ASSUME NEW T, NEW p \in Seq(T), NEW s \in Seq(T), NEW effs, Has_Match(s, effs),
           \A n \in 1 .. Len(effs) : Len(effs[n].input) \in Nat
    PROVE  Has_Match(Join(p, s), effs)
  <2> USE <1>HasMatchLocal
  <2> PICK n \in 1 .. Len(effs) : Matches(s, effs[n])
    BY DEF Has_Match
  <2> PICK e : e = effs[n]
    OBVIOUS
  <2>3. Matches(Join(p, s), e)
    BY <1>MatchesLocal
  <2> QED BY <2>3 DEF Has_Match

<1> SUFFICES ASSUME NEW p, NEW G, NEW g, NEW b, NEW d, NEW ip,
                    NEW op, Runs_At(p, G, g, b, d, ip, op),
                  op.kind = "Intrinsic"
             PROVE  /\ Follows(p, g, b, Run_Intrinsic(op.arg, d), ip + 1)
                    /\ Has_Code(op.arg) /\ Len(b) + Emitted(op.arg).reads <= Len(d)
                    /\ Anyless(p) => Has_Match(d, Intrinsic_Effects(op.arg))
  BY SMT
<1> PICK u \in Seq(Value), x \in g.points :
      /\ d = Join(b, u) /\ x.ip = ip /\ Like(p, x.stack, u) /\ x.stack \in Seq(Slots(p))
      /\ Passes(p, G, g.points, x, op)
      /\ op.arg \in Intrinsic_Kind
  BY RunsAt, SMT
<1> PICK s, i : s = x.stack /\ i = op.arg
  OBVIOUS
<1> /\ s \in Seq(Slots(p)) /\ i \in Intrinsic_Kind \ {"Call"}
    /\ Has_Match(s, Intrinsic_Effects(i))
    /\ Covered(p, g.points, Apply_First(s, Intrinsic_Effects(i)), ip + 1)
    /\ Len(s) = Len(u) /\ (Anyless(p) => s = u)
  BY DEF Passes, Like
<1> PICK t, r, l : t = Apply_First(s, Intrinsic_Effects(i)) /\ r = Emitted(i).reads
                   /\ l = Len(Emitted(i).leaves)
  OBVIOUS
<1> /\ Has_Code(i) /\ r <= Len(s) /\ t \in Seq(Slots(p)) /\ Len(t) = Len(s) - r + l
    /\ s \in Seq(Value) => t = Run_Intrinsic(i, s)
  BY SlotsAre, IntrinsicTyped, SMT
<1>6. b \in Seq(Value)
  BY DEF Runs_At
<1>7. /\ Run_Intrinsic(i, u) \in Seq(Value)
      /\ Len(Run_Intrinsic(i, u)) = Len(u) - r + l
  <2>1. Emitted(i).reads <= Len(u)
    OBVIOUS
  <2> QED BY <2>1, RunIs
<1>8. Run_Intrinsic(i, d) = Join(b, Run_Intrinsic(i, u))
  <2>1. Emitted(i).reads <= Len(u)
    OBVIOUS
  <2>2. Run_Intrinsic(i, Join(b, u)) = Join(b, Run_Intrinsic(i, u))
    BY <1>6, <2>1, <1>RunLocal, SMT
  <2> QED BY <2>2
<1>9. Like(p, t, Run_Intrinsic(i, u))
  BY <1>7 DEF Like
<1>10. Covered(p, g.points, Run_Intrinsic(i, u), ip + 1)
  BY <1>9, CoveredLike
<1>11. Len(b) + r <= Len(d)
  <2>1. Len(d) = Len(b) + Len(u) /\ Len(b) \in Nat /\ Len(u) \in Nat
    BY <1>6, JoinIs
  <2>2. r \in Nat
    BY DEF Has_Code
  <2> QED BY <2>1, <2>2, SMT
<1>12. ASSUME Anyless(p) PROVE Has_Match(d, Intrinsic_Effects(i))
  <2> PICK effs : effs = Intrinsic_Effects(i)
    OBVIOUS
  <2>2. Has_Match(u, effs)
    BY <1>12
  <2>3. \A n \in 1 .. Len(effs) : Len(effs[n].input) \in Nat
    <3>1. CASE i = "Top"
      <4>1. effs = <<Effect(<<"$1">>, <<"$1", "Pointer">>)>>
        BY <3>1 DEF Intrinsic_Effects, Comparisons, Arithmetic, Syscalls
      <4> QED BY <4>1, SMT DEF Effect
    <3>2. CASE i # "Top"
      <4>1. \A n \in 1 .. Len(effs) : Agrees(i, effs[n])
        BY <3>2, EffectsAgree
      <4>2. \A n \in 1 .. Len(effs) : effs[n].input \in Seq(Type \cup Variable)
        BY <4>1, SMT DEF Agrees
      <4> QED BY <4>2, SMT
    <3> QED BY <3>1, <3>2
  <2> QED BY <1>6, <2>2, <2>3, <1>HasMatchLocal
<1> QED BY <1>7, <1>8, <1>10, <1>11, <1>12 DEF Follows

\* A branch finds a condition, a boolean, and both of its ways are followed.
LEMMA BranchFollows ==
  ASSUME NEW p, NEW G, NEW g, NEW b, NEW d, NEW ip, NEW op, Runs_At(p, G, g, b, d, ip, op),
         op.kind \in {"If", "Do"}
  PROVE  /\ Follows(p, g, b, Pop(d), ip + 1) /\ Follows(p, g, b, Pop(d), op.jump)
         /\ d # <<>> /\ Len(b) + 1 <= Len(d) /\ (Anyless(p) => Top(d) = "Bool")
<1> PICK u \in Seq(Value), x \in g.points :
      /\ d = Join(b, u) /\ x.ip = ip /\ Like(p, x.stack, u) /\ x.stack \in Seq(Slots(p))
      /\ Passes(p, G, g.points, x, op)
  BY RunsAt, SMT
<1>2. PICK s : s = x.stack
  OBVIOUS
<1> /\ s \in Seq(Slots(p)) /\ s # <<>> /\ Like(p, s, u) /\ (Anyless(p) => Top(s) = "Bool")
    /\ Covered(p, g.points, Pop(s), ip + 1) /\ Covered(p, g.points, Pop(s), op.jump)
  BY <1>2 DEF Passes
<1> /\ u # <<>> /\ Pop(u) \in Seq(Value) /\ Like(p, Pop(s), Pop(u))
       /\ (Anyless(p) => Top(s) = Top(u))
  <2>1. /\ u # <<>> /\ Pop(u) \in Seq(Value) /\ Pop(s) \in Seq(Slots(p)) /\ Top(u) \in Value
        /\ Like(p, Pop(s), Pop(u))
    BY LikePop
  <2>2. Anyless(p) => Top(s) = Top(u)
    BY DEF Like
  <2> QED BY <2>1, <2>2
<1>5. Covered(p, g.points, Pop(u), ip + 1) /\ Covered(p, g.points, Pop(u), op.jump)
  BY CoveredLike
<1>6. b \in Seq(Value)
  BY DEF Runs_At
<1>7. Pop(d) = Join(b, Pop(u)) /\ Top(d) = Top(u)
  BY <1>6, JoinPop
<1>8. Len(b) + 1 <= Len(d) /\ d # <<>>
  <2>1. Len(d) = Len(b) + Len(u) /\ Len(b) \in Nat /\ Len(u) \in Nat \ {0}
    BY <1>6, JoinIs, SeqEmpty
  <2> QED BY <2>1, SMT
<1> QED BY <1>5, <1>7, <1>8 DEF Follows

\* What an operation reads lies above what was found.
LEMMA ReadsAbove ==
  ASSUME NEW p, NEW G, NEW g, NEW b, NEW d, NEW ip, NEW op, Runs_At(p, G, g, b, d, ip, op)
  PROVE  Len(b) \in Nat /\ Reads(op) \in Nat /\ Len(b) + Reads(op) <= Len(d)
<1>1. Len(b) \in Nat /\ 0 \in Nat /\ 1 \in Nat
  BY SMT DEF Runs_At
<1>2. CASE op.kind = "Intrinsic"
  <2>1. Has_Code(op.arg) /\ Len(b) + Emitted(op.arg).reads <= Len(d)
    BY <1>2, IntrinsicFollows
  <2>2. Reads(op) = Emitted(op.arg).reads
    BY <1>2 DEF Reads
  <2> QED BY <1>1, <2>1, <2>2 DEF Has_Code
<1>3. CASE op.kind \in {"If", "Do"}
  <2>1. Len(b) + 1 <= Len(d)
    BY <1>3, BranchFollows
  <2>2. op.kind # "Intrinsic"
    BY <1>3
  <2>3. Reads(op) = 1
    BY <1>3, <2>2 DEF Reads
  <2> QED BY <1>1, <2>1, <2>3
<1>4. CASE op.kind \notin {"If", "Do", "Intrinsic"}
  <2>1. op.kind # "Intrinsic" /\ op.kind \notin {"If", "Do"}
    BY <1>4
  <2>2. Reads(op) = 0
    BY <2>1 DEF Reads
  <2>3. PICK u \in Seq(Value) : d = Join(b, u)
    BY DEF Runs_At, Follows
  <2>4. Len(d) = Len(b) + Len(u) /\ Len(u) \in Nat
    BY <2>3, JoinIs DEF Runs_At
  <2>5. Len(b) + 0 <= Len(d)
    BY <1>1, <2>4, SMT
  <2> QED BY <1>1, <2>2, <2>5
<1> QED BY <1>2, <1>3, <1>4

-----------------------------------------------------------------------------
(* What instructions leave alone                                            *)

\* The stack e has the m lowest slots of d, and is the data stack of a machine.
Rests_On(m, d, e) == e \in Seq(Value) /\ \A k \in 1 .. m : e[k] = d[k]

\* A push leaves everything alone.
LEMMA PushRests ==
  ASSUME NEW d \in Seq(Value), NEW v \in Value, NEW m \in Nat, m <= Len(d)
  PROVE  Rests_On(m, d, Pushed(d, v)) /\ Len(Pushed(d, v)) = Len(d) + 1
<1>1. \A k \in 1 .. m : k \in 1 .. Len(d)
  BY SMT
<1>2. /\ Append(d, v) \in Seq(Value) /\ Len(Append(d, v)) = Len(d) + 1
      /\ \A k \in 1 .. Len(d) : Append(d, v)[k] = d[k]
  BY SeqAppend, SMT
<1> QED BY <1>1, <1>2 DEF Rests_On, Pushed

\* A pop leaves alone what is not on top.
LEMMA PopRests ==
  ASSUME NEW d \in Seq(Value), NEW m \in Nat, m + 1 <= Len(d)
  PROVE  Rests_On(m, d, Pop(d)) /\ Len(Pop(d)) = Len(d) - 1 /\ m <= Len(Pop(d))
<1>1. d # <<>>
  BY SMT
<1>2. /\ Len(d) \in Nat \ {0} /\ Pop(d) \in Seq(Value) /\ Len(Pop(d)) = Len(d) - 1
      /\ \A n \in 1 .. Len(d) - 1 : Pop(d)[n] = d[n]
  BY <1>1, StackPop
<1>3. m <= Len(d) - 1 /\ \A k \in 1 .. m : k \in 1 .. Len(d) - 1
  BY <1>2, SMT
<1> QED BY <1>2, <1>3 DEF Rests_On

\* The code of an intrinsic leaves alone what it does not read.
LEMMA RunRests ==
  ASSUME NEW intr, Has_Code(intr), NEW d \in Seq(Value), NEW m \in Nat,
         m + Emitted(intr).reads <= Len(d)
  PROVE  /\ Rests_On(m, d, Run_Intrinsic(intr, d))
         /\ Len(Run_Intrinsic(intr, d)) = Len(d) - Emitted(intr).reads + Len(Emitted(intr).leaves)
<1>1. PICK r \in Nat : r = Emitted(intr).reads
  BY DEF Has_Code
<1>2. m + r <= Len(d) /\ Len(d) \in Nat
  BY <1>1, SMT
<1>3. r <= Len(d) /\ m <= Len(d) - r /\ Len(d) - r \in Nat
  BY <1>2, SMT
<1>4. PICK low, left : low = Lower(d, r) /\ left = Left(intr, d)
  OBVIOUS
<1>5. /\ left \in Seq(Value) /\ low \in Seq(Value) /\ Run_Intrinsic(intr, d) = low \o left
      /\ Run_Intrinsic(intr, d) \in Seq(Value)
      /\ Len(Run_Intrinsic(intr, d)) = Len(d) - r + Len(Emitted(intr).leaves)
  BY <1>1, <1>3, <1>4, RunIs
<1>6. Len(low) = Len(d) - r /\ \A k \in 1 .. Len(d) - r : low[k] = d[k]
  BY <1>3, <1>4, Split
<1>7. ASSUME NEW k \in 1 .. m PROVE (low \o left)[k] = d[k]
  <2>1. k \in 1 .. Len(low) /\ k \in 1 .. Len(d) - r
    BY <1>3, <1>6, SMT
  <2>2. (low \o left)[k] = low[k]
    BY <1>5, <2>1, SMT
  <2> QED BY <1>6, <2>1, <2>2
<1> QED BY <1>1, <1>5, <1>7 DEF Rests_On

\* The stack e is s, but for the slots in hit.
Hit_At(hit, s, e) ==
  /\ e \in Seq(Value) /\ Len(e) = Len(s)
  /\ \A k \in 1 .. Len(s) : k \in hit \/ e[k] = s[k]
  /\ hit = {} => e = s

\* What is written through an address changes the slots it hits.
LEMMA OverwriteIs ==
  ASSUME NEW s \in Seq(Value), NEW hit, NEW new \in [hit -> Value]
  PROVE  Hit_At(hit, s, Overwrite(s, new))
<1>1. PICK n \in Nat : n = Len(s) /\ s \in [1 .. n -> Value]
  BY SeqLen
<1>2. DOMAIN new = hit
  OBVIOUS
<1>3. PICK e : e = [k \in 1 .. n |-> IF k \in hit THEN new[k] ELSE s[k]]
  OBVIOUS
<1>4. Overwrite(s, new) = e
  BY <1>1, <1>2, <1>3 DEF Overwrite
<1>5. e \in [1 .. n -> Value]
  BY <1>1, <1>3
<1>6. e \in Seq(Value) /\ Len(e) = n
  BY <1>5, SeqFunction
<1>7. \A k \in 1 .. n : k \in hit \/ e[k] = s[k]
  BY <1>3
<1>8. ASSUME hit = {} PROVE e = s
  <2>1. \A k \in 1 .. n : e[k] = s[k]
    BY <1>7, <1>8
  <2> QED BY <1>1, <1>6, <2>1, SeqSame
<1> QED BY <1>1, <1>4, <1>6, <1>7, <1>8 DEF Hit_At

-----------------------------------------------------------------------------
\* b is the lower part of d.
Below(b, d) == \E u \in Seq(Value) : d = Join(b, u)

\* Every stack is the lower part of itself.
LEMMA BelowItself ==
  ASSUME NEW b \in Seq(Value)
  PROVE  Below(b, b)
<1>1. <<>> \in Seq(Value) /\ b = Join(b, <<>>)
  BY JoinEmpty, SeqEmpty
<1> QED BY <1>1 DEF Below

\* What is the lower part of a stack stays so when more is put on it.
LEMMA BelowJoin ==
  ASSUME NEW b \in Seq(Value), NEW c \in Seq(Value), Below(b, c), NEW u \in Seq(Value)
  PROVE  Below(b, Join(c, u))
<1>1. PICK m \in Seq(Value) : c = Join(b, m)
  BY DEF Below
<1>2. Join(m, u) \in Seq(Value) /\ Join(Join(b, m), u) = Join(b, Join(m, u))
  BY JoinIs, JoinAssociative, SMT
<1> QED BY <1>1, <1>2 DEF Below

\* A call in progress: the walk it follows, what lies under its arguments, and
\* the arguments.
Thread(p, G, t, c) ==
  /\ t.walk \in G /\ t.under \in Seq(Value) /\ t.in \in Seq(Value)
  /\ c.word = t.walk.word /\ c.found = Join(t.under, t.in)
  /\ Like(p, t.walk.input, t.in)
  /\ c.word \in Promised(p) =>
       /\ t.walk.input = Effect_Of(p, c.word).input
       /\ t.walk.output = Effect_Of(p, c.word).output

\* A call with b under its arguments waits at ip, on a walk over P, for the
\* call v, with m between the arguments of the two.
Link(p, b, P, v, ip) ==
  \E m \in Seq(Value) : v.under = Join(b, m) /\ Covered(p, P, Join(m, v.walk.output), ip)

\* The call v begins, at the start of a walk.
Begins(p, G, b, P, v, d, ip) ==
  /\ Thread(p, G, v, Call_Frame(v.walk.word, 0, d))
  /\ Link(p, b, P, v, ip) /\ Follows(p, v.walk, v.under, d, 0)

\* What a call needs to begin the walk g: m and in are the upper part of the
\* data stack, in the arguments.
Ready(p, G, g, b, P, m, in, ip) ==
  /\ b \in Seq(Value) /\ m \in Seq(Value) /\ in \in Seq(Value)
  /\ g \in G /\ Is_Walk(p, G, g) /\ Like(p, g.input, in)
  /\ Covered(p, P, Join(m, g.output), ip)
  /\ g.word \in Promised(p) =>
       g.input = Effect_Of(p, g.word).input /\ g.output = Effect_Of(p, g.word).output

\* The calls in progress of a program.
Calls(p) == Seq([word : Names(p), ip : Nat, found : Seq(Value)])

\* The machine runs along the walks of G: T has the thread of each call in
\* progress.
Runs(p, G, T, cs, d) ==
  /\ p \in Programs /\ Certificate(p, G)
  /\ cs \in Calls(p) /\ Len(cs) >= 1
  /\ \A n \in 1 .. Len(cs) : Thread(p, G, T[n], cs[n])
  /\ \A n \in 1 .. Len(cs) - 1 : Link(p, T[n].under, T[n].walk.points, T[n + 1], cs[n].ip)
  /\ Follows(p, T[Len(cs)].walk, T[Len(cs)].under, d, cs[Len(cs)].ip)
  /\ \A k \in 1 .. Len(cs) : \A n \in 1 .. k : Below(T[n].under, T[k].under)

\* The innermost call c, the walk g it follows, and what it has found, b.
Innermost(p, G, T, cs, d, l, g, b, c) ==
  /\ l \in Nat \ {0}
  /\ l = Len(cs) /\ g = T[l].walk /\ b = T[l].under /\ c = cs[l]
  /\ c \in [word : Names(p), ip : Nat, found : Seq(Value)]
  /\ p \in Programs /\ Closed(p, G) /\ g \in G /\ Is_Walk(p, G, g) /\ c.word = g.word
  /\ b \in Seq(Value) /\ Follows(p, g, b, d, c.ip) /\ Thread(p, G, T[l], c)

\* There is an innermost call.
LEMMA RunsTop ==
  ASSUME NEW p, NEW G, NEW T, NEW cs, NEW d, Runs(p, G, T, cs, d)
  PROVE  \E l, g, b, c : Innermost(p, G, T, cs, d, l, g, b, c)
<1> PICK l : l = Len(cs)
  OBVIOUS
<1>2. /\ cs \in Seq([word : Names(p), ip : Nat, found : Seq(Value)]) /\ l \in Nat \ {0}
      /\ l \in 1 .. Len(cs)
  BY SMT DEF Runs, Calls
<1> PICK g, b, c : g = T[l].walk /\ b = T[l].under /\ c = cs[l]
  OBVIOUS
<1>4. c \in [word : Names(p), ip : Nat, found : Seq(Value)]
  BY <1>2, SeqElement
<1>5. Thread(p, G, T[l], c) /\ p \in Programs /\ Closed(p, G) /\ Follows(p, g, b, d, c.ip)
  BY <1>2 DEF Runs, Certificate
<1>6. g \in G /\ b \in Seq(Value) /\ c.word = g.word
  BY <1>5 DEF Thread
<1>7. Is_Walk(p, G, g)
  BY <1>5, <1>6 DEF Closed
<1>8. Innermost(p, G, T, cs, d, l, g, b, c)
  BY <1>2, <1>4, <1>5, <1>6, <1>7 DEF Innermost
<1> QED BY <1>8

\* A step within the innermost call.
Stays(cs, cs2, l) ==
  /\ l = Len(cs) /\ l = Len(cs2)
  /\ cs2[l].word = cs[l].word /\ cs2[l].found = cs[l].found
  /\ \A n \in 1 .. l - 1 : cs2[n] = cs[n]

\* The innermost call makes one more.
Grows(cs, cs2, l, c) ==
  /\ l = Len(cs) /\ Len(cs2) = l + 1
  /\ cs2[l].word = cs[l].word /\ cs2[l].found = cs[l].found
  /\ cs2[l + 1] = c
  /\ \A n \in 1 .. l - 1 : cs2[n] = cs[n]

\* zs is the calls cs after the innermost of them has moved to ip.
Moved(p, cs, zs, l, ip) ==
  /\ zs \in Calls(p) /\ Len(zs) = l
  /\ \A n \in 1 .. l : zs[n].word = cs[n].word /\ zs[n].found = cs[n].found
  /\ zs[l].ip = ip /\ \A n \in 1 .. l : n # l => zs[n].ip = cs[n].ip

\* The calls after a step within the innermost one.
LEMMA MoveIs ==
  ASSUME NEW p, NEW cs \in Calls(p), NEW l \in Nat \ {0}, l = Len(cs), NEW ip \in Nat,
         NEW zs, zs = [cs EXCEPT ![l].ip = ip]
  PROVE  Moved(p, cs, zs, l, ip)
<1>1. PICK R : R = [word : Names(p), ip : Nat, found : Seq(Value)]
  OBVIOUS
<1>2. cs \in Seq(R) /\ l \in 1 .. Len(cs)
  BY <1>1, SMT DEF Calls
<1>3. PICK x : x = cs[l]
  OBVIOUS
<1>4. x \in R
  BY <1>2, <1>3, SeqElement
<1>5. PICK y : y = [x EXCEPT !.ip = ip]
  OBVIOUS
<1>6. y \in R /\ y.word = x.word /\ y.found = x.found /\ y.ip = ip
  BY <1>1, <1>4, <1>5
<1>7. zs = [cs EXCEPT ![l] = y]
  BY <1>3, <1>5
<1>8. /\ zs \in Seq(R) /\ Len(zs) = Len(cs)
      /\ \A n \in 1 .. Len(cs) : zs[n] = IF n = l THEN y ELSE cs[n]
  BY <1>2, <1>6, <1>7, SeqExcept, SMT
<1>9. zs[l] = y /\ \A n \in 1 .. l : n # l => zs[n] = cs[n]
  BY <1>2, <1>8, SMT
<1>10. \A n \in 1 .. l : zs[n].word = cs[n].word /\ zs[n].found = cs[n].found
  <2>1. ASSUME NEW n \in 1 .. l PROVE zs[n].word = cs[n].word /\ zs[n].found = cs[n].found
    <3>1. CASE n = l
      BY <1>3, <1>6, <1>9, <3>1
    <3>2. CASE n # l
      BY <1>9, <2>1, <3>2
    <3> QED BY <3>1, <3>2
  <2> QED BY <2>1
<1>11. zs \in Calls(p)
  BY <1>1, <1>8 DEF Calls
<1> QED BY <1>6, <1>8, <1>9, <1>10, <1>11 DEF Moved

\* zs is the calls cs after the innermost of them has called w, with d on the stack.
Entered_By(p, cs, zs, l, w, d) ==
  /\ zs \in Calls(p) /\ Len(zs) = l + 1
  /\ zs[l + 1].word = w /\ zs[l + 1].ip = 0 /\ zs[l + 1].found = d
  /\ \A n \in 1 .. l : zs[n].word = cs[n].word /\ zs[n].found = cs[n].found
  /\ zs[l].ip = cs[l].ip + 1 /\ \A n \in 1 .. l : n # l => zs[n].ip = cs[n].ip

\* The calls after the innermost one has called another word.
LEMMA CallIs ==
  ASSUME NEW p, NEW cs \in Calls(p), NEW l \in Nat \ {0}, l = Len(cs),
         NEW w \in Names(p), NEW d \in Seq(Value),
         NEW zs, zs = Append([cs EXCEPT ![Len(cs)].ip = @ + 1], Call_Frame(w, 0, d))
  PROVE  Entered_By(p, cs, zs, l, w, d)
<1>1. PICK R : R = [word : Names(p), ip : Nat, found : Seq(Value)]
  OBVIOUS
<1>2. cs \in Seq(R) /\ l \in 1 .. Len(cs)
  BY <1>1, SMT DEF Calls
<1>3. cs[l] \in R
  BY <1>2, SeqElement
<1>4. PICK ip : ip = cs[l].ip + 1
  OBVIOUS
<1>5. ip \in Nat
  BY <1>1, <1>3, <1>4, SMT
<1>6. PICK v, q : v = [cs EXCEPT ![l].ip = ip] /\ q = Call_Frame(w, 0, d)
  OBVIOUS
<1>7. zs = Append(v, q)
  BY <1>4, <1>6
<1>8. /\ v \in Calls(p) /\ Len(v) = l
      /\ \A n \in 1 .. l : v[n].word = cs[n].word /\ v[n].found = cs[n].found
      /\ v[l].ip = ip /\ \A n \in 1 .. l : n # l => v[n].ip = cs[n].ip
  <2>1. Moved(p, cs, v, l, ip)
    BY <1>5, <1>6, MoveIs
  <2> QED BY <2>1 DEF Moved
<1>9. q \in R /\ q.word = w /\ q.ip = 0 /\ q.found = d
  <2>1. 0 \in Nat
    BY SMT
  <2> QED BY <1>1, <1>6, <2>1 DEF Call_Frame
<1>10. /\ zs \in Seq(R) /\ Len(zs) = Len(v) + 1 /\ zs[Len(v) + 1] = q
       /\ \A n \in 1 .. Len(v) : zs[n] = v[n]
  <2>1. v \in Seq(R)
    BY <1>1, <1>8 DEF Calls
  <2>2. /\ Append(v, q) \in Seq(R) /\ Len(Append(v, q)) = Len(v) + 1
        /\ Append(v, q)[Len(v) + 1] = q
        /\ \A n \in 1 .. Len(v) : Append(v, q)[n] = v[n]
    BY <1>9, <2>1, SeqAppend, SMT
  <2> QED BY <1>7, <2>2
<1>11. zs[l + 1] = q /\ \A n \in 1 .. l : zs[n] = v[n]
  BY <1>8, <1>10
<1>12. zs \in Calls(p) /\ Len(zs) = l + 1
  BY <1>1, <1>8, <1>10 DEF Calls
<1>13. \A n \in 1 .. l : zs[n].word = cs[n].word /\ zs[n].found = cs[n].found
  BY <1>8, <1>11
<1>14. zs[l].ip = cs[l].ip + 1 /\ \A n \in 1 .. l : n # l => zs[n].ip = cs[n].ip
  BY <1>2, <1>4, <1>8, <1>11
<1> QED BY <1>9, <1>11, <1>12, <1>13, <1>14 DEF Entered_By

\* How many slots a call has found below the inputs of its word.
Depth(p, c) == Len(c.found) - Len(Effect_Of(p, c.word).input)

\* Every slot below the inputs of a call with an effect is as it was found, or is
\* in W: it has been written through an address.
Found_Or_Written(p, cs, d, W) ==
  \A n \in 1 .. Len(cs) : cs[n].word \in Checked_Words(p) =>
    \A k \in 1 .. Depth(p, cs[n]) : k \in W \/ d[k] = cs[n].found[k]

\* It stays so when the m lowest slots change at most where H says, and no call
\* has found more than m slots.
LEMMA FoundMoves ==
  ASSUME NEW p, NEW cs, NEW zs, Len(zs) = Len(cs),
         \A n \in 1 .. Len(cs) : zs[n].word = cs[n].word /\ zs[n].found = cs[n].found,
         NEW m \in Nat,
         \A n \in 1 .. Len(cs) :
           cs[n].word \in Checked_Words(p) => Depth(p, cs[n]) \in Nat /\ Depth(p, cs[n]) <= m,
         NEW d, NEW e, NEW W, NEW H, \A j \in 1 .. m : j \in H \/ e[j] = d[j],
         Found_Or_Written(p, cs, d, W)
  PROVE  Found_Or_Written(p, zs, e, W \cup H)
<1>1. SUFFICES ASSUME NEW n \in 1 .. Len(zs), zs[n].word \in Checked_Words(p),
                      NEW j \in 1 .. Depth(p, zs[n])
               PROVE  j \in W \cup H \/ e[j] = zs[n].found[j]
  BY DEF Found_Or_Written
<1>2. /\ n \in 1 .. Len(cs) /\ cs[n].word \in Checked_Words(p)
      /\ zs[n].found = cs[n].found /\ Depth(p, zs[n]) = Depth(p, cs[n])
  BY <1>1 DEF Depth
<1>3. PICK k : k = Depth(p, cs[n])
  OBVIOUS
<1>4. j \in 1 .. k /\ k \in Nat /\ k <= m
  BY <1>1, <1>2, <1>3
<1>5. j \in 1 .. m
  BY <1>4, SMT
<1>6. j \in W \/ d[j] = cs[n].found[j]
  BY <1>2, <1>3, <1>4 DEF Found_Or_Written
<1> QED BY <1>2, <1>5, <1>6

\* It stays so for the calls that stay, and is so for one that begins now.
LEMMA FoundStays ==
  ASSUME NEW p, NEW cs, NEW zs, NEW d, NEW W, Found_Or_Written(p, cs, d, W),
         \A n \in 1 .. Len(zs) :
           \/ zs[n].found = d
           \/ n \in 1 .. Len(cs) /\ zs[n].word = cs[n].word /\ zs[n].found = cs[n].found
  PROVE  Found_Or_Written(p, zs, d, W)
<1>1. SUFFICES ASSUME NEW n \in 1 .. Len(zs), zs[n].word \in Checked_Words(p),
                      NEW j \in 1 .. Depth(p, zs[n])
               PROVE  j \in W \/ d[j] = zs[n].found[j]
  BY DEF Found_Or_Written
<1>2. CASE n \in 1 .. Len(cs) /\ zs[n].word = cs[n].word /\ zs[n].found = cs[n].found
  <2>1. Depth(p, zs[n]) = Depth(p, cs[n])
    BY <1>2 DEF Depth
  <2> QED BY <1>1, <1>2, <2>1 DEF Found_Or_Written
<1> QED BY <1>1, <1>2

\* The calls cs and the data stack d are those of the machine, but for what was
\* written through addresses.
Shadows(cs, d) ==
  /\ calls \in Calls(prog) /\ data \in Seq(Value)
  /\ Len(cs) = Len(calls) /\ Len(d) = Len(data)
  /\ \A n \in 1 .. Len(calls) : /\ cs[n].word = calls[n].word /\ cs[n].ip = calls[n].ip
                                /\ Len(cs[n].found) = Len(calls[n].found)
  /\ written = {} => cs = calls /\ d = data
  /\ Found_Or_Written(prog, calls, data, written)

\* What is known of the machine between two instructions.
At_Work(G, T, cs, d, l, g, b, c) ==
  /\ l \in Nat \ {0}
  /\ l = Len(cs) /\ l = Len(calls) /\ g = T[l].walk /\ b = T[l].under /\ c = cs[l]
  /\ Active = calls[l] /\ Active.word = c.word /\ Active.ip = c.ip
  /\ Len(Active.found) = Len(c.found)
  /\ c \in [word : Names(prog), ip : Nat, found : Seq(Value)]
  /\ c.word = g.word /\ g \in G /\ b \in Seq(Value) /\ Follows(prog, g, b, d, c.ip)
  /\ Closed(prog, G) /\ prog \in Programs /\ Thread(prog, G, T[l], c)
  /\ Finished <=> Ends(prog, g.word, c.ip)
  /\ ~Finished => Runs_At(prog, G, g, b, d, c.ip, Instr)

\* The machine executes the innermost call.
LEMMA RunningAt ==
  ASSUME NEW G, NEW T, NEW cs, NEW d, Runs(prog, G, T, cs, d), Shadows(cs, d)
  PROVE  \E l, g, b, c : At_Work(G, T, cs, d, l, g, b, c)
<1>0. PICK l, g, b, c : Innermost(prog, G, T, cs, d, l, g, b, c)
  BY RunsTop
<1>1. /\ l \in Nat \ {0}
      /\ l = Len(cs) /\ g = T[l].walk /\ b = T[l].under /\ c = cs[l]
      /\ c \in [word : Names(prog), ip : Nat, found : Seq(Value)]
      /\ prog \in Programs /\ Closed(prog, G) /\ g \in G /\ Is_Walk(prog, G, g) /\ c.word = g.word
      /\ b \in Seq(Value) /\ Follows(prog, g, b, d, c.ip) /\ Thread(prog, G, T[l], c)
  BY <1>0 DEF Innermost
<1>2. /\ l = Len(calls) /\ Active = calls[l] /\ Active.word = c.word /\ Active.ip = c.ip
      /\ Len(Active.found) = Len(c.found)
  <2>1. l = Len(calls) /\ l \in 1 .. l
    BY <1>1, SMT DEF Shadows
  <2>2. Active = calls[l]
    BY <2>1 DEF Active, Top
  <2> QED BY <1>1, <2>1, <2>2 DEF Shadows
<1>3. Code_Of = Text(prog, g.word)
  BY <1>1, <1>2 DEF Code_Of, Body, Text
<1>4. PICK ip, k : ip = c.ip /\ k = Len(Text(prog, g.word))
  OBVIOUS
<1>5. ip \in 0 .. k
  <2>1. Follows(prog, g, b, d, ip)
    BY <1>1, <1>4
  <2> QED BY <1>1, <1>4, <2>1, FollowsAt DEF Stands
<1>6. k \in Nat
  <2>1. PICK t : t = Text(prog, g.word)
    OBVIOUS
  <2>2. g.word \in Names(prog)
    BY <1>1 DEF Is_Walk
  <2>3. Is_Body(t, DOMAIN prog.words)
    BY <1>1, <2>1, <2>2, ProgramsAssumption DEF Text, Names
  <2>4. t \in Seq([kind : Operation_Kind, arg : STRING, jump : 0 .. Len(t) \cup {Empty_Jump}])
    BY <2>3 DEF Is_Body
  <2> QED BY <1>4, <2>1, <2>4, SMT
<1>7. Instr = At(Text(prog, g.word), c.ip)
  BY <1>2, <1>3 DEF Instr
<1>8. Finished <=> Ends(prog, g.word, c.ip)
  <2>1. ip = k <=> ip >= k
    BY <1>5, <1>6, SMT
  <2>2. Finished <=> IF c.ip = Len(Text(prog, g.word)) THEN TRUE ELSE Instr.kind = "Return"
    BY <1>2, <1>3 DEF Finished
  <2> QED BY <1>4, <1>7, <2>1, <2>2 DEF Ends
<1>9. ~Finished => Runs_At(prog, G, g, b, d, c.ip, Instr)
  BY <1>1, <1>7, <1>8 DEF Runs_At
<1>10. At_Work(G, T, cs, d, l, g, b, c)
  BY <1>1, <1>2, <1>8, <1>9 DEF At_Work
<1> QED BY <1>10

\* What a call with an effect has found below its inputs is what is under its
\* thread, and under the innermost one.
LEMMA KeptUnder ==
  ASSUME NEW G, NEW T, NEW cs, NEW d, Runs(prog, G, T, cs, d), Shadows(cs, d),
         NEW n \in 1 .. Len(calls), calls[n].word \in Promised(prog)
  PROVE  /\ Kept(calls[n]) = Depth(prog, calls[n])
         /\ Depth(prog, calls[n]) \in Nat /\ Len(T[Len(cs)].under) \in Nat
         /\ Depth(prog, calls[n]) = Len(T[n].under)
         /\ Depth(prog, calls[n]) <= Len(T[Len(cs)].under)
<1>1. PICK l, c, a, b, in, i : /\ l = Len(cs) /\ c = cs[n] /\ a = T[n].under /\ b = T[l].under
                               /\ in = T[n].in /\ i = T[n].walk.input
  OBVIOUS
<1>2. l \in Nat \ {0} /\ n \in 1 .. l /\ l \in 1 .. l
  <2>1. l \in Nat \ {0}
    BY <1>1, SMT DEF Runs, Calls
  <2> QED BY <1>1, <2>1, SMT DEF Shadows
<1>3. Thread(prog, G, T[n], c) /\ Thread(prog, G, T[l], cs[l]) /\ Below(a, b)
  BY <1>1, <1>2 DEF Runs
<1>4. c.word = calls[n].word /\ Len(c.found) = Len(calls[n].found)
  BY <1>1 DEF Shadows
<1>5. /\ a \in Seq(Value) /\ b \in Seq(Value) /\ in \in Seq(Value)
      /\ c.found = Join(a, in) /\ Like(prog, i, in) /\ i = Effect_Of(prog, c.word).input
  BY <1>1, <1>3, <1>4 DEF Thread
<1>6. Len(c.found) = Len(a) + Len(in) /\ Len(a) \in Nat /\ Len(in) \in Nat /\ Len(i) = Len(in)
  <2>1. Len(Join(a, in)) = Len(a) + Len(in) /\ Len(a) \in Nat /\ Len(in) \in Nat
    BY <1>5, JoinIs
  <2> QED BY <1>5, <2>1 DEF Like
<1>7. Len(a) <= Len(b) /\ Len(b) \in Nat
  <2>1. PICK m \in Seq(Value) : b = Join(a, m)
    BY <1>3 DEF Below
  <2>2. Len(b) = Len(a) + Len(m) /\ Len(m) \in Nat
    BY <1>5, <2>1, JoinIs
  <2> QED BY <1>6, <2>2, SMT
<1>8. Len(calls[n].found) - Len(i) = Len(a)
  BY <1>4, <1>6, SMT
<1>9. Depth(prog, calls[n]) = Len(a)
  BY <1>4, <1>5, <1>8 DEF Depth
<1>10. Kept(calls[n]) = Depth(prog, calls[n])
  BY DEF Kept, Declared, Depth, Effect_Of
<1> QED BY <1>1, <1>6, <1>7, <1>9, <1>10

\* The machine runs along the walks of some certificate, but for what was written
\* through addresses.
Runs_Along == \E G, T, cs, d : Runs(prog, G, T, cs, d) /\ Shadows(cs, d)

\* Every step of the machine keeps it on the walks.
LEMMA ExecuteKeeps ==
  /\ Runs_Along /\ machine = "running"
  /\ \/ Run_Push \/ Run_Cast \/ Run_Intrinsic_Code \/ Run_Branch \/ Run_Jump \/ Run_While
     \/ Run_Call \/ Run_Return \/ Exit
  => Runs_Along'
\* Two stacks as they are told apart, after a push and after a pop.
<1>LikePush.
    ASSUME NEW p, NEW A, NEW B, NEW s \in Seq(A), NEW t \in Seq(B), Like(p, s, t),
           NEW a \in A, NEW b \in B, Anyless(p) => a = b
    PROVE  Like(p, Pushed(s, a), Pushed(t, b))
  <2> USE <1>LikePush
  <2>1. Len(Pushed(s, a)) = Len(s) + 1 /\ Len(Pushed(t, b)) = Len(t) + 1
    BY PushIs
  <2> QED BY <2>1 DEF Like

\* A push is followed by the walk.
<1>PushFollows.
    ASSUME NEW p, NEW G, NEW g, NEW b, NEW d, NEW ip, NEW op, Runs_At(p, G, g, b, d, ip, op),
           op.kind \in {"Push_Int", "Push_Symbol"}
    PROVE  /\ Follows(p, g, b, Pushed(d, IF op.kind = "Push_Int" THEN op.arg ELSE "Pointer"), ip + 1)
           /\ (IF op.kind = "Push_Int" THEN op.arg ELSE "Pointer") \in Value
  <2> USE <1>PushFollows
  <2>1. PICK u \in Seq(Value), x \in g.points :
          /\ d = Join(b, u) /\ x.ip = ip /\ Like(p, x.stack, u) /\ x.stack \in Seq(Slots(p))
          /\ Passes(p, G, g.points, x, op)
          /\ op.kind = "Push_Int" => op.arg \in {"Int", "Bool"}
    BY RunsAt, SMT
  <2>2. PICK v : v = IF op.kind = "Push_Int" THEN op.arg ELSE "Pointer"
    OBVIOUS
  <2>3. v \in Value /\ v \in Slots(p)
    BY <2>1, <2>2, SlotsAre DEF Value, Type
  <2>4. Covered(p, g.points, Pushed(x.stack, v), ip + 1)
    BY <2>1, <2>2 DEF Passes
  <2>5. PICK s : s = x.stack
    OBVIOUS
  <2>6. Like(p, Pushed(s, v), Pushed(u, v))
    BY <2>1, <2>3, <2>5, <1>LikePush
  <2>7. Covered(p, g.points, Pushed(u, v), ip + 1)
    BY <2>4, <2>5, <2>6, CoveredLike
  <2>8. Pushed(d, v) = Join(b, Pushed(u, v)) /\ Pushed(u, v) \in Seq(Value)
    <3>1. b \in Seq(Value)
      BY DEF Runs_At
    <3> QED BY <2>1, <2>3, <3>1, JoinPush, PushIs, SMT
  <2>9. Follows(p, g, b, Join(b, Pushed(u, v)), ip + 1)
    BY <2>7, <2>8, FollowsIs
  <2> QED BY <2>2, <2>3, <2>8, <2>9

\* A cast is followed by the walk: it emits nothing, and changes what is known
\* of the top value.
<1>CastFollows.
    ASSUME NEW p, NEW G, NEW g, NEW b, NEW d, NEW ip, NEW op, Runs_At(p, G, g, b, d, ip, op),
           op.kind = "Cast"
    PROVE  /\ Follows(p, g, b, IF op.arg = "Any" THEN d ELSE Pushed(Pop(d), op.arg), ip + 1)
           /\ op.arg \in Type /\ Len(b) + 1 <= Len(d)
  <2> USE <1>CastFollows
  <2> PICK u \in Seq(Value), x \in g.points :
        /\ d = Join(b, u) /\ x.ip = ip /\ Like(p, x.stack, u) /\ x.stack \in Seq(Slots(p))
        /\ Passes(p, G, g.points, x, op)
        /\ op.arg \in Type
        /\ Anyless(p) => op.arg # "Any"
    BY RunsAt, SMT
  <2> PICK s, a : s = x.stack /\ a = op.arg
    OBVIOUS
  <2> s \in Seq(Slots(p)) /\ s # <<>> /\ Covered(p, g.points, Pushed(Pop(s), a), ip + 1)
      /\ Like(p, s, u)
    BY DEF Passes
  <2> /\ u # <<>> /\ Pop(u) \in Seq(Value) /\ Pop(s) \in Seq(Slots(p)) /\ Top(u) \in Value
      /\ Like(p, Pop(s), Pop(u))
    BY LikePop
  <2>5. a \in Slots(p)
    BY DEF Slots, Value
  <2>6. b \in Seq(Value)
    BY DEF Runs_At
  <2>9. Len(b) + 1 <= Len(d)
    <3>1. Len(d) = Len(b) + Len(u) /\ Len(b) \in Nat /\ Len(u) \in Nat \ {0}
      BY <2>6, JoinIs, SeqEmpty
    <3> QED BY <3>1, SMT
  <2>7. CASE a = "Any"
    <3>1. ~Anyless(p)
      BY <2>7
    <3>2. Len(Pushed(Pop(s), a)) = Len(Pop(s)) + 1 /\ Len(Pop(s)) = Len(s) - 1 /\ Len(s) \in Nat
      <4> PICK v : v = Pop(s)
        OBVIOUS
      <4>2. Len(Pushed(v, a)) = Len(v) + 1
        BY <2>5, PushIs
      <4>3. Len(v) = Len(s) - 1 /\ Len(s) \in Nat
        BY StackPop
      <4> QED BY <4>2, <4>3
    <3>3. Like(p, Pushed(Pop(s), a), u)
      BY <3>1, <3>2, SMT DEF Like
    <3>4. Covered(p, g.points, u, ip + 1)
      BY <3>3, CoveredLike
    <3> QED BY <2>7, <2>9, <3>4 DEF Follows
  <2>8. CASE a # "Any"
    <3>1. a \in Value
      BY <2>8 DEF Value
    <3>2. Like(p, Pushed(Pop(s), a), Pushed(Pop(u), a))
      BY <2>5, <3>1, <1>LikePush
    <3>3. Covered(p, g.points, Pushed(Pop(u), a), ip + 1)
      BY <3>2, CoveredLike
    <3>4. Pop(d) = Join(b, Pop(u))
      BY <2>6, JoinPop
    <3> PICK v : v = Pop(u)
      OBVIOUS
    <3>6. Pushed(Join(b, v), a) = Join(b, Pushed(v, a)) /\ Pushed(v, a) \in Seq(Value)
      <4>1. v \in Seq(Value)
        OBVIOUS
      <4>2. Pushed(Join(b, v), a) = Join(b, Pushed(v, a))
        BY <2>6, <3>1, <4>1, JoinPush, SMT
      <4> QED BY <3>1, <4>1, <4>2, PushIs
    <3> QED BY <2>8, <2>9, <3>3, <3>4, <3>6 DEF Follows
  <2> QED BY <2>7, <2>8

\* A jump and a `while` are followed by the walk.
<1>JumpFollows.
    ASSUME NEW p, NEW G, NEW g, NEW b, NEW d, NEW ip, NEW op, Runs_At(p, G, g, b, d, ip, op)
    PROVE  /\ op.kind \in {"Else", "End"} => Follows(p, g, b, d, op.jump)
           /\ op.kind = "While" => Follows(p, g, b, d, ip + 1)
  <2> USE <1>JumpFollows
  <2> PICK u \in Seq(Value), x \in g.points :
        /\ d = Join(b, u) /\ x.ip = ip /\ Like(p, x.stack, u) /\ x.stack \in Seq(Slots(p))
        /\ Passes(p, G, g.points, x, op)
    BY RunsAt, SMT
  <2> PICK s : s = x.stack
    OBVIOUS
  <2>3. \A k : Covered(p, g.points, s, k) => Covered(p, g.points, u, k)
    BY CoveredLike
  <2>4. /\ op.kind \in {"Else", "End"} => Covered(p, g.points, s, op.jump)
        /\ op.kind = "While" => Covered(p, g.points, s, ip + 1)
    BY DEF Passes
  <2> QED BY <2>3, <2>4 DEF Follows

\* Stacks that are alike stay so on top of stacks that are alike.
<1>LikeJoin.
    ASSUME NEW p, NEW A, NEW B, NEW C, NEW D, NEW s \in Seq(A), NEW t \in Seq(B), Like(p, s, t),
           NEW m \in Seq(C), NEW n \in Seq(D), Like(p, m, n)
    PROVE  Like(p, Join(m, s), Join(n, t))
  <2> USE <1>LikeJoin
  <2>1. PICK T : T = A \cup B \cup C \cup D
    OBVIOUS
  <2>2. s \in Seq(T) /\ t \in Seq(T) /\ m \in Seq(T) /\ n \in Seq(T)
    BY <2>1, SeqWider, SMT
  <2>3. Len(Join(m, s)) = Len(m) + Len(s) /\ Len(Join(n, t)) = Len(n) + Len(t)
    BY <2>2, JoinIs, ZenonT(30)
  <2>4. Len(m) = Len(n) /\ Len(s) = Len(t) /\ (Anyless(p) => m = n /\ s = t)
    BY DEF Like
  <2> QED BY <2>3, <2>4 DEF Like

\* A walk that is ready begins.
<1>BeginsIs.
    ASSUME NEW p, NEW G, NEW g, NEW b, NEW P, NEW m, NEW in, NEW ip,
           Ready(p, G, g, b, P, m, in, ip)
    PROVE  \E v : v.walk = g /\ Begins(p, G, b, P, v, Join(b, Join(m, in)), ip)
  <2> USE <1>BeginsIs
  <2> /\ b \in Seq(Value) /\ m \in Seq(Value) /\ in \in Seq(Value)
      /\ g \in G /\ Is_Walk(p, G, g) /\ Like(p, g.input, in)
      /\ Covered(p, P, Join(m, g.output), ip)
      /\ g.word \in Promised(p) =>
           g.input = Effect_Of(p, g.word).input /\ g.output = Effect_Of(p, g.word).output
    BY DEF Ready
  <2> PICK c : c = Join(b, m) /\ c \in Seq(Value)
    BY JoinIs
  <2> PICK d : d = Join(c, in) /\ d = Join(b, Join(m, in))
    BY JoinAssociative, SMT
  <2>4. PICK v : v = [walk |-> g, under |-> c, in |-> in]
    OBVIOUS
  <2> v.walk = g /\ v.under = c /\ v.in = in
    BY <2>4
  <2>6. Thread(p, G, v, Call_Frame(v.walk.word, 0, d))
    <3> PICK f : f = Call_Frame(v.walk.word, 0, d)
      OBVIOUS
    <3>2. f.word = g.word /\ f.found = Join(v.under, v.in)
      BY DEF Call_Frame
    <3>3. v.walk \in G /\ v.under \in Seq(Value) /\ v.in \in Seq(Value)
          /\ Like(p, v.walk.input, v.in)
      OBVIOUS
    <3>4. f.word \in Promised(p) => /\ v.walk.input = Effect_Of(p, f.word).input
                                   /\ v.walk.output = Effect_Of(p, f.word).output
      BY <3>2
    <3>5. Thread(p, G, v, f)
      BY <3>2, <3>3, <3>4 DEF Thread
    <3> QED BY <3>5
  <2>7. Link(p, b, P, v, ip)
    BY DEF Link
  <2>8. Covered(p, g.points, in, 0)
    <3>1. State(g.input, 0) \in g.points
      BY DEF Is_Walk
    <3>2. State(g.input, 0).ip = 0 /\ State(g.input, 0).stack = g.input
      BY DEF State
    <3> QED BY <3>1, <3>2 DEF Covered
  <2>9. Follows(p, v.walk, v.under, d, 0)
    <3>1. Follows(p, g, c, Join(c, in), 0)
      BY <2>8, FollowsIs
    <3> QED BY <3>1
  <2> QED BY <2>6, <2>7, <2>9 DEF Begins

\* A call begins a walk of the word it names: the one that was made for a
\* dynamically typed word on this typestack, or else the one of its effect.
<1>CallFollows.
    ASSUME NEW p, NEW G, NEW g, NEW b, NEW d, NEW ip, NEW op,
           Runs_At(p, G, g, b, d, ip, op), op.kind = "Call_Symbol", Certificate(p, G)
    PROVE  \E v : v.walk.word = op.arg /\ Begins(p, G, b, g.points, v, d, ip + 1)
  <2> USE <1>CallFollows
  <2>3. PICK u \in Seq(Value), x \in g.points :
          /\ d = Join(b, u) /\ x.ip = ip /\ Like(p, x.stack, u) /\ x.stack \in Seq(Slots(p))
          /\ Passes(p, G, g.points, x, op)
          /\ op.arg \in DOMAIN p.words
    BY RunsAt, SMT
  <2>4. PICK s, w : s = x.stack /\ w = op.arg
    OBVIOUS
  <2>5. b \in Seq(Value) /\ p \in Programs /\ w \in DOMAIN p.words /\ s \in Seq(Slots(p))
        /\ Like(p, s, u)
    BY <2>3, <2>4 DEF Runs_At
  <2>6. w # "main"
    BY <2>5, ProgramsAssumption
  <2>7. CASE /\ p.words[w].dynamic
             /\ \E h \in G : h.word = w /\ h.input = s /\ Covered(p, g.points, h.output, ip + 1)
    <3>1. PICK h \in G : h.word = w /\ h.input = s /\ Covered(p, g.points, h.output, ip + 1)
      BY <2>7
    <3>2. Is_Walk(p, G, h)
      BY DEF Certificate, Closed
    <3>3. h.output \in Seq(Slots(p))
      BY <3>2 DEF Is_Walk, Stacks
    <3>4. PICK m : m = <<>>
      OBVIOUS
    <3>5. m \in Seq(Value) /\ Join(m, u) = u /\ Join(m, h.output) = h.output
      BY <3>3, <3>4, JoinEmpty, SeqEmpty
    <3>6. h.word \notin Promised(p)
      BY <2>6, <2>7, <3>1 DEF Promised, Checked_Words
    <3>7. PICK n, P, o : n = ip + 1 /\ P = g.points /\ o = h.output
      OBVIOUS
    <3>8. Covered(p, P, Join(m, o), n) /\ Like(p, s, u) /\ h.input = s
      BY <2>5, <3>1, <3>5, <3>7
    <3>9. Ready(p, G, h, b, P, m, u, n)
      BY <2>5, <3>2, <3>5, <3>6, <3>7, <3>8 DEF Ready
    <3>10. \E v : v.walk = h /\ Begins(p, G, b, P, v, Join(b, Join(m, u)), n)
      BY <3>9, <1>BeginsIs
    <3> QED BY <2>3, <2>4, <3>1, <3>5, <3>7, <3>10
  <2>8. CASE LET e == p.words[w].effect
             IN /\ w \in Checked_Words(p)
                /\ Len(e.input) <= Len(s)
                /\ Anyless(p) => Upper(s, Len(e.input)) = e.input
                /\ Covered(p, g.points, Join(Lower(s, Len(e.input)), e.output), ip + 1)
    <3>1. PICK i, o : i = p.words[w].effect.input /\ o = p.words[w].effect.output
      OBVIOUS
    <3>2. i \in Seq(Type) /\ o \in Seq(Type)
      BY <2>5, <3>1, ProgramsAssumption
    <3>3. PICK k \in Nat : k = Len(i)
      BY <3>2, SMT
    <3>4. /\ w \in Checked_Words(p) /\ k <= Len(s) /\ (Anyless(p) => Upper(s, k) = i)
          /\ Covered(p, g.points, Join(Lower(s, k), o), ip + 1)
      BY <2>8, <3>1, <3>3
    <3>5. Len(s) = Len(u) /\ (Anyless(p) => s = u)
      BY <2>5 DEF Like
    <3>6. k <= Len(u)
      BY <3>4, <3>5
    <3>7. PICK m, in, l : m = Lower(u, k) /\ in = Upper(u, k) /\ l = Lower(s, k)
      OBVIOUS
    <3>8. /\ m \in Seq(Value) /\ in \in Seq(Value) /\ Len(in) = k /\ Join(m, in) = u
          /\ l \in Seq(Slots(p)) /\ Len(l) = Len(m)
      <4>1. m \in Seq(Value) /\ in \in Seq(Value) /\ Len(in) = k /\ Len(m) = Len(u) - k
        BY <3>6, <3>7, Split
      <4>2. l \in Seq(Slots(p)) /\ Len(l) = Len(s) - k
        BY <2>5, <3>4, <3>7, Split
      <4>3. Join(m, in) = u
        BY <3>6, <3>7, SplitJoin
      <4> QED BY <3>5, <4>1, <4>2, <4>3
    <3>9. Like(p, i, in)
      BY <3>3, <3>4, <3>5, <3>7, <3>8 DEF Like
    <3>10. Like(p, l, m)
      BY <3>5, <3>7, <3>8 DEF Like
    <3>11. Like(p, Join(l, o), Join(m, o))
      <4>1. Like(p, o, o)
        BY DEF Like
      <4> QED BY <3>2, <3>8, <3>10, <4>1, <1>LikeJoin
    <3>12. PICK n : n = ip + 1
      OBVIOUS
    <3>13. Covered(p, g.points, Join(m, o), n)
      BY <3>4, <3>7, <3>11, <3>12, CoveredLike
    <3>14. Has_Walk(p, G, w)
      BY <3>4 DEF Certificate, Promised
    <3>15. Effect_Of(p, w).input = i /\ Effect_Of(p, w).output = o
      BY <2>6, <3>1 DEF Effect_Of
    <3>16. PICK h \in G : h.word = w /\ h.input = i /\ h.output = o
      BY <3>14, <3>15 DEF Has_Walk
    <3>17. Is_Walk(p, G, h)
      BY DEF Certificate, Closed
    <3>18. PICK P : P = g.points
      OBVIOUS
    <3>19. Covered(p, P, Join(m, o), n)
      BY <3>13, <3>18
    <3>20. h.word \in Promised(p) =>
             i = Effect_Of(p, h.word).input /\ o = Effect_Of(p, h.word).output
      BY <3>15, <3>16
    <3>21. Ready(p, G, h, b, P, m, in, n)
      BY <2>5, <3>8, <3>9, <3>16, <3>17, <3>19, <3>20 DEF Ready
    <3>22. \E v : v.walk = h /\ Begins(p, G, b, P, v, Join(b, Join(m, in)), n)
      BY <3>21, <1>BeginsIs
    <3> QED BY <2>3, <2>4, <3>8, <3>12, <3>16, <3>18, <3>22
  <2> QED
    <3>1. Passes(p, G, g.points, x, op) /\ x.ip = ip /\ x.stack = s /\ op.arg = w
      BY <2>3, <2>4
    <3> QED BY <2>7, <2>8, <3>1 DEF Passes

\* A step within the innermost call keeps the threads.
<1>RunsOn.
    ASSUME NEW p, NEW G, NEW T, NEW cs, NEW d, Runs(p, G, T, cs, d),
           NEW l, NEW cs2 \in Calls(p), Stays(cs, cs2, l),
           NEW d2, Follows(p, T[l].walk, T[l].under, d2, cs2[l].ip)
    PROVE  Runs(p, G, T, cs2, d2)
  <2> USE <1>RunsOn
  <2> l \in Nat \ {0} /\ l = Len(cs) /\ l = Len(cs2)
    BY SMT DEF Runs, Calls, Stays
  <2>2. ASSUME NEW n \in 1 .. l PROVE Thread(p, G, T[n], cs2[n])
    <3>1. Thread(p, G, T[n], cs[n])
      BY DEF Runs
    <3>2. cs2[n].word = cs[n].word /\ cs2[n].found = cs[n].found
      BY SMT DEF Stays
    <3> QED BY <3>1, <3>2 DEF Thread
  <2>3. ASSUME NEW n \in 1 .. l - 1
        PROVE  Link(p, T[n].under, T[n].walk.points, T[n + 1], cs2[n].ip)
    <3>1. cs2[n] = cs[n]
      BY DEF Stays
    <3> QED BY <3>1 DEF Runs
  <2>4. p \in Programs /\ Certificate(p, G)
        /\ \A k \in 1 .. Len(cs2) : \A n \in 1 .. k : Below(T[n].under, T[k].under)
    BY DEF Runs
  <2> QED BY <2>2, <2>3, <2>4 DEF Runs

\* One more call has one more thread.
<1>RunsInto.
    ASSUME NEW p, NEW G, NEW T, NEW cs, NEW d, Runs(p, G, T, cs, d),
           NEW l, NEW cs2 \in Calls(p), NEW v, Grows(cs, cs2, l, Call_Frame(v.walk.word, 0, d)),
           Begins(p, G, T[l].under, T[l].walk.points, v, d, cs2[l].ip)
    PROVE  \E U : Runs(p, G, U, cs2, d)
  <2> USE <1>RunsInto
  <2>1. l \in Nat \ {0} /\ l = Len(cs) /\ Len(cs2) = l + 1
    BY SMT DEF Runs, Calls, Grows
  <2>2. PICK U : U = [n \in 1 .. l + 1 |-> IF n = l + 1 THEN v ELSE T[n]]
    OBVIOUS
  <2>3. U[l + 1] = v /\ \A n \in 1 .. l : U[n] = T[n]
    BY <2>1, <2>2, SMT
  <2>4. ASSUME NEW n \in 1 .. l + 1 PROVE Thread(p, G, U[n], cs2[n])
    <3>1. CASE n = l + 1
      <4>1. cs2[n] = Call_Frame(v.walk.word, 0, d) /\ Thread(p, G, v, Call_Frame(v.walk.word, 0, d))
        BY <3>1 DEF Grows, Begins
      <4> QED BY <2>3, <3>1, <4>1
    <3>2. CASE n # l + 1
      <4>1. n \in 1 .. l
        BY <2>1, <3>2, SMT
      <4>2. Thread(p, G, T[n], cs[n])
        BY <2>1, <4>1 DEF Runs
      <4>3. cs2[n].word = cs[n].word /\ cs2[n].found = cs[n].found
        BY <2>1, <4>1, SMT DEF Grows
      <4>4. Thread(p, G, T[n], cs2[n])
        BY <4>2, <4>3 DEF Thread
      <4> QED BY <2>3, <4>1, <4>4
    <3> QED BY <3>1, <3>2
  <2>5. ASSUME NEW n \in 1 .. l
        PROVE  Link(p, U[n].under, U[n].walk.points, U[n + 1], cs2[n].ip)
    <3>1. CASE n = l
      <4>1. Link(p, T[l].under, T[l].walk.points, v, cs2[l].ip)
        BY DEF Begins
      <4> QED BY <2>3, <3>1, <4>1
    <3>2. CASE n # l
      <4>1. n \in 1 .. l - 1 /\ n + 1 \in 1 .. l
        BY <2>1, <3>2, SMT
      <4>2. Link(p, T[n].under, T[n].walk.points, T[n + 1], cs[n].ip) /\ cs2[n] = cs[n]
        BY <2>1, <4>1 DEF Runs, Grows
      <4> QED BY <2>3, <4>1, <4>2
    <3> QED BY <3>1, <3>2
  <2>6. v.under \in Seq(Value) /\ \A n \in 1 .. l : T[n].under \in Seq(Value)
    <3>1. \A n \in 1 .. l : Thread(p, G, T[n], cs[n])
      BY <2>1 DEF Runs
    <3> QED BY <3>1 DEF Thread, Begins
  <2>7. ASSUME NEW k \in 1 .. l + 1, NEW n \in 1 .. k
        PROVE  Below(U[n].under, U[k].under)
    <3>1. CASE k \in 1 .. l
      <4>1. n \in 1 .. l
        BY <2>1, <3>1, SMT
      <4>2. Below(T[n].under, T[k].under)
        BY <2>1, <3>1 DEF Runs
      <4> QED BY <2>3, <3>1, <4>1, <4>2
    <3>2. CASE n = l + 1
      <4>1. k = l + 1 /\ Below(v.under, v.under)
        BY <2>1, <2>6, <3>2, BelowItself, SMT
      <4> QED BY <2>3, <3>2, <4>1
    <3>3. CASE k = l + 1 /\ n # l + 1
      <4>1. n \in 1 .. l /\ l \in 1 .. l /\ n \in 1 .. l
        BY <2>1, <3>3, SMT
      <4>2. PICK a, b, c : a = T[n].under /\ b = T[l].under /\ c = v.under
        OBVIOUS
      <4>3. a \in Seq(Value) /\ b \in Seq(Value) /\ Below(a, b)
        BY <2>1, <2>6, <4>1, <4>2 DEF Runs
      <4>4. PICK m \in Seq(Value) : c = Join(b, m)
        BY <4>2 DEF Begins, Link
      <4>5. Below(a, c)
        BY <4>3, <4>4, BelowJoin
      <4> QED BY <2>3, <3>3, <4>1, <4>2, <4>5
    <3> QED BY <2>1, <3>1, <3>2, <3>3, SMT
  <2>8. Follows(p, U[l + 1].walk, U[l + 1].under, d, cs2[l + 1].ip)
    <3>1. Follows(p, v.walk, v.under, d, 0) /\ cs2[l + 1] = Call_Frame(v.walk.word, 0, d)
      BY DEF Begins, Grows
    <3>2. cs2[l + 1].ip = 0
      BY <3>1, SMT DEF Call_Frame
    <3> QED BY <2>3, <3>1, <3>2
  <2>9. p \in Programs /\ Certificate(p, G) /\ Len(cs2) - 1 = l /\ Len(cs2) >= 1
    BY <2>1, SMT DEF Runs
  <2>10. Runs(p, G, U, cs2, d)
    BY <2>1, <2>4, <2>5, <2>7, <2>8, <2>9 DEF Runs
  <2> QED BY <2>10

\* The innermost call returns to the one that made it.
<1>RunsBack.
    ASSUME NEW p, NEW G, NEW T, NEW cs, NEW d, Runs(p, G, T, cs, d), NEW l, l = Len(cs), l > 1,
           Ends(p, cs[l].word, cs[l].ip),
           NEW cs2 \in Calls(p), Len(cs2) = l - 1, \A n \in 1 .. l - 1 : cs2[n] = cs[n]
    PROVE  Runs(p, G, T, cs2, d)
  <2> USE <1>RunsBack
  <2>1. l \in Nat \ {0, 1}
    BY SMT DEF Runs, Calls
  <2>2. PICK h \in Nat : h = l - 1 /\ h \in 1 .. l - 1 /\ h \in 1 .. l /\ h + 1 = l /\ l \in 1 .. l
    <3>1. l - 1 \in Nat /\ l - 1 \in 1 .. l - 1 /\ l - 1 \in 1 .. l /\ (l - 1) + 1 = l
          /\ l \in 1 .. l
      BY ONLY <2>1
    <3> QED BY <3>1
  <2>3. PICK g, b, ip : g = T[l].walk /\ b = T[l].under /\ ip = cs[l].ip
    OBVIOUS
  <2>4. PICK e, c, P, jp : e = T[h].walk /\ c = T[h].under /\ jp = cs[h].ip /\ P = e.points
    OBVIOUS
  <2>5. Thread(p, G, T[l], cs[l]) /\ Thread(p, G, T[h], cs[h]) /\ p \in Programs /\ Closed(p, G)
    BY <2>1, <2>2 DEF Runs, Certificate
  <2>6. g \in G /\ b \in Seq(Value) /\ c \in Seq(Value) /\ e \in G /\ cs[l].word = g.word
    BY <2>3, <2>4, <2>5 DEF Thread
  <2>7. Follows(p, g, b, d, ip)
    BY <2>3 DEF Runs
  <2>s. PICK u \in Seq(Value), x \in g.points : Stands(p, G, g, b, d, ip, u, x)
    BY <2>5, <2>6, <2>7, FollowsAt
  <2>8. /\ d = Join(b, u) /\ x.ip = ip /\ Like(p, x.stack, u)
        /\ x.stack \in Stacks(p)
        /\ Sound(p, G, g.points, Just(g.output), g.word, x)
    BY <2>s DEF Stands
  <2>9. PICK o : o = g.output
    OBVIOUS
  <2>10. Like(p, o, u) /\ o \in Seq(Slots(p))
    <3>1. Ends(p, g.word, x.ip)
      BY <2>3, <2>6, <2>8
    <3>2. Like(p, x.stack, o)
      BY <2>8, <2>9, <3>1 DEF Sound, Just
    <3>3. Is_Walk(p, G, g)
      BY <2>5, <2>6 DEF Closed
    <3>4. o \in Seq(Slots(p))
      BY <2>9, <3>3 DEF Is_Walk, Stacks
    <3> QED BY <2>8, <3>2, <3>4, LikeFacts
  <2>11. PICK m \in Seq(Value) : b = Join(c, m) /\ Covered(p, P, Join(m, o), jp)
    <3>1. Link(p, c, P, T[h + 1], jp)
      BY <2>1, <2>2, <2>4 DEF Runs
    <3> QED BY <2>2, <2>3, <2>9, <3>1 DEF Link
  <2>12. Like(p, Join(m, o), Join(m, u))
    <3>1. Like(p, m, m)
      BY DEF Like
    <3> QED BY <2>10, <3>1, <1>LikeJoin
  <2>13. Covered(p, P, Join(m, u), jp)
    BY <2>11, <2>12, CoveredLike
  <2>14. Join(m, u) \in Seq(Value) /\ Join(Join(c, m), u) = Join(c, Join(m, u))
    BY <2>6, JoinIs, JoinAssociative, SMT
  <2>15. Follows(p, e, c, d, jp)
    <3>1. Follows(p, e, c, Join(c, Join(m, u)), jp)
      BY <2>4, <2>13, <2>14, FollowsIs
    <3> QED BY <2>8, <2>11, <2>14, <3>1
  <2>16. cs2[h] = cs[h] /\ Len(cs2) = h
    BY <2>2
  <2>17. Follows(p, T[Len(cs2)].walk, T[Len(cs2)].under, d, cs2[Len(cs2)].ip)
    BY <2>4, <2>15, <2>16
  <2>18. \A n \in 1 .. Len(cs2) : Thread(p, G, T[n], cs2[n])
    BY <2>1, SMT DEF Runs
  <2>19. \A n \in 1 .. Len(cs2) - 1 : Link(p, T[n].under, T[n].walk.points, T[n + 1], cs2[n].ip)
    BY <2>1, SMT DEF Runs
  <2>20. \A k \in 1 .. Len(cs2) : \A n \in 1 .. k : Below(T[n].under, T[k].under)
    BY <2>1, SMT DEF Runs
  <2>21. p \in Programs /\ Certificate(p, G) /\ Len(cs2) >= 1
    BY <2>1, SMT DEF Runs
  <2> QED BY <2>17, <2>18, <2>19, <2>20, <2>21 DEF Runs

\* A step within the innermost call, as the actions make it.
<1>RunsMove.
    ASSUME NEW p, NEW G, NEW T, NEW cs, NEW d, Runs(p, G, T, cs, d),
           NEW ip, NEW d2, Follows(p, T[Len(cs)].walk, T[Len(cs)].under, d2, ip)
    PROVE  Runs(p, G, T, [cs EXCEPT ![Len(cs)].ip = ip], d2)
  <2> USE <1>RunsMove
  <2>0. PICK l, g, b, c : Innermost(p, G, T, cs, d, l, g, b, c)
    BY RunsTop
  <2>1. /\ l \in Nat \ {0}
        /\ l = Len(cs) /\ g = T[l].walk /\ b = T[l].under /\ c = cs[l]
        /\ c \in [word : Names(p), ip : Nat, found : Seq(Value)]
        /\ p \in Programs /\ Closed(p, G) /\ g \in G
    BY <2>0 DEF Innermost
  <2>2. Follows(p, g, b, d2, ip)
    BY <2>1
  <2>3. ip \in Nat
    <3>1. PICK k : k = Len(Text(p, g.word))
      OBVIOUS
    <3>2. ip \in 0 .. k
      BY <2>1, <2>2, <3>1, FollowsAt DEF Stands
    <3> QED BY <3>2, SMT
  <2>4. PICK a : a = [c EXCEPT !.ip = ip]
    OBVIOUS
  <2>5. /\ a \in [word : Names(p), ip : Nat, found : Seq(Value)]
        /\ a.word = c.word /\ a.found = c.found /\ a.ip = ip
    BY <2>1, <2>3, <2>4
  <2>6. PICK z : z = [cs EXCEPT ![Len(cs)].ip = ip]
    OBVIOUS
  <2>7. z = [cs EXCEPT ![l] = a]
    BY <2>1, <2>4, <2>6
  <2>8. PICK R : R = [word : Names(p), ip : Nat, found : Seq(Value)]
    OBVIOUS
  <2>9. cs \in Seq(R) /\ l \in 1 .. Len(cs)
    BY <2>1, <2>8, SMT DEF Runs, Calls
  <2>10. /\ z \in Seq(R) /\ Len(z) = Len(cs)
         /\ \A n \in 1 .. Len(cs) : z[n] = IF n = l THEN a ELSE cs[n]
    <3>1. a \in R
      BY <2>5, <2>8
    <3>2. /\ [cs EXCEPT ![l] = a] \in Seq(R) /\ Len([cs EXCEPT ![l] = a]) = Len(cs)
          /\ \A n \in 1 .. Len(cs) : [cs EXCEPT ![l] = a][n] = IF n = l THEN a ELSE cs[n]
      BY <2>9, <3>1, SeqExcept, SMT
    <3> QED BY <2>7, <3>2
  <2>11. z \in Calls(p)
    BY <2>8, <2>10 DEF Calls
  <2>12. Stays(cs, z, l) /\ z[l].ip = ip
    <3>1. z[l] = a /\ \A n \in 1 .. l - 1 : z[n] = cs[n]
      <4>1. \A n \in 1 .. l - 1 : n \in 1 .. Len(cs) /\ n # l
        BY <2>1, SMT
      <4> QED BY <2>9, <2>10, <4>1
    <3>2. l = Len(cs) /\ l = Len(z)
      BY <2>1, <2>10
    <3> QED BY <2>1, <2>5, <3>1, <3>2 DEF Stays
  <2>13. Follows(p, T[l].walk, T[l].under, d2, z[l].ip)
    BY <2>1, <2>2, <2>12
  <2>14. Runs(p, G, T, z, d2)
    BY <2>11, <2>12, <2>13, <1>RunsOn
  <2> QED BY <2>6, <2>14

\* A call, as Run_Call makes it.
<1>RunsCall.
    ASSUME NEW p, NEW G, NEW T, NEW cs, NEW d, Runs(p, G, T, cs, d), NEW l, l = Len(cs),
           NEW op, Runs_At(p, G, T[l].walk, T[l].under, d, cs[l].ip, op), op.kind = "Call_Symbol"
    PROVE  \E U : Runs(p, G, U, Append([cs EXCEPT ![Len(cs)].ip = @ + 1], Call_Frame(op.arg, 0, d)), d)
  <2> USE <1>RunsCall
  <2>0. PICK m, g, b, c : Innermost(p, G, T, cs, d, m, g, b, c)
    BY RunsTop
  <2>1. /\ m \in Nat \ {0}
        /\ m = Len(cs) /\ g = T[m].walk /\ b = T[m].under /\ c = cs[m]
        /\ c \in [word : Names(p), ip : Nat, found : Seq(Value)]
        /\ p \in Programs /\ Closed(p, G) /\ g \in G /\ b \in Seq(Value)
           /\ Follows(p, g, b, d, c.ip)
    BY <2>0 DEF Innermost
  <2>2. m = l /\ Runs_At(p, G, g, b, d, c.ip, op) /\ Certificate(p, G)
    BY <2>1 DEF Runs
  <2>3. PICK v : v.walk.word = op.arg /\ Begins(p, G, b, g.points, v, d, c.ip + 1)
    BY <2>2, <1>CallFollows, SMT
  <2>4. PICK a, e : a = [c EXCEPT !.ip = @ + 1] /\ e = Call_Frame(v.walk.word, 0, d)
    OBVIOUS
  <2>5. PICK R : R = [word : Names(p), ip : Nat, found : Seq(Value)]
    OBVIOUS
  <2>6. a \in R /\ a.word = c.word /\ a.found = c.found /\ a.ip = c.ip + 1
    BY <2>1, <2>4, <2>5, SMT
  <2>7. e \in R
    <3>1. d \in Seq(Value)
      <4>1. PICK u \in Seq(Value) : d = Join(b, u)
        BY <2>1 DEF Follows
      <4> QED BY <2>1, <4>1, JoinIs
    <3>2. v.walk.word \in Names(p)
      <4>1. v.walk \in G
        BY <2>3 DEF Begins, Thread
      <4> QED BY <2>1, <4>1 DEF Closed, Is_Walk
    <3> QED BY <2>4, <2>5, <3>1, <3>2 DEF Call_Frame
  <2>8. cs \in Seq(R) /\ l \in 1 .. Len(cs) /\ l \in Nat \ {0} /\ l = Len(cs)
    BY <2>1, <2>2, <2>5, SMT DEF Runs, Calls
  <2>9. PICK z : z = [cs EXCEPT ![l] = a]
    OBVIOUS
  <2>10. /\ z \in Seq(R) /\ Len(z) = Len(cs)
         /\ \A n \in 1 .. Len(cs) : z[n] = IF n = l THEN a ELSE cs[n]
    <3>1. /\ [cs EXCEPT ![l] = a] \in Seq(R) /\ Len([cs EXCEPT ![l] = a]) = Len(cs)
          /\ \A n \in 1 .. Len(cs) : [cs EXCEPT ![l] = a][n] = IF n = l THEN a ELSE cs[n]
      BY <2>6, <2>8, SeqExcept, SMT
    <3> QED BY <2>9, <3>1
  <2>11. PICK y : y = Append(z, e)
    OBVIOUS
  <2>12. /\ y \in Seq(R) /\ Len(y) = Len(z) + 1 /\ y[Len(z) + 1] = e
         /\ \A n \in 1 .. Len(z) : y[n] = z[n]
    BY <2>7, <2>10, <2>11, SeqAppend, SMT
  <2>13. y \in Calls(p)
    BY <2>5, <2>12 DEF Calls
  <2>14. y[l] = a /\ y[l + 1] = e /\ Len(y) = l + 1 /\ \A n \in 1 .. l - 1 : y[n] = cs[n]
    <3>1. \A n \in 1 .. l - 1 : n \in 1 .. l /\ n # l
      BY <2>8, SMT
    <3>2. Len(z) = l /\ l \in 1 .. l
      BY <2>8, <2>10
    <3>3. y[l] = a /\ \A n \in 1 .. l - 1 : y[n] = cs[n]
      BY <2>8, <2>10, <2>12, <3>1, <3>2
    <3> QED BY <2>12, <3>2, <3>3
  <2>15. Grows(cs, y, l, e)
    BY <2>1, <2>2, <2>6, <2>14 DEF Grows
  <2>16. Begins(p, G, T[l].under, T[l].walk.points, v, d, y[l].ip)
    BY <2>1, <2>2, <2>3, <2>6, <2>14
  <2>17. \E U : Runs(p, G, U, y, d)
    BY <2>4, <2>13, <2>15, <2>16, <1>RunsInto
  <2>18. y = Append([cs EXCEPT ![Len(cs)].ip = @ + 1], Call_Frame(op.arg, 0, d))
    <3>1. [cs EXCEPT ![Len(cs)].ip = @ + 1] = z
      BY <2>1, <2>2, <2>4, <2>8, <2>9
    <3> QED BY <2>3, <2>4, <2>11, <3>1
  <2> QED BY <2>17, <2>18

<1> SUFFICES ASSUME Runs_Along, machine = "running",
                  Run_Push \/ Run_Cast \/ Run_Intrinsic_Code \/ Run_Branch \/ Run_Jump \/ Run_While
                  \/ Run_Call \/ Run_Return \/ Exit
             PROVE  Runs_Along'
  OBVIOUS
<1> PICK G, T, cs, d : Runs(prog, G, T, cs, d) /\ Shadows(cs, d)
  BY DEF Runs_Along
<1>1. PICK l, g, b, c : At_Work(G, T, cs, d, l, g, b, c)
  BY RunningAt
<1> /\ l \in Nat \ {0}
    /\ l = Len(cs) /\ l = Len(calls) /\ g = T[l].walk /\ b = T[l].under /\ c = cs[l]
    /\ Active = calls[l] /\ Active.ip = c.ip /\ c.word = g.word /\ b \in Seq(Value)
    /\ Finished <=> Ends(prog, g.word, c.ip)
    /\ ~Finished => Runs_At(prog, G, g, b, d, c.ip, Instr)
  BY <1>1 DEF At_Work
<1> PICK op, ip, m : op = Instr /\ ip = c.ip /\ m = Len(b)
  OBVIOUS
<1> ~Finished => Runs_At(prog, G, g, b, d, ip, op)
  OBVIOUS
<1>2. /\ calls \in Calls(prog) /\ data \in Seq(Value) /\ Len(d) = Len(data)
      /\ (written = {} => cs = calls /\ d = data)
  BY DEF Shadows
<1>3. m \in Nat
  BY SMT
<1>4. ~Finished => d \in Seq(Value) /\ m <= Len(d) /\ m <= Len(data)
  <2>1. SUFFICES ASSUME ~Finished PROVE d \in Seq(Value) /\ m <= Len(d)
    BY <1>2
  <2>2. PICK u \in Seq(Value) : d = Join(b, u)
    BY <2>1 DEF Runs_At, Follows
  <2>3. d \in Seq(Value) /\ Len(d) = m + Len(u) /\ Len(u) \in Nat
    BY <2>2, JoinIs
  <2> QED BY <1>3, <2>3, SMT
\* A step within the innermost call, that leaves alone what is under it.
<1>5. ASSUME NEW k, Move(k), NEW e, Follows(prog, g, b, e, k), NEW f, Rests_On(m, data, f),
             Len(f) = Len(e), d = data => e = f,
             NEW hit, written' = written \cup hit,
             data' \in Seq(Value), Len(data') = Len(f), hit = {} => data' = f,
             \A j \in 1 .. m : j \in hit \/ data'[j] = f[j]
      PROVE  Runs_Along'
  <2>1. PICK zs : zs = [cs EXCEPT ![Len(cs)].ip = k]
    OBVIOUS
  <2>2. Runs(prog, G, T, zs, e)
    <3>1. Follows(prog, T[Len(cs)].walk, T[Len(cs)].under, e, k)
      BY <1>5
    <3> QED BY <2>1, <3>1, <1>RunsMove
  <2>3. prog' = prog /\ calls' = [calls EXCEPT ![Len(calls)].ip = k]
    BY <1>5 DEF Move, checkerVars
  <2>4. k \in Nat
    <3>1. k \in 0 .. Len(Text(prog, g.word))
      <4>1. g \in G /\ Closed(prog, G) /\ prog \in Programs
        BY <1>1 DEF At_Work
      <4> QED BY <1>5, <4>1, FollowsAt DEF Stands
    <3> QED BY <3>1, SMT
  <2>5. /\ zs \in Calls(prog) /\ Len(zs) = l
        /\ \A n \in 1 .. l : zs[n].word = cs[n].word /\ zs[n].found = cs[n].found
        /\ zs[l].ip = k /\ \A n \in 1 .. l : n # l => zs[n].ip = cs[n].ip
    <3>1. cs \in Calls(prog) /\ zs = [cs EXCEPT ![l].ip = k]
      BY <2>1 DEF Runs
    <3>2. Moved(prog, cs, zs, l, k)
      BY <2>4, <3>1, MoveIs
    <3> QED BY <3>2 DEF Moved
  <2>6. PICK ns, os : ns = calls' /\ os = calls
    OBVIOUS
  <2>7. /\ ns \in Calls(prog) /\ Len(ns) = l
        /\ \A n \in 1 .. l : ns[n].word = os[n].word /\ ns[n].found = os[n].found
        /\ ns[l].ip = k /\ \A n \in 1 .. l : n # l => ns[n].ip = os[n].ip
    <3>1. os \in Calls(prog) /\ l = Len(os) /\ ns = [os EXCEPT ![l].ip = k]
      BY <1>2, <2>3, <2>6
    <3>2. Moved(prog, os, ns, l, k)
      BY <2>4, <3>1, MoveIs
    <3> QED BY <3>2 DEF Moved
  <2>8. \A n \in 1 .. l : /\ zs[n].word = ns[n].word /\ zs[n].ip = ns[n].ip
                          /\ Len(zs[n].found) = Len(ns[n].found)
    <3>1. \A n \in 1 .. l : /\ cs[n].word = os[n].word /\ cs[n].ip = os[n].ip
                            /\ Len(cs[n].found) = Len(os[n].found)
      BY <2>6 DEF Shadows
    <3>2. \A n \in 1 .. l : zs[n].ip = ns[n].ip
      BY <2>5, <2>7, <3>1
    <3>3. \A n \in 1 .. l : zs[n].word = ns[n].word /\ Len(zs[n].found) = Len(ns[n].found)
      BY <2>5, <2>7, <3>1
    <3> QED BY <3>2, <3>3
  <2>9. ASSUME written' = {} PROVE zs = ns /\ e = data'
    <3>1. written = {} /\ hit = {}
      BY <1>5, <2>9
    <3>2. cs = calls /\ d = data
      BY <1>2, <3>1
    <3> QED BY <1>5, <2>1, <2>3, <2>6, <3>1, <3>2
  <2>10. Found_Or_Written(prog, ns, data', written \cup hit)
    <3>1. ASSUME NEW n \in 1 .. Len(calls), calls[n].word \in Checked_Words(prog)
          PROVE  Depth(prog, calls[n]) \in Nat /\ Depth(prog, calls[n]) <= m
      <4>1. calls[n].word \in Promised(prog)
        BY <3>1 DEF Promised
      <4>2. Depth(prog, calls[n]) \in Nat /\ Depth(prog, calls[n]) <= Len(T[Len(cs)].under)
        BY <3>1, <4>1, KeptUnder
      <4> QED BY <4>2
    <3>2. \A j \in 1 .. m : j \in hit \/ data'[j] = data[j]
      BY <1>5 DEF Rests_On
    <3>3. Found_Or_Written(prog, calls, data, written)
      BY DEF Shadows
    <3>4. Len(ns) = Len(calls) /\ \A n \in 1 .. Len(calls) : /\ ns[n].word = calls[n].word
                                                           /\ ns[n].found = calls[n].found
      BY <2>6, <2>7
    <3>5. PICK x, y, W : x = data /\ y = data' /\ W = written
      OBVIOUS
    <3>6. /\ \A j \in 1 .. m : j \in hit \/ y[j] = x[j]
          /\ Found_Or_Written(prog, calls, x, W)
      BY <3>2, <3>3, <3>5
    <3>7. Found_Or_Written(prog, ns, y, W \cup hit)
      BY <1>3, <3>1, <3>4, <3>6, FoundMoves
    <3> QED BY <3>5, <3>7
  <2>11. Found_Or_Written(prog', calls', data', written')
    BY <1>5, <2>3, <2>6, <2>10
  <2>12. Shadows(zs, e)'
    <3>1. calls' \in Calls(prog') /\ Len(zs) = Len(calls') /\ Len(calls') = l
      BY <2>3, <2>5, <2>6, <2>7
    <3> QED BY <1>5, <2>6, <2>8, <2>9, <2>11, <3>1 DEF Shadows
  <2> QED BY <2>2, <2>3, <2>12 DEF Runs_Along
\* The same, without a write through an address.
<1>a. ASSUME NEW k, Move(k), NEW e, Follows(prog, g, b, e, k), Rests_On(m, data, data'),
             Len(data') = Len(e), d = data => e = data', written' = written
      PROVE  Runs_Along'
  <2>1. written' = written \cup {} /\ data' \in Seq(Value)
    BY <1>a DEF Rests_On
  <2>2. PICK f : f = data'
    OBVIOUS
  <2>3. \A j \in 1 .. m : data'[j] = f[j]
    BY <2>2
  <2> QED BY <1>5, <1>a, <2>1, <2>2, <2>3
<1>6. CASE Run_Push
  <2>1. ~Finished /\ op.kind \in {"Push_Int", "Push_Symbol"}
    BY <1>6 DEF Run_Push, Execute
  <2>2. PICK v : v = IF op.kind = "Push_Int" THEN op.arg ELSE "Pointer"
    OBVIOUS
  <2>3. Follows(prog, g, b, Pushed(d, v), ip + 1) /\ v \in Value
    BY <2>1, <2>2, <1>PushFollows
  <2>4. data' = Pushed(data, v) /\ Move(ip + 1) /\ written' = written
    BY <1>6, <2>2 DEF Run_Push, Pushed
  <2>5. Rests_On(m, data, data') /\ Len(data') = Len(Pushed(d, v))
    <3>1. Len(Pushed(d, v)) = Len(d) + 1
      BY <1>4, <2>1, <2>3, PushIs
    <3>2. Rests_On(m, data, Pushed(data, v)) /\ Len(Pushed(data, v)) = Len(data) + 1
      BY <1>2, <1>3, <1>4, <2>1, <2>3, PushRests
    <3> QED BY <1>2, <2>4, <3>1, <3>2
  <2> QED BY <1>a, <2>3, <2>4, <2>5
<1>7. CASE Run_Cast
  <2>1. ~Finished /\ op.kind = "Cast"
    BY <1>7 DEF Run_Cast, Execute
  <2>2. PICK a : a = op.arg
    OBVIOUS
  <2>3. /\ Follows(prog, g, b, IF a = "Any" THEN d ELSE Pushed(Pop(d), a), ip + 1)
        /\ a \in Type /\ m + 1 <= Len(d)
    BY <2>1, <2>2, <1>CastFollows
  <2>4. data' = (IF a = "Any" THEN data ELSE Pushed(Pop(data), a)) /\ Move(ip + 1)
        /\ written' = written
    BY <1>7, <2>2 DEF Run_Cast, Pushed
  <2>5. CASE a = "Any"
    <3>1. Follows(prog, g, b, d, ip + 1) /\ data' = data /\ Len(data') = Len(d)
      BY <1>2, <2>3, <2>4, <2>5
    <3>2. Rests_On(m, data, data')
      BY <1>2, <3>1 DEF Rests_On
    <3> QED BY <1>a, <2>4, <3>1, <3>2
  <2>6. CASE a # "Any"
    <3>1. a \in Value
      BY <2>3, <2>6 DEF Value
    <3>2. Follows(prog, g, b, Pushed(Pop(d), a), ip + 1) /\ data' = Pushed(Pop(data), a)
      BY <2>3, <2>4, <2>6
    <3>3. PICK v, w : v = Pop(d) /\ w = Pop(data)
      OBVIOUS
    <3>4. Rests_On(m, d, v) /\ Len(v) = Len(d) - 1
      BY <1>3, <1>4, <2>1, <2>3, <3>3, PopRests
    <3>5. Rests_On(m, data, w) /\ Len(w) = Len(data) - 1 /\ m <= Len(w)
      BY <1>2, <1>3, <2>3, <3>3, PopRests
    <3>6. v \in Seq(Value) /\ w \in Seq(Value) /\ Len(v) = Len(w)
      BY <1>2, <3>4, <3>5 DEF Rests_On
    <3>7. Rests_On(m, w, Pushed(w, a)) /\ Len(Pushed(w, a)) = Len(w) + 1
      BY <1>3, <3>1, <3>5, <3>6, PushRests
    <3>8. Len(Pushed(v, a)) = Len(v) + 1
      BY <3>1, <3>6, PushIs
    <3>9. Rests_On(m, data, data') /\ Len(data') = Len(Pushed(v, a))
      BY <3>2, <3>3, <3>5, <3>6, <3>7, <3>8 DEF Rests_On
    <3>10. d = data => Pushed(v, a) = data'
      BY <3>2, <3>3
    <3>11. Follows(prog, g, b, Pushed(v, a), ip + 1)
      BY <3>2, <3>3
    <3> QED BY <1>a, <2>4, <3>9, <3>10, <3>11
  <2> QED BY <2>5, <2>6
<1>8. CASE Run_Intrinsic_Code
  <2>1. ~Finished /\ op.kind = "Intrinsic"
    BY <1>8 DEF Run_Intrinsic_Code, Execute
  <2>2. PICK a : a = op.arg
    OBVIOUS
  <2>3. PICK e, f : e = Run_Intrinsic(a, d) /\ f = Run_Intrinsic(a, data)
    OBVIOUS
  <2>4. /\ Follows(prog, g, b, e, ip + 1)
        /\ Has_Code(a) /\ m + Emitted(a).reads <= Len(d)
    BY <2>1, <2>2, <2>3, IntrinsicFollows
  <2>5. PICK hit, new : /\ new \in [hit -> Value] /\ data' = Overwrite(f, new)
                        /\ written' = written \cup hit
    BY <1>8, <2>2, <2>3 DEF Run_Intrinsic_Code
  <2>6. Move(ip + 1)
    BY <1>8 DEF Run_Intrinsic_Code
  <2>7. Rests_On(m, data, f) /\ Len(f) = Len(data) - Emitted(a).reads + Len(Emitted(a).leaves)
    BY <1>2, <1>3, <2>3, <2>4, RunRests
  <2>8. Rests_On(m, d, e) /\ Len(e) = Len(d) - Emitted(a).reads + Len(Emitted(a).leaves)
    BY <1>3, <1>4, <2>1, <2>3, <2>4, RunRests
  <2>9. Len(f) = Len(e) /\ f \in Seq(Value) /\ (d = data => e = f)
    BY <1>2, <2>3, <2>7, <2>8 DEF Rests_On
  <2>10. /\ data' \in Seq(Value) /\ Len(data') = Len(f) /\ (hit = {} => data' = f)
         /\ \A j \in 1 .. Len(f) : j \in hit \/ data'[j] = f[j]
    <3>1. Hit_At(hit, f, Overwrite(f, new))
      BY <2>5, <2>9, OverwriteIs
    <3>2. Hit_At(hit, f, data')
      BY <2>5, <3>1
    <3> QED BY <3>2 DEF Hit_At
  <2>11. \A j \in 1 .. m : j \in 1 .. Len(f)
    <3>1. PICK r \in Nat, v \in Nat : r = Emitted(a).reads /\ v = Len(Emitted(a).leaves)
      BY <2>4, SMT DEF Has_Code
    <3>2. Len(f) = Len(data) - r + v /\ m + r <= Len(data) /\ Len(data) \in Nat
      BY <1>2, <2>4, <2>7, <3>1, SMT
    <3>3. m <= Len(f) /\ Len(f) \in Nat
      BY <1>3, <3>2, SMT
    <3> QED BY <1>3, <3>3, SMT
  <2>12. \A j \in 1 .. m : j \in hit \/ data'[j] = f[j]
    BY <2>10, <2>11
  <2> QED BY <1>5, <2>4, <2>5, <2>6, <2>7, <2>9, <2>10, <2>12
<1>9. CASE Run_Branch
  <2>1. ~Finished /\ op.kind \in {"If", "Do"}
    BY <1>9 DEF Run_Branch, Execute
  <2>2. PICK v : v = Pop(d)
    OBVIOUS
  <2>3. /\ Follows(prog, g, b, v, ip + 1) /\ Follows(prog, g, b, v, op.jump)
        /\ m + 1 <= Len(d)
    BY <2>1, <2>2, BranchFollows
  <2>4. data' = Pop(data) /\ (Move(ip + 1) \/ Move(op.jump)) /\ written' = written
    BY <1>9 DEF Run_Branch
  <2>5. Rests_On(m, data, data') /\ Len(data') = Len(v)
    <3>1. Len(v) = Len(d) - 1
      BY <1>3, <1>4, <2>1, <2>2, <2>3, PopRests
    <3>2. Rests_On(m, data, Pop(data)) /\ Len(Pop(data)) = Len(data) - 1
      BY <1>2, <1>3, <2>3, PopRests
    <3> QED BY <1>2, <2>4, <3>1, <3>2
  <2>6. d = data => v = data'
    BY <2>2, <2>4
  <2> QED BY <1>a, <2>3, <2>4, <2>5, <2>6
<1>10. CASE Run_Jump \/ Run_While
  <2>1. ~Finished
    BY <1>10 DEF Run_Jump, Run_While, Execute
  <2>2. PICK k : Move(k) /\ Follows(prog, g, b, d, k)
    <3>1. CASE Run_Jump
      BY <2>1, <3>1, <1>JumpFollows DEF Run_Jump, Execute
    <3>2. CASE Run_While
      BY <2>1, <3>2, <1>JumpFollows DEF Run_While, Execute
    <3> QED BY <1>10, <3>1, <3>2
  <2>3. data' = data /\ written' = written
    BY <1>10 DEF Run_Jump, Run_While
  <2>4. Rests_On(m, data, data') /\ Len(data') = Len(d)
    BY <1>2, <2>3 DEF Rests_On
  <2> QED BY <1>a, <2>2, <2>3, <2>4
<1>b. ASSUME written' = written, data' = data, prog' = prog, calls' \in Calls(prog),
             NEW zs, NEW U, Runs(prog, G, U, zs, d), Len(zs) = Len(calls'),
             \A n \in 1 .. Len(calls') : /\ zs[n].word = calls'[n].word /\ zs[n].ip = calls'[n].ip
                                         /\ Len(zs[n].found) = Len(calls'[n].found),
             cs = calls /\ d = data => zs = calls',
             \A n \in 1 .. Len(calls') :
               \/ calls'[n].found = data
               \/ n \in 1 .. Len(calls) /\ calls'[n].word = calls[n].word
                                         /\ calls'[n].found = calls[n].found
      PROVE  Runs_Along'
  <2>1. Found_Or_Written(prog', calls', data', written')
    <3>1. PICK ns : ns = calls'
      OBVIOUS
    <3>2. Found_Or_Written(prog, calls, data, written)
      BY DEF Shadows
    <3>3. \A n \in 1 .. Len(ns) :
            \/ ns[n].found = data
            \/ n \in 1 .. Len(calls) /\ ns[n].word = calls[n].word /\ ns[n].found = calls[n].found
      BY <1>b, <3>1
    <3>4. Found_Or_Written(prog, ns, data, written)
      BY <3>2, <3>3, FoundStays
    <3> QED BY <1>b, <3>1, <3>4
  <2>2. Shadows(zs, d)'
    BY <1>2, <1>b, <2>1 DEF Shadows
  <2> QED BY <1>b, <2>2 DEF Runs_Along
<1>12. CASE Run_Call
  <2>1. ~Finished /\ op.kind = "Call_Symbol"
    BY <1>12 DEF Run_Call, Execute
  <2>2. PICK zs : zs = Append([cs EXCEPT ![Len(cs)].ip = @ + 1], Call_Frame(op.arg, 0, d))
    OBVIOUS
  <2>3. PICK U : Runs(prog, G, U, zs, d)
    <3>1. Runs_At(prog, G, T[l].walk, T[l].under, d, cs[l].ip, op)
      BY <2>1
    <3> QED BY <2>1, <2>2, <3>1, <1>RunsCall
  <2>4. /\ calls' = Append([calls EXCEPT ![Len(calls)].ip = @ + 1], Call_Frame(op.arg, 0, data))
        /\ data' = data /\ prog' = prog /\ written' = written
    BY <1>12 DEF Run_Call, checkerVars
  <2>7. op.arg \in Names(prog)
    <3>1. op.arg \in DOMAIN prog.words
      BY <2>1, RunsAt
    <3> QED BY <3>1 DEF Names
  <2>8. cs \in Calls(prog) /\ d \in Seq(Value)
    BY <1>4, <2>1 DEF Runs
  <2>9. /\ Len(zs) = l + 1 /\ zs[l + 1].word = op.arg /\ zs[l + 1].ip = 0 /\ zs[l + 1].found = d
        /\ \A n \in 1 .. l : zs[n].word = cs[n].word /\ zs[n].found = cs[n].found
        /\ zs[l].ip = cs[l].ip + 1 /\ \A n \in 1 .. l : n # l => zs[n].ip = cs[n].ip
    <3>1. PICK w : w = op.arg
      OBVIOUS
    <3>2. w \in Names(prog)
          /\ zs = Append([cs EXCEPT ![Len(cs)].ip = @ + 1], Call_Frame(w, 0, d))
      BY <2>2, <2>7, <3>1
    <3>3. Entered_By(prog, cs, zs, l, w, d)
      BY <2>8, <3>2, CallIs
    <3> QED BY <3>1, <3>3 DEF Entered_By
  <2>10. /\ calls' \in Calls(prog) /\ Len(calls') = l + 1
         /\ calls'[l + 1].word = op.arg /\ calls'[l + 1].ip = 0 /\ calls'[l + 1].found = data
         /\ \A n \in 1 .. l : calls'[n].word = calls[n].word /\ calls'[n].found = calls[n].found
         /\ calls'[l].ip = calls[l].ip + 1 /\ \A n \in 1 .. l : n # l => calls'[n].ip = calls[n].ip
    <3>1. PICK ns, os, w, e : ns = calls' /\ os = calls /\ w = op.arg /\ e = data
      OBVIOUS
    <3>2. /\ w \in Names(prog) /\ os \in Calls(prog) /\ l = Len(os) /\ e \in Seq(Value)
          /\ ns = Append([os EXCEPT ![Len(os)].ip = @ + 1], Call_Frame(w, 0, e))
      BY <1>2, <2>4, <2>7, <3>1
    <3>3. Entered_By(prog, os, ns, l, w, e)
      BY <3>2, CallIs
    <3> QED BY <3>1, <3>3 DEF Entered_By
  <2>11. \A n \in 1 .. Len(calls') : n \in 1 .. l \/ n = l + 1
    BY <2>10, SMT
  <2>12. \A n \in 1 .. Len(calls') :
           /\ zs[n].word = calls'[n].word /\ zs[n].ip = calls'[n].ip
           /\ Len(zs[n].found) = Len(calls'[n].found)
    <3>1. \A n \in 1 .. l : /\ cs[n].word = calls[n].word /\ cs[n].ip = calls[n].ip
                            /\ Len(cs[n].found) = Len(calls[n].found)
      BY DEF Shadows
    <3>4. cs[l].ip = calls[l].ip
      BY <1>1 DEF At_Work
    <3>2. ASSUME NEW n \in 1 .. l
          PROVE  /\ zs[n].word = calls'[n].word /\ zs[n].ip = calls'[n].ip
                 /\ Len(zs[n].found) = Len(calls'[n].found)
      <4>1. zs[n].word = calls'[n].word /\ Len(zs[n].found) = Len(calls'[n].found)
        BY <2>9, <2>10, <3>1
      <4>2. CASE n = l
        BY <2>9, <2>10, <3>4, <4>1, <4>2
      <4>3. CASE n # l
        BY <2>9, <2>10, <3>1, <4>1, <4>3
      <4> QED BY <4>2, <4>3
    <3>3. /\ zs[l + 1].word = calls'[l + 1].word /\ zs[l + 1].ip = calls'[l + 1].ip
          /\ Len(zs[l + 1].found) = Len(calls'[l + 1].found)
      BY <1>2, <2>9, <2>10
    <3> QED BY <2>11, <3>2, <3>3
  <2>13. cs = calls /\ d = data => zs = calls'
    BY <2>2, <2>4
  <2>14. \A n \in 1 .. Len(calls') :
           \/ calls'[n].found = data
           \/ n \in 1 .. Len(calls) /\ calls'[n].word = calls[n].word
                                     /\ calls'[n].found = calls[n].found
    BY <2>10, <2>11
  <2>15. calls' \in Calls(prog) /\ Len(zs) = Len(calls')
    BY <2>9, <2>10
  <2> QED BY <1>b, <2>3, <2>4, <2>12, <2>13, <2>14, <2>15
<1>13. CASE Run_Return
  <2>1. Ends(prog, cs[l].word, cs[l].ip) /\ l > 1 /\ calls' = Pop(calls) /\ data' = data
        /\ prog' = prog /\ written' = written
    <3>1. Ends(prog, cs[l].word, cs[l].ip)
      BY <1>13 DEF Run_Return
    <3> QED BY <1>13, <3>1 DEF Run_Return, checkerVars
  <2>2. PICK R : R = [word : Names(prog), ip : Nat, found : Seq(Value)]
    OBVIOUS
  <2>3. cs \in Seq(R) /\ cs # <<>> /\ calls \in Seq(R) /\ calls # <<>>
    <3>1. cs \in Seq(R) /\ calls \in Seq(R)
      BY <1>2, <2>2 DEF Runs, Calls
    <3>2. cs # <<>> /\ calls # <<>>
      <4>1. l # 0 /\ Len(<<>>) = 0
        BY SMT
      <4> QED BY <4>1
    <3> QED BY <3>1, <3>2
  <2>4. PICK zs : zs = Pop(cs)
    OBVIOUS
  <2>5. zs \in Seq(R) /\ Len(zs) = l - 1 /\ \A n \in 1 .. l - 1 : zs[n] = cs[n]
    BY <2>3, <2>4, StackPop
  <2>6. calls' \in Seq(R) /\ Len(calls') = l - 1 /\ \A n \in 1 .. l - 1 : calls'[n] = calls[n]
    BY <2>1, <2>3, StackPop
  <2>7. zs \in Calls(prog) /\ calls' \in Calls(prog)
    BY <2>2, <2>5, <2>6 DEF Calls
  <2>8. Runs(prog, G, T, zs, d)
    BY <2>1, <2>5, <2>7, <1>RunsBack
  <2>9. \A n \in 1 .. l - 1 : n \in 1 .. l
    BY SMT
  <2>10. \A n \in 1 .. Len(calls') :
           /\ zs[n].word = calls'[n].word /\ zs[n].ip = calls'[n].ip
           /\ Len(zs[n].found) = Len(calls'[n].found)
    BY <2>5, <2>6, <2>9 DEF Shadows
  <2>11. \A n \in 1 .. Len(calls') : n \in 1 .. Len(calls) /\ calls'[n].word = calls[n].word
                                     /\ calls'[n].found = calls[n].found
    BY <2>6, <2>9
  <2>12. (cs = calls /\ d = data => zs = calls') /\ Len(zs) = Len(calls')
    BY <2>1, <2>4, <2>5, <2>6
  <2> QED BY <1>b, <2>1, <2>7, <2>8, <2>10, <2>11, <2>12
<1>14. CASE Exit
  <2>1. calls' = calls /\ data' = data /\ prog' = prog /\ written' = written
    BY <1>14 DEF Exit, checkerVars
  <2>2. \A n \in 1 .. Len(calls') : n \in 1 .. Len(calls) /\ calls'[n].word = calls[n].word
                                    /\ calls'[n].found = calls[n].found
    BY <2>1
  <2>3. /\ Len(cs) = Len(calls') /\ calls' \in Calls(prog) /\ (cs = calls => cs = calls')
        /\ \A n \in 1 .. Len(calls') : /\ cs[n].word = calls'[n].word /\ cs[n].ip = calls'[n].ip
                                        /\ Len(cs[n].found) = Len(calls'[n].found)
    BY <2>1 DEF Shadows
  <2> QED BY <1>b, <2>1, <2>2, <2>3
<1> QED BY <1>6, <1>7, <1>8, <1>9, <1>10, <1>12, <1>13, <1>14

-----------------------------------------------------------------------------
(* What follows for a machine that runs along walks                         *)

\* Anyless of the program is No_Any.
LEMMA NoAny == No_Any <=> Anyless(prog)
<1>1. \A w : Body(w) = Text(prog, w)
  BY DEF Body, Text
<1> QED BY <1>1 DEF No_Any, Anyless, Names

\* An operation that is about to run is one of a walk.
LEMMA AtOperation ==
  ASSUME NEW G, NEW T, NEW cs, NEW d, Runs(prog, G, T, cs, d), Shadows(cs, d), At_Operation
  PROVE  \E g, ip : Runs_At(prog, G, g, T[Len(cs)].under, d, ip, Instr)
<1>1. PICK l, g, b, c : At_Work(G, T, cs, d, l, g, b, c)
  BY RunningAt
<1>2. ~Finished
  BY DEF At_Operation
<1>3. l = Len(cs) /\ b = T[l].under /\ Runs_At(prog, G, g, b, d, c.ip, Instr)
  BY <1>1, <1>2 DEF At_Work
<1> QED BY <1>3

\* What is about to be read lies above what the innermost call has found.
LEMMA ReadsWithin ==
  ASSUME NEW G, NEW T, NEW cs, NEW d, Runs(prog, G, T, cs, d), Shadows(cs, d), At_Operation
  PROVE  /\ Len(T[Len(cs)].under) \in Nat /\ Reads(Instr) \in Nat /\ Len(data) \in Nat
         /\ Len(T[Len(cs)].under) + Reads(Instr) <= Len(data)
<1>1. PICK g, ip : Runs_At(prog, G, g, T[Len(cs)].under, d, ip, Instr)
  BY AtOperation
<1>2. PICK b, op : b = T[Len(cs)].under /\ op = Instr
  OBVIOUS
<1>3. Len(b) \in Nat /\ Reads(op) \in Nat /\ Len(b) + Reads(op) <= Len(d)
  BY <1>1, <1>2, ReadsAbove
<1>4. Len(d) = Len(data) /\ Len(data) \in Nat
  BY SMT DEF Shadows
<1> QED BY <1>2, <1>3, <1>4

\* A machine that runs along walks pops nothing that is not there.
LEMMA UnderflowSafe ==
  ASSUME Runs_Along
  PROVE  NoUnderflow
<1>1. SUFFICES ASSUME At_Operation PROVE Len(data) >= Reads(Instr)
  BY DEF NoUnderflow
<1>2. PICK G, T, cs, d : Runs(prog, G, T, cs, d) /\ Shadows(cs, d)
  BY DEF Runs_Along
<1>3. PICK m, r : m = Len(T[Len(cs)].under) /\ r = Reads(Instr)
  OBVIOUS
<1>4. m \in Nat /\ r \in Nat /\ Len(data) \in Nat /\ m + r <= Len(data)
  BY <1>1, <1>2, <1>3, ReadsWithin
<1>5. Len(data) >= r
  BY <1>4, SMT
<1> QED BY <1>3, <1>5

\* It finds operands of the types that the instructions expect.
LEMMA OperandsSafe ==
  ASSUME Runs_Along
  PROVE  OperandsAsTyped
<1>1. SUFFICES ASSUME At_Operation, No_Any, written = {}
               PROVE  /\ Instr.kind = "Intrinsic" => Has_Match(data, Intrinsic_Effects(Instr.arg))
                      /\ Instr.kind \in {"If", "Do"} => data # <<>> /\ Top(data) = "Bool"
  BY DEF OperandsAsTyped
<1>2. PICK G, T, cs, d : Runs(prog, G, T, cs, d) /\ Shadows(cs, d)
  BY DEF Runs_Along
<1>3. d = data
  BY <1>1, <1>2 DEF Shadows
<1>4. PICK g, b, ip : Runs_At(prog, G, g, b, d, ip, Instr)
  BY <1>1, <1>2, AtOperation
<1>5. PICK op : op = Instr
  OBVIOUS
<1>6. Runs_At(prog, G, g, b, data, ip, op) /\ Anyless(prog)
  BY <1>1, <1>3, <1>4, <1>5, NoAny
<1>7. op.kind = "Intrinsic" => Has_Match(data, Intrinsic_Effects(op.arg))
  BY <1>6, IntrinsicFollows
<1>8. op.kind \in {"If", "Do"} => data # <<>> /\ Top(data) = "Bool"
  BY <1>6, BranchFollows
<1> QED BY <1>5, <1>7, <1>8

\* When a word ends, its declared effect is what has happened to the stack.
LEMMA EffectsSafe ==
  ASSUME Runs_Along
  PROVE  EffectsHonoured
<1>1. SUFFICES ASSUME Finished, Active.word \in Checked_Words(prog) \cup {"main"}
               PROVE  LET output == Declared(Active).output
                      IN /\ Len(data) = Kept(Active) + Len(output)
                         /\ No_Any /\ written = {}
                            => SubSeq(data, Kept(Active) + 1, Len(data)) = output
  BY DEF EffectsHonoured
<1>2. PICK G, T, cs, d : Runs(prog, G, T, cs, d) /\ Shadows(cs, d)
  BY DEF Runs_Along
<1>w. PICK l, g, b, c : At_Work(G, T, cs, d, l, g, b, c)
  BY <1>2, RunningAt
<1>3. /\ l \in Nat \ {0}
      /\ l = Len(cs) /\ l = Len(calls) /\ g = T[l].walk /\ b = T[l].under
      /\ Active = calls[l] /\ Active.word = c.word
      /\ c.word = g.word /\ g \in G /\ b \in Seq(Value) /\ Follows(prog, g, b, d, c.ip)
      /\ Closed(prog, G) /\ prog \in Programs /\ Thread(prog, G, T[l], c)
      /\ Finished <=> Ends(prog, g.word, c.ip)
  BY <1>w DEF At_Work
<1>4. PICK o, ip : o = g.output /\ ip = c.ip
  OBVIOUS
<1>s. PICK u \in Seq(Value), x \in g.points : Stands(prog, G, g, b, d, ip, u, x)
  <2>1. Follows(prog, g, b, d, ip) /\ g \in G /\ Closed(prog, G) /\ prog \in Programs
    BY <1>3, <1>4
  <2> QED BY <2>1, FollowsAt
<1>6. /\ d = Join(b, u) /\ x.ip = ip /\ Like(prog, x.stack, u)
      /\ Sound(prog, G, g.points, Just(g.output), g.word, x)
  BY <1>s DEF Stands
<1>7. Like(prog, o, u)
  <2>1. Ends(prog, g.word, x.ip)
    BY <1>1, <1>3, <1>4, <1>6
  <2>2. Like(prog, x.stack, o)
    BY <1>4, <1>6, <2>1 DEF Sound, Just
  <2> QED BY <1>6, <2>2, LikeFacts
<1>8. c.word \in Promised(prog)
  BY <1>1, <1>3 DEF Promised
<1>9. o = Effect_Of(prog, c.word).output
  BY <1>3, <1>4, <1>8 DEF Thread
<1>10. Declared(Active).output = o
  BY <1>3, <1>9 DEF Declared, Effect_Of
<1>11. PICK k : k = Len(b)
  OBVIOUS
<1>12. Kept(Active) = k
  <2>1. l \in 1 .. Len(calls)
    BY <1>3, SMT
  <2>2. calls[l].word \in Promised(prog)
    BY <1>3, <1>8
  <2> QED BY <1>2, <1>3, <1>11, <2>1, <2>2, KeptUnder
<1>13. Len(o) = Len(u) /\ (Anyless(prog) => u = o)
  BY <1>7 DEF Like
<1>14. Len(d) = k + Len(u) /\ Above(d, k) = u
  <2>1. b \in Seq(Value) /\ u \in Seq(Value) /\ d = Join(b, u)
    BY <1>3, <1>6
  <2> QED BY <1>11, <2>1, JoinParts, SMT
<1>15. Len(data) = k + Len(o)
  BY <1>2, <1>13, <1>14 DEF Shadows
<1>16. ASSUME No_Any, written = {} PROVE SubSeq(data, k + 1, Len(data)) = o
  <2>1. d = data
    BY <1>2, <1>16 DEF Shadows
  <2> QED BY <1>13, <1>14, <1>16, <2>1, NoAny DEF Above
<1> QED BY <1>10, <1>12, <1>15, <1>16

\* What lies below the arguments of a call is not read, and is as the caller left
\* it unless it was written through an address.
LEMMA CallersSafe ==
  ASSUME Runs_Along
  PROVE  CallersDataKept
<1>1. SUFFICES ASSUME NEW n \in 1 .. Len(calls), calls[n].word \in Checked_Words(prog)
               PROVE  /\ Kept(calls[n]) <= Len(data)
                      /\ At_Operation => Kept(calls[n]) + Reads(Instr) <= Len(data)
                      /\ \A k \in 1 .. Kept(calls[n]) :
                           k \in written \/ data[k] = calls[n].found[k]
  BY DEF CallersDataKept
<1>2. PICK G, T, cs, d : Runs(prog, G, T, cs, d) /\ Shadows(cs, d)
  BY DEF Runs_Along
<1>3. PICK k, b : k = Kept(calls[n]) /\ b = T[Len(cs)].under
  OBVIOUS
<1>4. k \in Nat /\ Len(b) \in Nat /\ k <= Len(b)
  BY <1>1, <1>2, <1>3, KeptUnder DEF Promised
<1>5. k <= Len(data)
  <2>1. PICK u \in Seq(Value) : d = Join(b, u)
    BY <1>2, <1>3 DEF Runs, Follows
  <2>2. b \in Seq(Value)
    <3>1. Len(cs) \in 1 .. Len(cs)
      BY <1>2, SMT DEF Runs, Calls
    <3> QED BY <1>2, <1>3, <3>1 DEF Runs, Thread
  <2>3. Len(data) = Len(b) + Len(u) /\ Len(u) \in Nat
    <3>1. Len(d) = Len(b) + Len(u) /\ Len(u) \in Nat
      BY <2>1, <2>2, JoinIs
    <3> QED BY <1>2, <3>1 DEF Shadows
  <2> QED BY <1>4, <2>3, SMT
<1>6. ASSUME At_Operation PROVE k + Reads(Instr) <= Len(data)
  <2>1. PICK r : r = Reads(Instr)
    OBVIOUS
  <2>2. r \in Nat /\ Len(data) \in Nat /\ Len(b) + r <= Len(data)
    BY <1>2, <1>3, <1>6, <2>1, ReadsWithin
  <2>3. k + r <= Len(data)
    BY <1>4, <2>2, SMT
  <2> QED BY <2>1, <2>3
<1>7. \A j \in 1 .. k : j \in written \/ data[j] = calls[n].found[j]
  <2>1. k = Depth(prog, calls[n])
    BY <1>1, <1>2, <1>3, KeptUnder DEF Promised
  <2> QED BY <1>1, <1>2, <2>1 DEF Shadows, Found_Or_Written
<1> QED BY <1>3, <1>5, <1>6, <1>7

-----------------------------------------------------------------------------
(* The start                                                                *)

\* The machine starts main on an empty stack.
LEMMA StartRuns ==
  ASSUME prog \in Programs, NEW G, Certificate(prog, G), Start, data = <<>>,
         written = {}
  PROVE  Runs_Along'
<1>1. PICK g \in G : /\ g.word = "main" /\ g.input = Effect_Of(prog, "main").input
                     /\ g.output = Effect_Of(prog, "main").output
  <2>1. Has_Walk(prog, G, "main")
    BY DEF Certificate, Promised
  <2> QED BY <2>1 DEF Has_Walk
<1>2. PICK e : e = <<>>
  OBVIOUS
<1>3. e \in Seq(Value) /\ Len(e) = 0 /\ Join(e, e) = e
  <2>1. e \in Seq(Value) /\ Len(e) = 0
    BY <1>2, SMT
  <2>2. Join(e, <<>>) = e
    BY <2>1, JoinEmpty
  <2> QED BY <1>2, <2>1, <2>2
<1>4. g.input = e /\ g.output = e
  BY <1>1, <1>2 DEF Effect_Of, Effect
<1>5. PICK t, c : t = [walk |-> g, under |-> e, in |-> e] /\ c = Call_Frame("main", 0, e)
  OBVIOUS
<1>6. /\ t.walk = g /\ t.under = e /\ t.in = e /\ c.word = "main" /\ c.ip = 0 /\ c.found = e
      /\ c \in [word : Names(prog), ip : Nat, found : Seq(Value)]
  BY <1>3, <1>5 DEF Call_Frame, Names
<1>7. PICK T, cs : T = <<t>> /\ cs = <<c>>
  OBVIOUS
<1>8. cs \in Calls(prog) /\ Len(cs) = 1 /\ cs[1] = c /\ T[1] = t
  BY <1>6, <1>7, SMT DEF Calls
<1>9. Thread(prog, G, t, c)
  <2>1. Like(prog, g.input, e)
    BY <1>4 DEF Like
  <2> QED BY <1>1, <1>3, <1>6, <2>1 DEF Thread
<1>10. Follows(prog, g, e, e, 0)
  <2>1. Is_Walk(prog, G, g)
    BY DEF Certificate, Closed
  <2>2. State(g.input, 0) \in g.points
    BY <2>1 DEF Is_Walk
  <2>3. State(g.input, 0).ip = 0 /\ State(g.input, 0).stack = e
    BY <1>4 DEF State
  <2>4. Covered(prog, g.points, e, 0)
    BY <2>2, <2>3 DEF Covered, Like
  <2>5. Follows(prog, g, e, Join(e, e), 0)
    BY <1>3, <2>4, FollowsIs
  <2> QED BY <1>3, <2>5
<1>11. Below(e, e)
  BY <1>3, BelowItself
<1>12. /\ \A n \in 1 .. Len(cs) : Thread(prog, G, T[n], cs[n])
       /\ \A n \in 1 .. Len(cs) - 1 : Link(prog, T[n].under, T[n].walk.points, T[n + 1], cs[n].ip)
       /\ \A k \in 1 .. Len(cs) : \A n \in 1 .. k : Below(T[n].under, T[k].under)
  <2>1. \A n \in 1 .. Len(cs) : n = 1
    BY <1>8, SMT
  <2>2. \A n \in 1 .. Len(cs) - 1 : FALSE
    BY <1>8, SMT
  <2>3. \A k \in 1 .. Len(cs) : \A n \in 1 .. k : n = 1 /\ k = 1
    BY <1>8, SMT
  <2>4. Thread(prog, G, T[1], cs[1]) /\ Below(T[1].under, T[1].under)
    BY <1>6, <1>8, <1>9, <1>11
  <2> QED BY <2>1, <2>2, <2>3, <2>4
<1>13. Follows(prog, T[Len(cs)].walk, T[Len(cs)].under, e, cs[Len(cs)].ip) /\ Len(cs) >= 1
  BY <1>6, <1>8, <1>10, SMT
<1>14. Runs(prog, G, T, cs, e)
  BY <1>8, <1>12, <1>13 DEF Runs
<1>15. prog' = prog /\ calls' = cs /\ data' = e /\ written' = {}
  BY <1>2, <1>5, <1>7 DEF Start, checkerVars
<1>16. Runs(prog', G, T, cs, e)
  BY <1>14, <1>15
<1>17. Found_Or_Written(prog', calls', data', written')
  <2>1. \A n \in 1 .. Len(calls') : calls'[n].found = data'
    <3>1. \A n \in 1 .. Len(cs) : n = 1
      BY <1>8, SMT
    <3> QED BY <1>6, <1>8, <1>15, <3>1
  <2> QED BY <2>1 DEF Found_Or_Written
<1>18. Shadows(cs, e)'
  BY <1>3, <1>8, <1>15, <1>17 DEF Shadows
<1> QED BY <1>16, <1>18 DEF Runs_Along

=============================================================================
