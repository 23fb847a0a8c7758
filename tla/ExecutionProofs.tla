-------------------------- MODULE ExecutionProofs ---------------------------
(***************************************************************************)
(* Type soundness: the code of an accepted program does what the typechecker*)
(* has concluded from the effects.  The loop of typecheck makes the walks of*)
(* a certificate; a walk in progress is one that has points left to look at.*)
(* When typecheck accepts, every walk is finished, and the machine follows *)
(* them (WalkLemmas).                                                      *)
(***************************************************************************)
EXTENDS WalkLemmas

\* Steps that need arithmetic or sequences cite SMT.
USE Zenon

-----------------------------------------------------------------------------
(* What a stack holds                                                       *)

\* What a stack holds.
Elements(s) == {s[n] : n \in 1 .. Len(s)}

\* pop() takes the element that top() returns.
LEMMA ElementsPop ==
  ASSUME NEW T, NEW s \in Seq(T), s # <<>>, NEW x
  PROVE  x \in Elements(s) <=> x \in Elements(Pop(s)) \/ x = Top(s)
<1>1. PICK t : t = Pop(s)
  OBVIOUS
<1>2. Len(s) \in Nat \ {0} /\ Len(t) = Len(s) - 1 /\ \A n \in 1 .. Len(s) - 1 : t[n] = s[n]
  BY <1>1, StackPop
<1>3. \A n \in 1 .. Len(s) : n \in 1 .. Len(s) - 1 \/ n = Len(s)
  BY <1>2, SMT
<1>4. ASSUME x \in Elements(s) PROVE x \in Elements(t) \/ x = Top(s)
  <2>1. PICK n \in 1 .. Len(s) : x = s[n]
    BY <1>4 DEF Elements
  <2> QED BY <1>2, <1>3, <2>1 DEF Elements, Top
<1>5. ASSUME x \in Elements(t) PROVE x \in Elements(s)
  <2>1. PICK n \in 1 .. Len(t) : x = t[n]
    BY <1>5 DEF Elements
  <2>2. n \in 1 .. Len(s) /\ t[n] = s[n]
    BY <1>2, <2>1, SMT
  <2> QED BY <2>1, <2>2 DEF Elements
<1>6. Top(s) \in Elements(s)
  BY <1>2, SMT DEF Elements, Top
<1> QED BY <1>1, <1>4, <1>5, <1>6

\* A push adds one element.
LEMMA ElementsPush ==
  ASSUME NEW T, NEW s \in Seq(T), NEW a \in T, NEW x
  PROVE  x \in Elements(Pushed(s, a)) <=> x \in Elements(s) \/ x = a
<1>1. PICK t : t = Pushed(s, a)
  OBVIOUS
<1>2. /\ Len(t) = Len(s) + 1 /\ Len(s) \in Nat /\ t[Len(s) + 1] = a
      /\ \A n \in 1 .. Len(s) : t[n] = s[n]
  BY <1>1, SeqAppend, SMT DEF Pushed
<1>3. \A n \in 1 .. Len(t) : n \in 1 .. Len(s) \/ n = Len(s) + 1
  BY <1>2, SMT
<1>4. ASSUME x \in Elements(t) PROVE x \in Elements(s) \/ x = a
  <2>1. PICK n \in 1 .. Len(t) : x = t[n]
    BY <1>4 DEF Elements
  <2> QED BY <1>2, <1>3, <2>1 DEF Elements
<1>5. ASSUME x \in Elements(s) PROVE x \in Elements(t)
  <2>1. PICK n \in 1 .. Len(s) : x = s[n]
    BY <1>5 DEF Elements
  <2>2. n \in 1 .. Len(t) /\ t[n] = s[n]
    BY <1>2, <2>1, SMT
  <2> QED BY <2>1, <2>2 DEF Elements
<1>6. a \in Elements(t)
  <2>1. Len(s) + 1 \in 1 .. Len(t)
    BY <1>2, SMT
  <2> QED BY <1>2, <2>1 DEF Elements
<1> QED BY <1>1, <1>4, <1>5, <1>6

\* Appending two elements is pushing one after the other.
LEMMA PushTwo ==
  ASSUME NEW T, NEW s \in Seq(T), NEW a \in T, NEW b \in T
  PROVE  s \o <<a, b>> = Pushed(Pushed(s, a), b)
<1>1. PICK u, t, v : u = s \o <<a, b>> /\ t = Append(s, a) /\ v = Append(t, b)
  OBVIOUS
<1>2. /\ u \in Seq(T) /\ Len(u) = Len(s) + 2 /\ Len(s) \in Nat
      /\ \A n \in 1 .. Len(u) : u[n] = IF n <= Len(s) THEN s[n] ELSE <<a, b>>[n - Len(s)]
  <2>1. <<a, b>> \in Seq(T) /\ Len(<<a, b>>) = 2
    BY SMT
  <2>2. /\ u \in Seq(T) /\ Len(u) = Len(s) + Len(<<a, b>>)
        /\ \A n \in 1 .. Len(s) + Len(<<a, b>>) :
             u[n] = IF n <= Len(s) THEN s[n] ELSE <<a, b>>[n - Len(s)]
    BY <1>1, <2>1, SeqConcat
  <2>3. Len(s) \in Nat
    BY SeqLen
  <2> QED BY <2>1, <2>2, <2>3
<1>3. /\ t \in Seq(T) /\ Len(t) = Len(s) + 1 /\ t[Len(s) + 1] = a
      /\ \A n \in 1 .. Len(s) : t[n] = s[n]
  BY <1>1, SeqAppend, SMT
<1>4. /\ v \in Seq(T) /\ Len(v) = Len(s) + 2 /\ v[Len(s) + 2] = b
      /\ \A n \in 1 .. Len(s) + 1 : v[n] = t[n]
  <2>1. /\ v \in Seq(T) /\ Len(v) = Len(t) + 1 /\ v[Len(t) + 1] = b
        /\ \A n \in 1 .. Len(t) : v[n] = t[n]
    BY <1>1, <1>3, SeqAppend, SMT
  <2> QED BY <1>2, <1>3, <2>1, SMT
<1>5. ASSUME NEW n \in 1 .. Len(u) PROVE u[n] = v[n]
  <2>1. CASE n <= Len(s)
    BY <1>2, <1>3, <1>4, <2>1, SMT
  <2>2. CASE n = Len(s) + 1
    <3>1. n - Len(s) = 1 /\ ~(n <= Len(s))
      BY <1>2, <2>2, SMT
    <3>2. u[n] = <<a, b>>[1]
      BY <1>2, <3>1
    <3> QED BY <1>2, <1>3, <1>4, <2>2, <3>2, SMT
  <2>3. CASE n = Len(s) + 2
    <3>1. n - Len(s) = 2 /\ ~(n <= Len(s))
      BY <1>2, <2>3, SMT
    <3>2. u[n] = <<a, b>>[2]
      BY <1>2, <3>1
    <3> QED BY <1>2, <1>4, <2>3, <3>2
  <2> QED BY <1>2, <2>1, <2>2, <2>3, SMT
<1>6. u = v
  BY <1>2, <1>4, <1>5, SeqSame
<1> QED BY <1>1, <1>6 DEF Pushed

-----------------------------------------------------------------------------
\* More points, more walks and more outputs do no harm.
LEMMA CoveredGrows ==
  ASSUME NEW p, NEW P, NEW Q, P \subseteq Q, NEW s, NEW ip, Covered(p, P, s, ip)
  PROVE  Covered(p, Q, s, ip)
BY DEF Covered

\* A point stays sound when there are more points, walks and outputs.
LEMMA SoundGrows ==
  ASSUME NEW p, NEW G, NEW H, G \subseteq H, NEW P, NEW Q, P \subseteq Q,
         NEW a, NEW b, a \subseteq b, NEW w, NEW x, Sound(p, G, P, a, w, x)
  PROVE  Sound(p, H, Q, b, w, x)
<1>1. \A s, ip : Covered(p, P, s, ip) => Covered(p, Q, s, ip)
  BY CoveredGrows
<1>2. CASE Ends(p, w, x.ip)
  BY <1>2 DEF Sound
<1>3. CASE ~Ends(p, w, x.ip)
  <2> PICK op : op = At(Text(p, w), x.ip)
    OBVIOUS
  <2>2. Passes(p, G, P, x, op)
    BY <1>3 DEF Sound
  <2>3. Passes(p, H, Q, x, op)
    BY <1>1, <2>2 DEF Passes
  <2> QED BY <1>3, <2>3 DEF Sound
<1> QED BY <1>2, <1>3

\* An effect on its own, without variables.
Single(e) == <<e>>

\* An effect without variables.
Plain(e) == e.input \in Seq(Type) /\ e.output \in Seq(Type)

\* Matching and applying such an effect, when it is the only one.
LEMMA SingleEffect ==
  ASSUME NEW T, NEW s \in Seq(T), NEW e, Plain(e), Has_Match(s, Single(e))
  PROVE  /\ Len(e.input) \in Nat /\ Len(e.input) <= Len(s)
         /\ \A n \in 1 .. Len(e.input) : Same_Type(Upper(s, Len(e.input))[n], e.input[n])
         /\ Apply_First(s, Single(e)) = Join(Lower(s, Len(e.input)), e.output)
<1> PICK i, o, k : i = e.input /\ o = e.output /\ k = Len(i)
  OBVIOUS
<1> i \in Seq(Type) /\ o \in Seq(Type) /\ k \in Nat
  BY SMT DEF Plain
<1>3. Matches(s, e) /\ Apply_First(s, Single(e)) = Apply(s, e)
  <2> PICK effs : effs = Single(e)
    OBVIOUS
  <2>2. Len(effs) = 1 /\ Len(effs) \in 1 .. 3 /\ \A n \in 1 .. Len(effs) : effs[n] = e
    BY SMT DEF Single
  <2> QED BY <2>2, FirstMatch
<1>4. Type \cap Variable = {}
  BY DEF Type, Variable
<1>5. Arguments(s, e) = Upper(s, k)
  BY DEF Arguments, Upper
<1>6. \A n \in 1 .. k : i[n] \in Type /\ i[n] \notin Variable
  BY <1>4, SeqElement
<1>7. \A n \in 1 .. k : Same_Type(Upper(s, k)[n], i[n])
  BY <1>3, <1>5, <1>6 DEF Matches
<1>8. k <= Len(s)
  <2>1. Len(s) >= k /\ Len(s) \in Nat
    BY <1>3, SMT DEF Matches
  <2> QED BY <2>1
<1>9. Given(s, e) = o
  <2>1. \A n \in 1 .. Len(o) : o[n] \notin Variable
    BY <1>4, SeqElement
  <2>2. Given(s, e) = [n \in 1 .. Len(o) |-> IF o[n] \in Variable THEN Bound(s, e, o[n]) ELSE o[n]]
    BY DEF Given
  <2>3. Given(s, e) = [n \in 1 .. Len(o) |-> o[n]]
    BY <2>1, <2>2
  <2>4. o = [n \in 1 .. Len(o) |-> o[n]]
    BY SMT
  <2> QED BY <2>3, <2>4
<1>10. Apply(s, e) = Lower(s, k) \o Given(s, e)
  BY DEF Apply, Lower, Given
<1> QED BY <1>3, <1>7, <1>8, <1>9, <1>10 DEF Join

\* What `if` and `do` take.
Bool_Effect == Single(Effect(<<"Bool">>, <<>>))

\* What a cast takes and leaves.
Cast_Effect(a) == Single(Effect(<<"Any">>, <<a>>))

-----------------------------------------------------------------------------
(* The typechecker at work: the frames of typecheck, and their walks        *)

\* A state of the walk; the typestacks remembered at each `do`; a call of
\* typecheck.
Places(p) == [stack : Stacks(p), ip : Nat]
Visits(p) == UNION {[D -> Stacks(p)] : D \in SUBSET Nat}

\* The calls of typecheck.
Frames(p) ==
  [word : Names(p), states : Seq(Places(p)), visited : Visits(p), known : BOOLEAN,
   output : Stacks(p)]

\* The outputs that a frame knows.
Outs(f) == IF f.known THEN Just(f.output) ELSE {}

\* What is known of a `do` that was walked through with stack s left.
Loops(p, Q, w, s, ip) ==
  Covered(p, Q, s, ip + 1) /\ Covered(p, Q, s, At(Text(p, w), ip).jump)

\* The walk of frame f began with w.input and has met w.points; those in P it
\* has still to look at.
Fits(p, G, f, w, P) ==
  /\ w.input \in Stacks(p) /\ w.points \subseteq Points(p, f.word)
  /\ State(w.input, 0) \in w.points
  /\ P \subseteq w.points
  /\ \A x \in w.points : x \in P \/ Sound(p, G, w.points, Outs(f), f.word, x)
  /\ \A ip \in DOMAIN f.visited : Loops(p, w.points, f.word, f.visited[ip], ip)

\* What a frame that has called another with stack s has still to look at.
Called(f, s) == Elements(Pop(f.states)) \cup {State(s, Top(f.states).ip)}

\* Frame f has called frame h.
Waits(p, f, h) ==
  /\ f.states # <<>> /\ ~Ends(p, f.word, Top(f.states).ip)
  /\ At(Text(p, f.word), Top(f.states).ip).kind = "Call_Symbol"
  /\ At(Text(p, f.word), Top(f.states).ip).arg = h.word
  /\ p.words[h.word].dynamic
  /\ h.known => Top(f.states).stack = h.output

\* The outermost frame: a word that main has typechecked.
Begun(p, f, w) ==
  /\ f.known /\ f.word \in Promised(p)
  /\ w.input = Effect_Of(p, f.word).input /\ f.output = Effect_Of(p, f.word).output

\* The typechecker is at work: G has the walks that are done, W those of the
\* frames.
Progress(p, G, W, fs, pend) ==
  /\ p \in Programs /\ Closed(p, G) /\ fs \in Seq(Frames(p)) /\ pend \subseteq Promised(p)
  /\ fs # <<>> => /\ Fits(p, G, fs[Len(fs)], W[Len(fs)], Elements(fs[Len(fs)].states))
                  /\ Begun(p, fs[1], W[1])
  /\ \A n \in 1 .. Len(fs) - 1 :
       /\ Fits(p, G, fs[n], W[n], Called(fs[n], W[n + 1].input))
       /\ Waits(p, fs[n], fs[n + 1])
  /\ \A w \in Promised(p) \ pend : Has_Walk(p, G, w) \/ (fs # <<>> /\ fs[1].word = w)

\* What is known of a `do` stays true when more points are met.
LEMMA LoopsGrows ==
  ASSUME NEW p, NEW P, NEW Q, P \subseteq Q, NEW w, NEW s, NEW ip, Loops(p, P, w, s, ip)
  PROVE  Loops(p, Q, w, s, ip)
BY CoveredGrows DEF Loops

\* One more walk that relies on the others and itself.
LEMMA ClosedGrows ==
  ASSUME NEW p, NEW G, NEW g, Closed(p, G), NEW H, H = G \cup {g}, Is_Walk(p, H, g)
  PROVE  Closed(p, H)
<1>1. ASSUME NEW h \in G PROVE Is_Walk(p, H, h)
  <2>1. Is_Walk(p, G, h)
    BY DEF Closed
  <2> PICK Q, o, n : Q = h.points /\ o = Just(h.output) /\ n = h.word
    OBVIOUS
  <2>3. \A x \in Q : Sound(p, G, Q, o, n, x)
    BY <2>1 DEF Is_Walk
  <2>4. \A x \in Q : Sound(p, H, Q, o, n, x)
    BY <2>3, SoundGrows
  <2> QED BY <2>1, <2>4 DEF Is_Walk
<1> QED BY <1>1 DEF Closed

\* The frame f2 is f when the point on top has been looked at: the walk has met
\* Q, and what is new in Q is still to be looked at.
Advances(p, G, f, w, f2, Q) ==
  /\ f.states # <<>> /\ f2 \in Frames(p)
  /\ f2.word = f.word /\ f2.known = f.known /\ f2.output = f.output
  /\ w.points \subseteq Q /\ Q \subseteq Points(p, f.word)
  /\ Elements(f2.states) \subseteq Q
  /\ \A y \in Q : y \in w.points \/ y \in Elements(f2.states)
  /\ \A y \in Elements(Pop(f.states)) : y \in Elements(f2.states)
  /\ Sound(p, G, Q, Outs(f), f.word, Top(f.states))
  /\ \A ip \in DOMAIN f2.visited : Loops(p, Q, f.word, f2.visited[ip], ip)

\* The effects of the words that are checked, as stacks.
LEMMA EffectIs ==
  ASSUME NEW p \in Programs, NEW w \in Promised(p)
  PROVE  /\ w \in Names(p) /\ Plain(Effect_Of(p, w))
         /\ Effect_Of(p, w).input \in Stacks(p) /\ Effect_Of(p, w).output \in Stacks(p)
<1>1. CASE w = "main"
  <2>1. Effect_Of(p, w).input = <<>> /\ Effect_Of(p, w).output = <<>>
    BY <1>1 DEF Effect_Of, Effect
  <2>2. <<>> \in Seq(Type) /\ <<>> \in Seq(Slots(p))
    BY SMT
  <2>3. w \in Names(p)
    BY <1>1 DEF Names
  <2> QED BY <2>1, <2>2, <2>3 DEF Plain, Stacks
<1>2. CASE w # "main"
  <2>1. w \in Checked_Words(p) /\ w \in DOMAIN p.words
    BY <1>2 DEF Promised, Checked_Words
  <2>2. PICK i, o : i = p.words[w].effect.input /\ o = p.words[w].effect.output
    OBVIOUS
  <2>3. Effect_Of(p, w).input = i /\ Effect_Of(p, w).output = o
    BY <1>2, <2>2 DEF Effect_Of
  <2>4. i \in Seq(Type) /\ o \in Seq(Type)
    BY <2>1, <2>2, ProgramsAssumption
  <2>5. ASSUME Anyless(p) PROVE i \in Seq(Value) /\ o \in Seq(Value)
    <3>1. /\ \A n \in 1 .. Len(i) : i[n] # "Any"
          /\ \A n \in 1 .. Len(o) : o[n] # "Any"
      BY <2>1, <2>2, <2>5 DEF Anyless
    <3>2. \A n \in 1 .. Len(i) : i[n] \in Value
      BY <2>4, <3>1, SeqElement DEF Value
    <3>3. \A n \in 1 .. Len(o) : o[n] \in Value
      BY <2>4, <3>1, SeqElement DEF Value
    <3> QED BY <2>4, <3>2, <3>3, SMT
  <2>6. i \in Stacks(p) /\ o \in Stacks(p)
    BY <2>4, <2>5 DEF Stacks, Slots
  <2> QED BY <2>1, <2>3, <2>4, <2>6 DEF Plain, Names
<1> QED BY <1>1, <1>2

\* A body has a length.
LEMMA LengthIs ==
  ASSUME NEW p \in Programs, NEW w \in Names(p)
  PROVE  Len(Text(p, w)) \in Nat /\ 0 \in 0 .. Len(Text(p, w))
<1> PICK t : t = Text(p, w)
  OBVIOUS
<1>2. Is_Body(t, DOMAIN p.words)
  BY ProgramsAssumption DEF Text, Names
<1>3. t \in Seq([kind : Operation_Kind, arg : STRING, jump : 0 .. Len(t) \cup {Empty_Jump}])
  BY <1>2 DEF Is_Body
<1> QED BY <1>3, SMT

\* A frame at the beginning of the walk over v, with stack s.
Starts(p, G, f, v, s, k, o) ==
  /\ f \in Frames(p) /\ f.word = v /\ f.known = k /\ f.output = o
  /\ \E w : w.input = s /\ Fits(p, G, f, w, Elements(f.states))

\* A walk at its beginning.
LEMMA FitsFirst ==
  ASSUME NEW p \in Programs, NEW G, NEW v \in Names(p), NEW s \in Stacks(p),
         NEW k \in BOOLEAN, NEW o \in Stacks(p)
  PROVE  Starts(p, G, Frame(v, s, k, o), v, s, k, o)
<1> PICK f : f = Frame(v, s, k, o)
  OBVIOUS
<1> PICK x : x = State(s, 0)
  OBVIOUS
<1>3. f = [word |-> v, states |-> <<x>>, visited |-> <<>>, known |-> k, output |-> o]
  BY DEF Frame
<1>4. x \in Places(p) /\ x \in Points(p, v)
  BY LengthIs DEF Places, Points, State
<1>5. <<>> \in Visits(p)
  <2>1. <<>> \in [{} -> Stacks(p)]
    BY SMT
  <2>2. {} \in SUBSET Nat
    OBVIOUS
  <2> QED BY <2>1, <2>2 DEF Visits
<1>6. <<x>> \in Seq(Places(p))
  BY <1>4, SMT
<1> f \in Frames(p) /\ f.word = v /\ f.known = k /\ f.output = o /\ f.states = <<x>>
    /\ f.visited = <<>>
  BY <1>3, <1>5, <1>6, SMT DEF Frames
<1>8. Elements(f.states) = {x}
  BY SMT DEF Elements
<1>9. PICK w : w = [input |-> s, points |-> {x}]
  OBVIOUS
<1>10. w.input = s /\ w.points = {x}
  BY <1>9
<1>11. DOMAIN f.visited = {}
  BY SMT
<1>12. Fits(p, G, f, w, Elements(f.states))
  BY <1>4, <1>8, <1>10, <1>11 DEF Fits
<1> QED BY <1>10, <1>12 DEF Starts

\* A finished walk.
Walk(v, i, o, Q) == [word |-> v, input |-> i, output |-> o, points |-> Q]

\* A frame with nothing more to look at is a finished walk.
LEMMA FitsLast ==
  ASSUME NEW p, NEW G, Closed(p, G), NEW f \in Frames(p),
         NEW w, Fits(p, G, f, w, Elements(f.states)),
         f.states = <<>>, NEW o \in Stacks(p), f.known => o = f.output
  PROVE  \E g, H : /\ H = G \cup {g} /\ g.word = f.word /\ g.input = w.input /\ g.output = o
                   /\ Closed(p, H)
<1> PICK v, i, Q : v = f.word /\ i = w.input /\ Q = w.points
  OBVIOUS
<1>2. PICK g : g = [word |-> v, input |-> i, output |-> o, points |-> Q]
  OBVIOUS
<1>3. g.word = v /\ g.input = i /\ g.output = o /\ g.points = Q
  BY <1>2
<1> PICK H : H = G \cup {g}
  OBVIOUS
<1> PICK a, c : a = Outs(f) /\ c = Just(o)
  OBVIOUS
<1>6. a \subseteq c
  BY DEF Outs, Just
<1>7. \A x : x \notin Elements(f.states)
  BY SMT DEF Elements
<1>8. /\ i \in Stacks(p) /\ Q \subseteq Points(p, v) /\ State(i, 0) \in Q
      /\ \A x \in Q : Sound(p, G, Q, a, v, x)
  BY <1>7 DEF Fits
<1>9. G \subseteq H
  OBVIOUS
<1>10. \A x \in Q : Sound(p, H, Q, c, v, x)
  BY <1>6, <1>8, <1>9, SoundGrows
<1>11. v \in Names(p)
  BY DEF Frames
<1>12. Is_Walk(p, H, g)
  BY <1>3, <1>8, <1>10, <1>11 DEF Is_Walk
<1>13. Closed(p, H)
  BY <1>12, ClosedGrows
<1> QED BY <1>3, <1>13

\* A word keeps its walk when there are more of them.
LEMMA HasWalkGrows ==
  ASSUME NEW p, NEW G, NEW H, G \subseteq H, NEW w, Has_Walk(p, G, w)
  PROVE  Has_Walk(p, H, w)
BY DEF Has_Walk

\* The frame f2 of f after a path has ended with stack s, and the frame e2 of
\* its caller e.
Takes(p, f, f2, s) ==
  /\ f2 \in Frames(p) /\ f2.word = f.word /\ f2.known /\ f2.output = s
  /\ f2.states = Pop(f.states) /\ f2.visited = f.visited
Gives(p, e, e2, s) ==
  /\ e2 \in Frames(p) /\ e2.word = e.word /\ e2.known = e.known
  /\ e2.output = e.output /\ e2.visited = e.visited /\ e2.states # <<>>
  /\ Pop(e2.states) = Pop(e.states) /\ Top(e2.states).ip = Top(e.states).ip
  /\ Top(e2.states).stack = s

\* The frame e2 of e when what it called has been walked.
Resumes(p, e, e2) ==
  /\ e2 \in Frames(p) /\ e2.word = e.word /\ e2.known = e.known
  /\ e2.output = e.output /\ e2.visited = e.visited /\ e2.states # <<>>
  /\ Pop(e2.states) = Pop(e.states) /\ Top(e2.states).ip = Top(e.states).ip + 1
  /\ Top(e2.states).stack = Top(e.states).stack

-----------------------------------------------------------------------------
(* A frame looks at one more point                                          *)

\* The walk of frame f is at point x, before operation op.
Visits_At(p, f, x, op) ==
  /\ p \in Programs /\ f \in Frames(p) /\ f.states # <<>> /\ x = Top(f.states)
  /\ f.word \in Names(p) /\ x.stack \in Stacks(p) /\ x.ip \in 0 .. Len(Text(p, f.word))
  /\ ~Ends(p, f.word, x.ip) /\ op = At(Text(p, f.word), x.ip)

\* The frame f with the paths t to walk.
With_States(f, t) == [f EXCEPT !.states = t]

\* What that frame is.
LEMMA WithStates ==
  ASSUME NEW p, NEW f \in Frames(p), NEW t \in Seq(Places(p))
  PROVE  /\ With_States(f, t) \in Frames(p) /\ With_States(f, t).states = t
         /\ With_States(f, t).word = f.word /\ With_States(f, t).known = f.known
         /\ With_States(f, t).output = f.output /\ With_States(f, t).visited = f.visited
BY DEF With_States, Frames

\* The frame f2 is f with the points N in the place of the path at the top.
Replaces(p, f, f2, N) ==
  /\ f.states # <<>> /\ f2 \in Frames(p)
  /\ f2.word = f.word /\ f2.known = f.known /\ f2.output = f.output
  /\ N \subseteq Points(p, f.word)
  /\ \A y : y \in Elements(f2.states) <=> y \in Elements(Pop(f.states)) \/ y \in N

\* A frame with new points in the place of the one that was looked at.
LEMMA AdvanceTo ==
  ASSUME NEW p, NEW G, NEW f \in Frames(p), NEW w, Fits(p, G, f, w, Elements(f.states)),
         NEW f2, NEW N, Replaces(p, f, f2, N), NEW Q, Q = w.points \cup N,
         Sound(p, G, Q, Outs(f), f.word, Top(f.states)),
         \A ip \in DOMAIN f2.visited :
            \/ ip \in DOMAIN f.visited /\ f2.visited[ip] = f.visited[ip]
            \/ Loops(p, Q, f.word, f2.visited[ip], ip)
  PROVE  Advances(p, G, f, w, f2, Q)
<1> PICK R, v, s : R = w.points /\ v = f.word /\ s = f.states
  OBVIOUS
<1>2. R \subseteq Points(p, v) /\ Elements(s) \subseteq R
  BY DEF Fits
<1>3. \A y : y \in Elements(s) <=> y \in Elements(Pop(s)) \/ y = Top(s)
  <2>1. PICK B : B = Places(p)
    OBVIOUS
  <2>2. s \in Seq(B) /\ s # <<>>
    BY <2>1 DEF Frames, Replaces
  <2> QED BY <2>2, ElementsPop
<1>4. R \subseteq Q /\ Q \subseteq Points(p, v) /\ Elements(f2.states) \subseteq Q
  BY <1>2, <1>3 DEF Replaces
<1>5. \A y \in Q : y \in R \/ y \in Elements(f2.states)
  BY DEF Replaces
<1>6. \A y \in Elements(Pop(s)) : y \in Elements(f2.states)
  BY DEF Replaces
<1>7. ASSUME NEW ip \in DOMAIN f2.visited PROVE Loops(p, Q, v, f2.visited[ip], ip)
  <2>1. CASE ip \in DOMAIN f.visited /\ f2.visited[ip] = f.visited[ip]
    <3> PICK t : t = f2.visited[ip]
      OBVIOUS
    <3>2. Loops(p, R, v, t, ip)
      BY <2>1 DEF Fits
    <3> QED BY <1>4, <3>2, LoopsGrows
  <2> QED BY <2>1
<1> QED BY <1>4, <1>5, <1>6, <1>7 DEF Advances, Replaces

\* A frame that goes on in one place.
Goes_On(f, f2, y) == f2 = With_States(f, Pushed(Pop(f.states), y))

\* Two things.
Both(y, z) == {y, z}

\* A frame with two points in the place of the path at the top.
LEMMA ReplaceTwo ==
  ASSUME NEW p, NEW f \in Frames(p), f.states # <<>>, NEW y \in Points(p, f.word),
         NEW z \in Points(p, f.word), NEW f2, f2 \in Frames(p),
         f2.states = Pushed(Pushed(Pop(f.states), y), z),
         f2.word = f.word, f2.known = f.known, f2.output = f.output
  PROVE  Replaces(p, f, f2, Both(y, z))
<1>1. PICK B, s, t, u : B = Places(p) /\ s = Pop(f.states) /\ t = Pushed(s, y) /\ u = Pushed(t, z)
  OBVIOUS
<1>2. f.states \in Seq(B) /\ y \in B /\ z \in B
  BY <1>1, SMT DEF Frames, Places, Points
<1>3. s \in Seq(B)
  BY <1>1, <1>2, StackPop
<1>4. t \in Seq(B)
  BY <1>1, <1>2, <1>3, PushIs
<1>5. \A x : x \in Elements(t) <=> x \in Elements(s) \/ x = y
  BY <1>1, <1>2, <1>3, ElementsPush, SMT
<1>6. \A x : x \in Elements(u) <=> x \in Elements(t) \/ x = z
  BY <1>1, <1>2, <1>4, ElementsPush, SMT
<1>7. f2.states = u
  BY <1>1
<1> QED BY <1>1, <1>5, <1>6, <1>7 DEF Replaces, Both

\* A branch: the walk goes on in two places, one after the other.
LEMMA AdvanceBranch ==
  ASSUME NEW p, NEW G, NEW f, NEW x, NEW op, Visits_At(p, f, x, op), NEW w,
         Fits(p, G, f, w, Elements(f.states)),
         NEW y \in Points(p, f.word), NEW z \in Points(p, f.word), NEW s, y.stack = s, z.stack = s,
         \A Q : Covered(p, Q, s, y.ip) /\ Covered(p, Q, s, z.ip) => Passes(p, G, Q, x, op),
         NEW f2, f2 \in Frames(p), f2.states = Pushed(Pushed(Pop(f.states), y), z),
         f2.word = f.word, f2.known = f.known, f2.output = f.output,
         \A Q : Covered(p, Q, s, y.ip) /\ Covered(p, Q, s, z.ip) =>
           \A ip \in DOMAIN f2.visited :
              \/ ip \in DOMAIN f.visited /\ f2.visited[ip] = f.visited[ip]
              \/ Loops(p, Q, f.word, f2.visited[ip], ip)
  PROVE  \E Q : Advances(p, G, f, w, f2, Q)
<1> PICK N, Q : N = Both(y, z) /\ Q = w.points \cup N
  OBVIOUS
<1>2. f \in Frames(p) /\ f.states # <<>>
  BY DEF Visits_At
<1>3. Replaces(p, f, f2, N)
  <2>1. Replaces(p, f, f2, Both(y, z))
    BY <1>2, ReplaceTwo
  <2> QED BY <2>1
<1>4. Covered(p, Q, s, y.ip) /\ Covered(p, Q, s, z.ip)
  <2>1. y \in Q /\ z \in Q /\ Like(p, y.stack, s) /\ Like(p, z.stack, s)
    BY DEF Like, Both
  <2> QED BY <2>1 DEF Covered
<1>5. Passes(p, G, Q, x, op)
  BY <1>4
<1>6. Sound(p, G, Q, Outs(f), f.word, Top(f.states))
  BY <1>5 DEF Sound, Visits_At
<1>8. \A ip \in DOMAIN f2.visited :
            \/ ip \in DOMAIN f.visited /\ f2.visited[ip] = f.visited[ip]
            \/ Loops(p, Q, f.word, f2.visited[ip], ip)
  BY <1>4
<1>9. Advances(p, G, f, w, f2, Q)
  BY <1>2, <1>3, <1>6, <1>8, AdvanceTo
<1> QED BY <1>9

-----------------------------------------------------------------------------
(* The actions of the typechecker                                           *)

\* The typechecker is at work on a program it has so far found nothing wrong with.
Checking == \E G, W : Progress(prog, G, W, frames, pending)

\* Where the typechecker is.
LEMMA WalkAt ==
  ASSUME NEW G, NEW W, Progress(prog, G, W, frames, pending), frames # <<>>
  PROVE  \E f, x : /\ f = Current /\ x = S /\ f \in Frames(prog) /\ prog \in Programs
                   /\ f = frames[Len(frames)] /\ Len(frames) \in Nat \ {0}
                   /\ Ops = Text(prog, f.word)
                   /\ Fits(prog, G, f, W[Len(frames)], Elements(f.states))
                   /\ Current.states # <<>> =>
                        /\ f.states # <<>> /\ x = Top(f.states)
                        /\ x.stack \in Stacks(prog) /\ x.ip \in 0 .. Len(Text(prog, f.word))
                        /\ At_End <=> Ends(prog, f.word, x.ip)
                        /\ ~At_End => Visits_At(prog, f, x, Op)
<1> PICK A, f, x, l : A = Frames(prog) /\ f = frames[l] /\ x = Top(f.states) /\ l = Len(frames)
  OBVIOUS
<1>2. frames \in Seq(A) /\ l \in Nat \ {0} /\ l \in 1 .. Len(frames) /\ prog \in Programs
  BY SMT DEF Progress
<1> f \in A /\ f = Current /\ x = S
  BY <1>2, SeqElement DEF Current, S, Top
<1>4. Fits(prog, G, f, W[l], Elements(f.states))
  BY DEF Progress
<1>5. Ops = Text(prog, f.word)
  BY DEF Ops, Body, Text
<1>6. Op = At(Text(prog, f.word), x.ip)
  BY <1>5 DEF Op
<1>7. At_End <=> Ends(prog, f.word, x.ip)
  BY <1>5, <1>6 DEF At_End, Ends
<1>8. ASSUME f.states # <<>>
      PROVE  /\ x.stack \in Stacks(prog) /\ x.ip \in 0 .. Len(Text(prog, f.word))
             /\ ~At_End => Visits_At(prog, f, x, Op)
  <2> PICK B, t : B = Places(prog) /\ t = f.states
    OBVIOUS
  <2>2. t \in Seq(B) /\ t # <<>> /\ f.word \in Names(prog)
    BY <1>8 DEF Frames
  <2>3. x \in Elements(t)
    BY <2>2, ElementsPop
  <2>4. x \in Points(prog, f.word)
    BY <1>4, <2>3 DEF Fits
  <2>5. x.stack \in Stacks(prog) /\ x.ip \in 0 .. Len(Text(prog, f.word))
    BY <2>4 DEF Points
  <2> QED BY <1>2, <1>6, <1>7, <1>8, <2>2, <2>5 DEF Visits_At
<1> QED BY <1>2, <1>4, <1>5, <1>7, <1>8

\* A step of the call at the top.
LEMMA StepsOn ==
  \A G, W, f2, Q :
    /\ Progress(prog, G, W, frames, pending)
    /\ frames # <<>>
    /\ Advances(prog, G, Current, W[Len(frames)], f2, Q)
    /\ frames' = [frames EXCEPT ![Len(frames)] = f2]
    /\ prog' = prog
    /\ pending' = pending
    => Checking'
\* Looking at a point keeps a walk in progress.
<1>FitsAdvance.
    ASSUME NEW p, NEW G, NEW f \in Frames(p), NEW w, Fits(p, G, f, w, Elements(f.states)),
           NEW f2, NEW Q, Advances(p, G, f, w, f2, Q)
    PROVE  \E w2 : w2.input = w.input /\ Fits(p, G, f2, w2, Elements(f2.states))
  <2> USE <1>FitsAdvance
  <2> PICK R, o, n, s, t, i : /\ R = w.points /\ o = Outs(f) /\ n = f.word /\ i = w.input
                            /\ s = f.states /\ t = f2.states
    OBVIOUS
  <2> /\ s # <<>> /\ f2.word = n /\ Outs(f2) = o
      /\ R \subseteq Q /\ Q \subseteq Points(p, n) /\ Elements(t) \subseteq Q
      /\ \A y \in Q : y \in R \/ y \in Elements(t)
      /\ \A y \in Elements(Pop(s)) : y \in Elements(t)
      /\ Sound(p, G, Q, o, n, Top(s))
      /\ \A ip \in DOMAIN f2.visited : Loops(p, Q, n, f2.visited[ip], ip)
    BY DEF Advances, Outs
  <2>3. /\ i \in Stacks(p) /\ State(i, 0) \in R
        /\ \A x \in R : x \in Elements(s) \/ Sound(p, G, R, o, n, x)
    BY DEF Fits
  <2>4. \A x \in R : x \in Elements(s) \/ Sound(p, G, Q, o, n, x)
    BY <2>3, SoundGrows
  <2>5. \A x : x \in Elements(s) <=> x \in Elements(Pop(s)) \/ x = Top(s)
    <3>1. PICK A : A = Places(p)
      OBVIOUS
    <3>2. s \in Seq(A)
      BY <3>1 DEF Frames
    <3> QED BY <3>2, ElementsPop
  <2>6. \A x \in Q : x \in Elements(t) \/ Sound(p, G, Q, o, n, x)
    BY <2>4, <2>5
  <2>7. PICK w2 : w2 = [input |-> i, points |-> Q]
    OBVIOUS
  <2>8. w2.input = i /\ w2.points = Q
    BY <2>7
  <2>9. Fits(p, G, f2, w2, Elements(t))
    BY <2>3, <2>6, <2>8 DEF Fits
  <2> QED BY <2>8, <2>9

\* So does the frame at the top keep the typechecker at work.
<1>ProgressOn.
    ASSUME NEW p, NEW G, NEW W, NEW fs, NEW pend, Progress(p, G, W, fs, pend),
           NEW l, l = Len(fs), fs # <<>>, NEW f2, NEW Q, Advances(p, G, fs[l], W[l], f2, Q)
    PROVE  \E U : Progress(p, G, U, [fs EXCEPT ![l] = f2], pend)
  <2> USE <1>ProgressOn
  <2>1. PICK A : A = Frames(p)
    OBVIOUS
  <2>2. fs \in Seq(A) /\ l \in Nat \ {0} /\ l \in 1 .. Len(fs) /\ 1 \in 1 .. Len(fs)
    BY <2>1, SMT DEF Progress
  <2>3. PICK f, w : f = fs[l] /\ w = W[l]
    OBVIOUS
  <2>4. f \in A /\ Fits(p, G, f, w, Elements(f.states)) /\ Advances(p, G, f, w, f2, Q)
    BY <2>2, <2>3, SeqElement DEF Progress
  <2>5. PICK w2 : w2.input = w.input /\ Fits(p, G, f2, w2, Elements(f2.states))
    BY <2>1, <2>4, <1>FitsAdvance
  <2>6. PICK z : z = [fs EXCEPT ![l] = f2]
    OBVIOUS
  <2>7. f2 \in A /\ f2.word = f.word /\ f2.known = f.known /\ f2.output = f.output
    BY <2>1, <2>4 DEF Advances
  <2>8. /\ z \in Seq(A) /\ Len(z) = l
        /\ \A n \in 1 .. l : z[n] = IF n = l THEN f2 ELSE fs[n]
    <3>1. /\ [fs EXCEPT ![l] = f2] \in Seq(A) /\ Len([fs EXCEPT ![l] = f2]) = Len(fs)
          /\ \A n \in 1 .. Len(fs) : [fs EXCEPT ![l] = f2][n] = IF n = l THEN f2 ELSE fs[n]
      BY <2>2, <2>7, SeqExcept, SMT
    <3> QED BY <2>6, <3>1
  <2>9. PICK U : U = [n \in 1 .. l |-> IF n = l THEN w2 ELSE W[n]]
    OBVIOUS
  <2>10. z[l] = f2 /\ U[l] = w2 /\ z # <<>>
    BY <2>2, <2>8, <2>9
  <2>11. ASSUME NEW n \in 1 .. l - 1
         PROVE  /\ z[n] = fs[n] /\ U[n] = W[n] /\ U[n + 1].input = W[n + 1].input
                /\ z[n + 1].word = fs[n + 1].word /\ z[n + 1].known = fs[n + 1].known
                /\ z[n + 1].output = fs[n + 1].output
    <3>1. n \in 1 .. l /\ n # l /\ n + 1 \in 1 .. l
      BY <2>2, SMT
    <3>2. CASE n + 1 = l
      BY <2>3, <2>5, <2>7, <2>8, <2>9, <2>10, <3>1, <3>2
    <3>3. CASE n + 1 # l
      <4>1. PICK m : m = n + 1
        OBVIOUS
      <4>2. z[m] = fs[m] /\ U[m] = W[m] /\ z[n] = fs[n] /\ U[n] = W[n]
        BY <2>8, <2>9, <3>1, <3>3, <4>1
      <4> QED BY <4>1, <4>2
    <3> QED BY <3>2, <3>3
  <2>12. ASSUME NEW n \in 1 .. l - 1
         PROVE  /\ Fits(p, G, z[n], U[n], Called(z[n], U[n + 1].input))
                /\ Waits(p, z[n], z[n + 1])
    <3>1. Fits(p, G, fs[n], W[n], Called(fs[n], W[n + 1].input)) /\ Waits(p, fs[n], fs[n + 1])
      BY DEF Progress
    <3>2. Fits(p, G, z[n], U[n], Called(z[n], U[n + 1].input))
      <4>1. z[n] = fs[n] /\ U[n] = W[n] /\ U[n + 1].input = W[n + 1].input
        BY <2>11
      <4> QED BY <3>1, <4>1
    <3>3. Waits(p, z[n], z[n + 1])
      BY <2>11, <3>1 DEF Waits
    <3> QED BY <3>2, <3>3
  <2>13. z[1].word = fs[1].word /\ Begun(p, z[1], U[1])
    <3>1. Begun(p, fs[1], W[1])
      BY DEF Progress
    <3>2. CASE l = 1
      BY <2>3, <2>5, <2>7, <2>10, <3>1, <3>2 DEF Begun
    <3>3. CASE l # 1
      <4>1. 1 \in 1 .. l - 1
        BY <2>2, <3>3, SMT
      <4>2. z[1] = fs[1] /\ U[1] = W[1]
        BY <2>11, <4>1
      <4> QED BY <3>1, <4>2
    <3> QED BY <3>2, <3>3
  <2>14. /\ p \in Programs /\ Closed(p, G) /\ pend \subseteq Promised(p)
         /\ \A v \in Promised(p) \ pend : Has_Walk(p, G, v) \/ (z # <<>> /\ z[1].word = v)
    BY <2>10, <2>13 DEF Progress
  <2>15. Fits(p, G, z[Len(z)], U[Len(z)], Elements(z[Len(z)].states))
    BY <2>5, <2>8, <2>10
  <2>16. Progress(p, G, U, z, pend)
    BY <2>1, <2>8, <2>12, <2>13, <2>14, <2>15 DEF Progress
  <2> QED BY <2>6, <2>16

<1> SUFFICES ASSUME NEW G, NEW W, Progress(prog, G, W, frames, pending), frames # <<>>, NEW f2,
                    NEW Q,
                  Advances(prog, G, Current, W[Len(frames)], f2, Q),
                  frames' = [frames EXCEPT ![Len(frames)] = f2], prog' = prog, pending' = pending
             PROVE  Checking'
  OBVIOUS
<1> PICK l : l = Len(frames)
  OBVIOUS
<1>2. Advances(prog, G, frames[l], W[l], f2, Q)
  BY DEF Current, Top
<1>3. PICK U : Progress(prog, G, U, [frames EXCEPT ![l] = f2], pending)
  BY <1>2, <1>ProgressOn
<1>4. PICK z : z = [frames EXCEPT ![l] = f2]
  OBVIOUS
<1>5. Progress(prog, G, U, z, pending) /\ frames' = z
  BY <1>3, <1>4
<1>6. Progress(prog', G, U, frames', pending')
  BY <1>5
<1> QED BY <1>6 DEF Checking

\* Set_States sets the paths that are left to walk.
LEMMA SetStates ==
  ASSUME NEW t, Set_States(t)
  PROVE  /\ frames' = [frames EXCEPT ![Len(frames)] = With_States(Current, t)]
         /\ prog' = prog /\ pending' = pending /\ status' = status
BY DEF Set_States, With_States, Current, Top

\* A step to one place.
LEMMA GoesOn ==
  \A G, W : \A s \in Stacks(prog) : \A k \in 0 .. Len(Text(prog, Current.word)) :
    /\ Progress(prog, G, W, frames, pending)
    /\ frames # <<>>
    /\ Visits_At(prog, Current, S, Op)
    /\ (\A Q : Covered(prog, Q, s, k) => Passes(prog, G, Q, S, Op))
    /\ Goto(s, k)
    => Checking'
\* It has one point in the place of the path at the top.
<1>ReplaceOne.
    ASSUME NEW p, NEW f \in Frames(p), f.states # <<>>, NEW y \in Points(p, f.word), NEW f2,
           Goes_On(f, f2, y)
    PROVE  Replaces(p, f, f2, Just(y)) /\ f2.visited = f.visited
  <2> USE <1>ReplaceOne
  <2>1. PICK B, s, t : B = Places(p) /\ s = Pop(f.states) /\ t = Pushed(s, y)
    OBVIOUS
  <2>2. f.states \in Seq(B) /\ y \in B
    BY <2>1, SMT DEF Frames, Places, Points
  <2>3. s \in Seq(B)
    BY <2>1, <2>2, StackPop
  <2>4. t \in Seq(B) /\ \A z : z \in Elements(t) <=> z \in Elements(s) \/ z = y
    <3>1. t \in Seq(B)
      BY <2>1, <2>2, <2>3, PushIs
    <3>2. \A z : z \in Elements(t) <=> z \in Elements(s) \/ z = y
      BY <2>1, <2>2, <2>3, ElementsPush
    <3> QED BY <3>1, <3>2
  <2>5. /\ f2 \in Frames(p) /\ f2.states = t /\ f2.word = f.word /\ f2.known = f.known
        /\ f2.output = f.output /\ f2.visited = f.visited
    <3>1. f2 = With_States(f, t)
      BY <2>1 DEF Goes_On
    <3> QED BY <2>1, <2>4, <3>1, WithStates, SMT
  <2> QED BY <2>1, <2>4, <2>5 DEF Replaces, Just

\* An operation with one successor.
<1>AdvanceOne.
    ASSUME NEW p, NEW G, NEW f, NEW x, NEW op, Visits_At(p, f, x, op), NEW w,
           Fits(p, G, f, w, Elements(f.states)),
           NEW s \in Stacks(p), NEW k \in 0 .. Len(Text(p, f.word)),
           \A Q : Covered(p, Q, s, k) => Passes(p, G, Q, x, op),
           NEW f2, Goes_On(f, f2, State(s, k))
    PROVE  \E Q : Advances(p, G, f, w, f2, Q)
  <2> USE <1>AdvanceOne
  <2> PICK y, N, Q : y = State(s, k) /\ N = Just(y) /\ Q = w.points \cup N
    OBVIOUS
  <2>2. y \in Points(p, f.word) /\ y.stack = s /\ y.ip = k
    BY DEF Points, State
  <2>3. Replaces(p, f, f2, N) /\ f2.visited = f.visited
    <3>1. f \in Frames(p) /\ f.states # <<>> /\ Goes_On(f, f2, y)
      BY DEF Visits_At
    <3>2. Replaces(p, f, f2, Just(y)) /\ f2.visited = f.visited
      BY <2>2, <3>1, <1>ReplaceOne
    <3> QED BY <3>2
  <2>4. Covered(p, Q, s, k)
    <3>1. y \in Q /\ Like(p, y.stack, s)
      BY <2>2 DEF Like, Just
    <3> QED BY <2>2, <3>1 DEF Covered
  <2>5. Passes(p, G, Q, x, op)
    BY <2>4
  <2>6. Sound(p, G, Q, Outs(f), f.word, Top(f.states))
    BY <2>5 DEF Sound, Visits_At
  <2>7. f \in Frames(p)
    BY DEF Visits_At
  <2>8. \A ip \in DOMAIN f2.visited :
              \/ ip \in DOMAIN f.visited /\ f2.visited[ip] = f.visited[ip]
              \/ Loops(p, Q, f.word, f2.visited[ip], ip)
    BY <2>3
  <2>9. Advances(p, G, f, w, f2, Q)
    BY <2>3, <2>6, <2>7, <2>8, AdvanceTo
  <2> QED BY <2>9

<1> SUFFICES ASSUME NEW G, NEW W, Progress(prog, G, W, frames, pending), frames # <<>>,
                  Visits_At(prog, Current, S, Op), NEW s \in Stacks(prog),
                  NEW k \in 0 .. Len(Text(prog, Current.word)),
                  \A Q : Covered(prog, Q, s, k) => Passes(prog, G, Q, S, Op), Goto(s, k)
             PROVE  Checking'
  OBVIOUS
<1> PICK f, x, op, y, w : f = Current /\ x = S /\ op = Op /\ y = State(s, k) /\ w = W[Len(frames)]
  OBVIOUS
<1>2. Fits(prog, G, f, w, Elements(f.states))
  BY WalkAt
<1> PICK f2 : f2 = With_States(f, Pushed(Pop(f.states), y))
  OBVIOUS
<1>4. Goes_On(f, f2, y)
  BY DEF Goes_On
<1>5. Visits_At(prog, f, x, op) /\ k \in 0 .. Len(Text(prog, f.word)) /\ Goes_On(f, f2, State(s, k))
  BY <1>4
<1>6. PICK Q : Advances(prog, G, f, w, f2, Q)
  <2>1. \A P : Covered(prog, P, s, k) => Passes(prog, G, P, x, op)
    OBVIOUS
  <2> QED BY <1>2, <1>5, <2>1, <1>AdvanceOne
<1>7. Set_States(Pushed(Pop(f.states), y))
  BY DEF Goto, Pushed
<1> PICK t : t = Pushed(Pop(f.states), y)
  OBVIOUS
<1>9. /\ frames' = [frames EXCEPT ![Len(frames)] = With_States(Current, t)]
      /\ prog' = prog /\ pending' = pending
  BY <1>7, SetStates
<1>10. frames' = [frames EXCEPT ![Len(frames)] = f2]
  BY <1>9
<1>11. Advances(prog, G, Current, W[Len(frames)], f2, Q)
  BY <1>6
<1> QED BY <1>9, <1>10, <1>11, StepsOn

\* The effects an operation is checked against, by its kind.
LEMMA EffectsAre ==
  /\ Op.kind = "Cast" => Effects = Cast_Effect(Op.arg)
  /\ Op.kind \in {"If", "Do"} => Effects = Bool_Effect
  /\ Op.kind = "Call_Symbol" => Effects = Single(prog.words[Op.arg].effect)
  /\ Op.kind = "Intrinsic" => Effects = Intrinsic_Effects(Op.arg)
<1> PICK k : k = Op.kind
  OBVIOUS
<1>2. k = "Cast" => Effects = Cast_Effect(Op.arg)
  BY DEF Effects, Cast_Effect, Single
<1>3. k \in {"If", "Do"} => Effects = Bool_Effect
  <2>1. k \in {"If", "Do"} => k # "Cast"
    OBVIOUS
  <2> QED BY <2>1 DEF Effects, Bool_Effect, Single
<1>4. k = "Call_Symbol" => Effects = Single(prog.words[Op.arg].effect)
  <2>1. k = "Call_Symbol" => k # "Cast" /\ k \notin {"If", "Do"}
    OBVIOUS
  <2> QED BY <2>1 DEF Effects, Single
<1>5. k = "Intrinsic" => Effects = Intrinsic_Effects(Op.arg)
  <2>1. k = "Intrinsic" => k # "Cast" /\ k \notin {"If", "Do"} /\ k # "Call_Symbol"
    OBVIOUS
  <2> QED BY <2>1 DEF Effects
<1> QED BY <1>2, <1>3, <1>4, <1>5

\* What a visit finds.
LEMMA VisitAt ==
  ASSUME NEW G, NEW W, Progress(prog, G, W, frames, pending), NEW K, Visit(K)
  PROVE  /\ frames # <<>> /\ Op.kind \in K /\ Visits_At(prog, Current, S, Op)
         /\ S.stack \in Stacks(prog)
<1>1. frames # <<>> /\ Current.states # <<>> /\ ~At_End /\ Op.kind \in K
  BY DEF Visit, Walking
<1>2. Visits_At(prog, Current, S, Op)
  BY <1>1, WalkAt
<1> QED BY <1>1, <1>2 DEF Visits_At

\* A push keeps the typechecker at work.
LEMMA PushKeeps == Checking /\ Push_Value => Checking'
\* A push goes on with one more type.
<1>PassPush.
    ASSUME NEW p, NEW G, NEW f, NEW x, NEW op, Visits_At(p, f, x, op),
           op.kind \in {"Push_Int", "Push_Symbol"},
           NEW s, s = Pushed(x.stack, IF op.kind = "Push_Int" THEN op.arg ELSE "Pointer")
    PROVE  /\ s \in Stacks(p) /\ x.ip + 1 \in 0 .. Len(Text(p, f.word))
           /\ \A Q : Covered(p, Q, s, x.ip + 1) => Passes(p, G, Q, x, op)
  <2> USE <1>PassPush
  <2> PICK a, ip, v, t : /\ a = IF op.kind = "Push_Int" THEN op.arg ELSE "Pointer"
                         /\ ip = x.ip /\ v = f.word /\ t = x.stack
    OBVIOUS
  <2>2. /\ p \in Programs /\ v \in Names(p) /\ ip \in 0 .. Len(Text(p, v)) /\ ~Ends(p, v, ip)
        /\ op = At(Text(p, v), ip) /\ t \in Stacks(p)
    BY DEF Visits_At
  <2>3. ip + 1 \in 0 .. Len(Text(p, v)) /\ (op.kind = "Push_Int" => op.arg \in {"Int", "Bool"})
    BY <2>2, TextIs
  <2>4. a \in Slots(p)
    BY <2>3, SlotsAre DEF Value, Type
  <2>5. s \in Stacks(p)
    BY <2>2, <2>4, PushIs DEF Stacks
  <2>6. \A Q : Covered(p, Q, s, x.ip + 1) => Passes(p, G, Q, x, op)
    <3>1. \A k \in {"Push_Int", "Push_Symbol"} :
            k \notin {"Cast", "Intrinsic", "If", "Do", "Else", "End", "While", "Call_Symbol"}
      OBVIOUS
    <3>2. op.kind \notin {"Cast", "Intrinsic", "If", "Do", "Else", "End", "While", "Call_Symbol"}
      BY <3>1
    <3> QED BY <3>2 DEF Passes
  <2> QED BY <2>3, <2>5, <2>6

<1> SUFFICES ASSUME Checking, Push_Value
             PROVE  Checking'
  OBVIOUS
<1> PICK G, W : Progress(prog, G, W, frames, pending)
  BY DEF Checking
<1>2. /\ frames # <<>> /\ Op.kind \in {"Push_Int", "Push_Symbol"} /\ Visits_At(prog, Current, S, Op)
  BY VisitAt DEF Push_Value
<1> PICK s, k : s = Pushed(S.stack, IF Op.kind = "Push_Int" THEN Op.arg ELSE "Pointer")
                /\ k = S.ip + 1
  OBVIOUS
<1>4. Goto(s, k)
  BY DEF Push_Value, Pushed
<1>5. /\ s \in Stacks(prog) /\ k \in 0 .. Len(Text(prog, Current.word))
      /\ \A Q : Covered(prog, Q, s, k) => Passes(prog, G, Q, S, Op)
  BY <1>2, <1>PassPush
<1> QED BY <1>2, <1>4, <1>5, GoesOn

\* So does an operation that is checked against its effects.
LEMMA EffectKeeps == Checking /\ Apply_Effect => Checking'
\* A cast gives the top value another type.
<1>CastEffect.
    ASSUME NEW T, NEW s \in Seq(T), NEW a \in Type, a \in T, Has_Match(s, Cast_Effect(a))
    PROVE  /\ s # <<>>
           /\ Apply_First(s, Cast_Effect(a)) = Pushed(Pop(s), a)
  <2> USE <1>CastEffect
  <2>1. PICK e : e = Effect(<<"Any">>, <<a>>) /\ Cast_Effect(a) = Single(e)
    BY DEF Cast_Effect
  <2>2. Plain(e) /\ Len(e.input) = 1 /\ e.output = <<a>>
    BY <2>1, SMT DEF Plain, Effect, Type
  <2>3. /\ Len(e.input) <= Len(s)
        /\ Apply_First(s, Single(e)) = Join(Lower(s, Len(e.input)), e.output)
    BY <2>1, <2>2, SingleEffect
  <2>4. Len(s) \in Nat /\ 1 <= Len(s) /\ s # <<>>
    BY <2>2, <2>3, SMT
  <2>5. PICK b, c : b = Lower(s, 1) /\ c = <<a>>
    OBVIOUS
  <2>6. b \in Seq(T)
    BY <2>4, <2>5, Split
  <2>7. Append(b, a) = b \o <<a>>
    BY <2>6, SeqAppendConcat
  <2>8. Pop(s) = b
    BY <2>5 DEF Pop, Lower
  <2>9. Pushed(b, a) = Join(b, c)
    BY <2>5, <2>7 DEF Pushed, Join
  <2> QED BY <2>1, <2>2, <2>3, <2>4, <2>5, <2>8, <2>9

\* What a call checks: the arguments by type, then the outputs in their place.
<1>CallEffect.
    ASSUME NEW p, NEW s \in Stacks(p), NEW e, Plain(e), Has_Match(s, Single(e)),
           Anyless(p) => e.input \in Seq(Value) /\ e.output \in Seq(Value)
    PROVE  /\ Len(e.input) <= Len(s)
           /\ Anyless(p) => Upper(s, Len(e.input)) = e.input
           /\ Apply_First(s, Single(e)) = Join(Lower(s, Len(e.input)), e.output)
           /\ Join(Lower(s, Len(e.input)), e.output) \in Stacks(p)
  <2> USE <1>CallEffect
  <2> PICK A, i, o, k : A = Slots(p) /\ i = e.input /\ o = e.output /\ k = Len(i)
    OBVIOUS
  <2>2. s \in Seq(A) /\ i \in Seq(Type) /\ o \in Seq(Type)
    BY DEF Stacks, Plain
  <2>3. /\ k \in Nat /\ k <= Len(s)
        /\ \A n \in 1 .. k : Same_Type(Upper(s, k)[n], i[n])
        /\ Apply_First(s, Single(e)) = Join(Lower(s, k), o)
    BY <2>2, SingleEffect
  <2>4. Upper(s, k) \in Seq(A) /\ Len(Upper(s, k)) = k /\ Lower(s, k) \in Seq(A)
    BY <2>2, <2>3, Split, SMT
  <2>5. ASSUME Anyless(p) PROVE Upper(s, k) = i
    <3> PICK u : u = Upper(s, k)
      OBVIOUS
    <3>2. u \in Seq(Value) /\ i \in Seq(Value) /\ Len(u) = k
      BY <2>4, <2>5 DEF Slots
    <3>3. \A n \in 1 .. k : u[n] \in Value /\ i[n] \in Value
      BY <3>2, SeqElement
    <3>4. \A n \in 1 .. k : u[n] = i[n]
      BY <2>3, <3>3 DEF Value, Same_Type
    <3> QED BY <3>2, <3>4, SeqSame
  <2>6. o \in Seq(A)
    BY <2>2 DEF Slots
  <2>7. Join(Lower(s, k), o) \in Seq(A)
    BY <2>4, <2>6, JoinIs
  <2> QED BY <2>3, <2>5, <2>7 DEF Stacks

\* A cast needs a value.
<1>PassCast.
    ASSUME NEW p, NEW G, NEW f, NEW x, NEW op, Visits_At(p, f, x, op), op.kind = "Cast",
           Has_Match(x.stack, Cast_Effect(op.arg)),
           NEW s, s = Apply_First(x.stack, Cast_Effect(op.arg))
    PROVE  /\ s \in Stacks(p) /\ x.ip + 1 \in 0 .. Len(Text(p, f.word))
           /\ \A Q : Covered(p, Q, s, x.ip + 1) => Passes(p, G, Q, x, op)
  <2> USE <1>PassCast
  <2> PICK a, ip, v, t, A : a = op.arg /\ ip = x.ip /\ v = f.word /\ t = x.stack /\ A = Slots(p)
    OBVIOUS
  <2>2. /\ p \in Programs /\ v \in Names(p) /\ ip \in 0 .. Len(Text(p, v)) /\ ~Ends(p, v, ip)
        /\ op = At(Text(p, v), ip) /\ t \in Stacks(p)
    BY DEF Visits_At
  <2>3. ip + 1 \in 0 .. Len(Text(p, v)) /\ a \in Type /\ (Anyless(p) => a # "Any")
    BY <2>2, TextIs
  <2>4. a \in A /\ t \in Seq(A)
    BY <2>2, <2>3 DEF Slots, Value, Stacks
  <2>5. Has_Match(t, Cast_Effect(a)) /\ s = Apply_First(t, Cast_Effect(a))
    OBVIOUS
  <2>6. t # <<>> /\ s = Pushed(Pop(t), a)
    BY <2>3, <2>4, <2>5, <1>CastEffect, SMT
  <2> PICK r : r = Pop(t)
    OBVIOUS
  <2>8. r \in Seq(A)
    BY <2>4, <2>6, StackPop
  <2>9. s \in Stacks(p)
    <3>1. Pushed(r, a) \in Seq(A)
      BY <2>4, <2>8, PushIs
    <3> QED BY <2>6, <3>1 DEF Stacks
  <2>10. \A Q : Covered(p, Q, s, x.ip + 1) => Passes(p, G, Q, x, op)
    BY <2>6 DEF Passes
  <2> QED BY <2>3, <2>9, <2>10

\* An intrinsic needs one of its effects to match.
<1>PassIntrinsic.
    ASSUME NEW p, NEW G, NEW f, NEW x, NEW op, Visits_At(p, f, x, op), op.kind = "Intrinsic",
           op.arg # "Call", Has_Match(x.stack, Intrinsic_Effects(op.arg)),
           NEW s, s = Apply_First(x.stack, Intrinsic_Effects(op.arg))
    PROVE  /\ s \in Stacks(p) /\ x.ip + 1 \in 0 .. Len(Text(p, f.word))
           /\ \A Q : Covered(p, Q, s, x.ip + 1) => Passes(p, G, Q, x, op)
  <2> USE <1>PassIntrinsic
  <2> PICK a, ip, v, t, A : a = op.arg /\ ip = x.ip /\ v = f.word /\ t = x.stack /\ A = Slots(p)
    OBVIOUS
  <2>2. /\ p \in Programs /\ v \in Names(p) /\ ip \in 0 .. Len(Text(p, v)) /\ ~Ends(p, v, ip)
        /\ op = At(Text(p, v), ip) /\ t \in Stacks(p)
    BY DEF Visits_At
  <2>3. ip + 1 \in 0 .. Len(Text(p, v)) /\ a \in Intrinsic_Kind
    BY <2>2, TextIs
  <2>4. Value \subseteq A /\ t \in Seq(A) /\ a \in Intrinsic_Kind \ {"Call"}
    BY <2>2, <2>3, SlotsAre DEF Stacks
  <2>5. Has_Match(t, Intrinsic_Effects(a)) /\ s = Apply_First(t, Intrinsic_Effects(a))
    OBVIOUS
  <2>6. s \in Seq(A)
    BY <2>4, <2>5, IntrinsicTyped
  <2>10. \A Q : Covered(p, Q, s, x.ip + 1) => Passes(p, G, Q, x, op)
    BY DEF Passes
  <2> QED BY <2>3, <2>6, <2>10 DEF Stacks

\* A call of a word with an effect needs this effect to match.
<1>PassCall.
    ASSUME NEW p, NEW G, NEW f, NEW x, NEW op, Visits_At(p, f, x, op), op.kind = "Call_Symbol",
           ~p.words[op.arg].dynamic, p.words[op.arg].has_effect,
           Has_Match(x.stack, Single(p.words[op.arg].effect)),
           NEW s, s = Apply_First(x.stack, Single(p.words[op.arg].effect))
    PROVE  /\ s \in Stacks(p) /\ x.ip + 1 \in 0 .. Len(Text(p, f.word))
           /\ \A Q : Covered(p, Q, s, x.ip + 1) => Passes(p, G, Q, x, op)
  <2> USE <1>PassCall
  <2>1. PICK a, ip, v, t, e : /\ a = op.arg /\ ip = x.ip /\ v = f.word /\ t = x.stack
                              /\ e = p.words[a].effect
    OBVIOUS
  <2>2. /\ p \in Programs /\ v \in Names(p) /\ ip \in 0 .. Len(Text(p, v)) /\ ~Ends(p, v, ip)
        /\ op = At(Text(p, v), ip) /\ t \in Stacks(p)
    BY <2>1 DEF Visits_At
  <2>3. ip + 1 \in 0 .. Len(Text(p, v)) /\ a \in DOMAIN p.words
    BY <2>1, <2>2, TextIs
  <2>4. a \in Checked_Words(p) /\ a # "main"
    BY <2>1, <2>2, <2>3, ProgramsAssumption DEF Checked_Words
  <2>5. Effect_Of(p, a) = e /\ a \in Promised(p)
    BY <2>1, <2>4 DEF Effect_Of, Promised
  <2>6. Plain(e) /\ e.input \in Stacks(p) /\ e.output \in Stacks(p)
    BY <2>2, <2>5, EffectIs
  <2>7. Anyless(p) => e.input \in Seq(Value) /\ e.output \in Seq(Value)
    BY <2>6 DEF Stacks, Slots
  <2>8. Has_Match(t, Single(e)) /\ s = Apply_First(t, Single(e))
    BY <2>1
  <2>9. /\ Len(e.input) <= Len(t)
        /\ Anyless(p) => Upper(t, Len(e.input)) = e.input
        /\ s = Join(Lower(t, Len(e.input)), e.output)
        /\ s \in Stacks(p)
    <3>1. t \in Stacks(p) /\ Plain(e) /\ Has_Match(t, Single(e))
      BY <2>2, <2>6, <2>8
    <3>2. /\ Len(e.input) <= Len(t)
          /\ Anyless(p) => Upper(t, Len(e.input)) = e.input
          /\ Apply_First(t, Single(e)) = Join(Lower(t, Len(e.input)), e.output)
          /\ Join(Lower(t, Len(e.input)), e.output) \in Stacks(p)
      BY ONLY <2>7, <3>1, <1>CallEffect
    <3> QED BY <2>8, <3>2
  <2>10. \A Q : Covered(p, Q, s, x.ip + 1) => Passes(p, G, Q, x, op)
    BY <2>1, <2>4, <2>9 DEF Passes
  <2> QED BY <2>1, <2>3, <2>9, <2>10

\* An operation that has effects to be matched with.
<1>HasEffects.
    ASSUME Has_Effects
    PROVE  /\ Op.kind = "Call_Symbol" => ~prog.words[Op.arg].dynamic
              /\ prog.words[Op.arg].has_effect
           /\ Op.kind = "Intrinsic" => Op.arg # "Call"
  <2> USE <1>HasEffects
  <2> PICK k : k = Op.kind
    OBVIOUS
  <2>2. k = "Call_Symbol" => ~prog.words[Op.arg].dynamic /\ prog.words[Op.arg].has_effect
    BY DEF Has_Effects
  <2>3. k = "Intrinsic" => Op.arg # "Call"
    <3>1. k = "Intrinsic" => k # "Call_Symbol"
      OBVIOUS
    <3> QED BY <3>1 DEF Has_Effects
  <2> QED BY <2>2, <2>3

<1> SUFFICES ASSUME Checking, Apply_Effect
             PROVE  Checking'
  OBVIOUS
<1> PICK G, W : Progress(prog, G, W, frames, pending)
  BY DEF Checking
<1> /\ frames # <<>> /\ Op.kind \in {"Cast", "Intrinsic", "Call_Symbol"}
    /\ Visits_At(prog, Current, S, Op)
  BY VisitAt DEF Apply_Effect
<1> PICK s, k, v : s = Apply_First(S.stack, Effects) /\ k = S.ip + 1 /\ v = Current.word
  OBVIOUS
<1> Goto(s, k) /\ Has_Effects /\ Has_Match(S.stack, Effects)
  BY DEF Apply_Effect
<1>5. /\ s \in Stacks(prog) /\ k \in 0 .. Len(Text(prog, v))
      /\ \A Q : Covered(prog, Q, s, k) => Passes(prog, G, Q, S, Op)
  <2>1. CASE Op.kind = "Cast"
    <3>1. Has_Match(S.stack, Cast_Effect(Op.arg)) /\ s = Apply_First(S.stack, Cast_Effect(Op.arg))
      BY <2>1, EffectsAre
    <3> QED BY <2>1, <3>1, <1>PassCast
  <2>2. CASE Op.kind = "Intrinsic"
    <3>1. /\ Has_Match(S.stack, Intrinsic_Effects(Op.arg))
          /\ s = Apply_First(S.stack, Intrinsic_Effects(Op.arg)) /\ Op.arg # "Call"
      BY <2>2, EffectsAre, <1>HasEffects
    <3> QED BY <2>2, <3>1, <1>PassIntrinsic
  <2>3. CASE Op.kind = "Call_Symbol"
    <3>1. /\ Has_Match(S.stack, Single(prog.words[Op.arg].effect))
          /\ s = Apply_First(S.stack, Single(prog.words[Op.arg].effect))
          /\ ~prog.words[Op.arg].dynamic /\ prog.words[Op.arg].has_effect
      BY <2>3, EffectsAre, <1>HasEffects
    <3> QED BY <2>3, <3>1, <1>PassCall
  <2> QED BY <2>1, <2>2, <2>3
<1> QED BY <1>5, GoesOn

\* So do jumps and `while`.
LEMMA JumpKeeps == Checking /\ (Follow_Jump \/ Check_While) => Checking'
\* `else` and `end` go on where they jump to.
<1>PassJump.
    ASSUME NEW p, NEW G, NEW f, NEW x, NEW op, Visits_At(p, f, x, op),
           op.kind \in {"Else", "End"}, op.jump # Empty_Jump
    PROVE  /\ op.jump \in 0 .. Len(Text(p, f.word))
           /\ \A Q : Covered(p, Q, x.stack, op.jump) => Passes(p, G, Q, x, op)
  <2> USE <1>PassJump
  <2>1. PICK ip, v : ip = x.ip /\ v = f.word
    OBVIOUS
  <2>2. /\ p \in Programs /\ v \in Names(p) /\ ip \in 0 .. Len(Text(p, v)) /\ ~Ends(p, v, ip)
        /\ op = At(Text(p, v), ip)
    BY <2>1 DEF Visits_At
  <2>3. op.jump \in 0 .. Len(Text(p, v))
    BY <2>2, TextIs
  <2>4. \A Q : Covered(p, Q, x.stack, op.jump) => Passes(p, G, Q, x, op)
    <3>1. \A k \in {"Else", "End"} :
            k \notin {"Push_Int", "Push_Symbol", "Cast", "Intrinsic", "If", "Do", "While", "Call_Symbol"}
      OBVIOUS
    <3>2. op.kind \notin {"Push_Int", "Push_Symbol", "Cast", "Intrinsic", "If", "Do", "While", "Call_Symbol"}
      BY <3>1
    <3> QED BY <3>2 DEF Passes
  <2> QED BY <2>1, <2>3, <2>4

\* `while` goes on.
<1>PassWhile.
    ASSUME NEW p, NEW G, NEW f, NEW x, NEW op, Visits_At(p, f, x, op), op.kind = "While"
    PROVE  /\ x.ip + 1 \in 0 .. Len(Text(p, f.word))
           /\ \A Q : Covered(p, Q, x.stack, x.ip + 1) => Passes(p, G, Q, x, op)
  <2> USE <1>PassWhile
  <2> PICK ip, v : ip = x.ip /\ v = f.word
    OBVIOUS
  <2>2. /\ p \in Programs /\ v \in Names(p) /\ ip \in 0 .. Len(Text(p, v)) /\ ~Ends(p, v, ip)
        /\ op = At(Text(p, v), ip)
    BY DEF Visits_At
  <2>3. ip + 1 \in 0 .. Len(Text(p, v))
    BY <2>2, TextIs
  <2>4. \A Q : Covered(p, Q, x.stack, x.ip + 1) => Passes(p, G, Q, x, op)
    BY DEF Passes
  <2> QED BY <2>3, <2>4

<1> SUFFICES ASSUME Checking, Follow_Jump \/ Check_While
             PROVE  Checking'
  OBVIOUS
<1> PICK G, W : Progress(prog, G, W, frames, pending)
  BY DEF Checking
<1> PICK s, v, x : s = S.stack /\ v = Current.word /\ x = S
  OBVIOUS
<1>3. CASE Follow_Jump
  <2>1. /\ frames # <<>> /\ Op.kind \in {"Else", "End"} /\ Visits_At(prog, Current, S, Op)
        /\ s \in Stacks(prog)
    BY <1>3, VisitAt DEF Follow_Jump
  <2> PICK k : k = Op.jump
    OBVIOUS
  <2>3. Goto(s, k) /\ Op.jump # Empty_Jump
    BY <1>3 DEF Follow_Jump
  <2>4. k \in 0 .. Len(Text(prog, v)) /\ \A Q : Covered(prog, Q, s, k) => Passes(prog, G, Q, S, Op)
    BY <2>1, <2>3, <1>PassJump
  <2> QED BY <2>1, <2>3, <2>4, GoesOn
<1>4. CASE Check_While
  <2>1. /\ frames # <<>> /\ Op.kind = "While" /\ Visits_At(prog, Current, S, Op)
        /\ s \in Stacks(prog)
    <3>1. Visit({"While"})
      BY <1>4 DEF Check_While
    <3> PICK K : K = {"While"}
      OBVIOUS
    <3>3. /\ frames # <<>> /\ Op.kind \in K /\ Visits_At(prog, Current, S, Op)
             /\ S.stack \in Stacks(prog)
      BY <3>1, VisitAt
    <3> QED BY <3>3
  <2> PICK k : k = S.ip + 1
    OBVIOUS
  <2>3. Goto(s, k)
    BY <1>4 DEF Check_While
  <2>4. k \in 0 .. Len(Text(prog, v)) /\ \A Q : Covered(prog, Q, s, k) => Passes(prog, G, Q, S, Op)
    BY <2>1, <1>PassWhile
  <2> QED BY <2>1, <2>3, <2>4, GoesOn
<1> QED BY <1>3, <1>4

\* A branch puts two paths in the place of one.
LEMMA BranchAt ==
  \A G, W, s :
    /\ Progress(prog, G, W, frames, pending)
    /\ (Visit({"If"}) \/ Visit({"Do"}))
    /\ Has_Match(S.stack, Effects)
    /\ s = Apply_First(S.stack, Effects)
    => /\ frames # <<>> /\ Visits_At(prog, Current, S, Op) /\ s \in Stacks(prog)
       /\ Pop(Current.states) \in Seq(Places(prog))
       /\ Fits(prog, G, Current, W[Len(frames)], Elements(Current.states))
       /\ State(s, S.ip + 1) \in Points(prog, Current.word)
       /\ Op.jump # Empty_Jump => State(s, Op.jump) \in Points(prog, Current.word)
       /\ \A Q : Covered(prog, Q, s, S.ip + 1) /\ Covered(prog, Q, s, Op.jump)
          => Passes(prog, G, Q, S, Op)
\* A condition is the boolean on top, and is popped.
<1>BoolEffect.
    ASSUME NEW T, NEW s \in Seq(T), Has_Match(s, Bool_Effect)
    PROVE  /\ s # <<>> /\ Same_Type(Top(s), "Bool")
           /\ Apply_First(s, Bool_Effect) = Pop(s)
  <2> USE <1>BoolEffect
  <2>1. PICK e : e = Effect(<<"Bool">>, <<>>) /\ Bool_Effect = Single(e)
    BY DEF Bool_Effect
  <2>2. Plain(e) /\ Len(e.input) = 1 /\ e.input[1] = "Bool" /\ e.output = <<>>
    BY <2>1, SMT DEF Plain, Effect, Type
  <2>3. /\ Len(e.input) <= Len(s)
        /\ \A n \in 1 .. Len(e.input) : Same_Type(Upper(s, Len(e.input))[n], e.input[n])
        /\ Apply_First(s, Single(e)) = Join(Lower(s, Len(e.input)), e.output)
    BY <2>1, <2>2, SingleEffect
  <2>4. Len(s) \in Nat /\ 1 <= Len(s)
    BY <2>2, <2>3, SMT
  <2>5. Lower(s, 1) \in Seq(T) /\ Upper(s, 1)[1] = s[Len(s) - 1 + 1]
    BY <2>4, Split, SMT
  <2>6. Upper(s, 1)[1] = Top(s)
    <3>1. Len(s) - 1 + 1 = Len(s)
      BY <2>4, SMT
    <3> QED BY <2>5, <3>1 DEF Top
  <2>7. Pop(s) = Lower(s, 1)
    BY DEF Pop, Lower
  <2>8. Join(Lower(s, 1), <<>>) = Lower(s, 1)
    BY <2>5, JoinEmpty
  <2>9. Same_Type(Upper(s, 1)[1], "Bool")
    <3>1. 1 \in 1 .. 1
      BY SMT
    <3> QED BY <2>2, <2>3, <3>1
  <2>10. s # <<>>
    BY <2>4, SMT
  <2> QED BY <2>1, <2>2, <2>3, <2>6, <2>7, <2>8, <2>9, <2>10

\* `if` and `do` need a boolean and go on in two places.
<1>PassBranch.
    ASSUME NEW p, NEW G, NEW f, NEW x, NEW op, Visits_At(p, f, x, op),
           op.kind \in {"If", "Do"}, Has_Match(x.stack, Bool_Effect),
           NEW s, s = Apply_First(x.stack, Bool_Effect)
    PROVE  /\ s \in Stacks(p) /\ x.ip + 1 \in 0 .. Len(Text(p, f.word))
           /\ op.jump # Empty_Jump => op.jump \in 0 .. Len(Text(p, f.word))
           /\ \A Q : Covered(p, Q, s, x.ip + 1) /\ Covered(p, Q, s, op.jump)
              => Passes(p, G, Q, x, op)
  <2> USE <1>PassBranch
  <2> PICK ip, v, t, A : ip = x.ip /\ v = f.word /\ t = x.stack /\ A = Slots(p)
    OBVIOUS
  <2>2. /\ p \in Programs /\ v \in Names(p) /\ ip \in 0 .. Len(Text(p, v)) /\ ~Ends(p, v, ip)
        /\ op = At(Text(p, v), ip) /\ t \in Stacks(p)
    BY DEF Visits_At
  <2>3. ip + 1 \in 0 .. Len(Text(p, v))
        /\ (op.jump # Empty_Jump => op.jump \in 0 .. Len(Text(p, v)))
    BY <2>2, TextIs
  <2>4. t \in Seq(A) /\ Has_Match(t, Bool_Effect) /\ s = Apply_First(t, Bool_Effect)
    BY <2>2 DEF Stacks
  <2>5. t # <<>> /\ Same_Type(Top(t), "Bool") /\ s = Pop(t)
    BY <2>4, <1>BoolEffect
  <2>6. Top(t) \in A /\ s \in Seq(A)
    BY <2>4, <2>5, StackPop
  <2>7. Anyless(p) => Top(t) = "Bool"
    <3>1. PICK b : b = Top(t)
      OBVIOUS
    <3> QED BY <2>5, <2>6, <3>1 DEF Slots, Value, Same_Type
  <2>8. \A Q : Covered(p, Q, s, x.ip + 1) /\ Covered(p, Q, s, op.jump) => Passes(p, G, Q, x, op)
    <3>1. \A k \in {"If", "Do"} :
            k \notin {"Push_Int", "Push_Symbol", "Cast", "Intrinsic", "Else", "End", "While", "Call_Symbol"}
      OBVIOUS
    <3>2. op.kind \notin {"Push_Int", "Push_Symbol", "Cast", "Intrinsic", "Else", "End", "While", "Call_Symbol"}
      BY <3>1
    <3> QED BY <2>5, <2>7, <3>2 DEF Passes
  <2> QED BY <2>3, <2>6, <2>8 DEF Stacks

<1> SUFFICES ASSUME NEW G, NEW W, Progress(prog, G, W, frames, pending), Visit({"If"})
                    \/ Visit({"Do"}),
                  Has_Match(S.stack, Effects), NEW s, s = Apply_First(S.stack, Effects)
             PROVE  /\ frames # <<>> /\ Visits_At(prog, Current, S, Op) /\ s \in Stacks(prog)
                    /\ Pop(Current.states) \in Seq(Places(prog))
                    /\ Fits(prog, G, Current, W[Len(frames)], Elements(Current.states))
                    /\ State(s, S.ip + 1) \in Points(prog, Current.word)
                    /\ Op.jump # Empty_Jump => State(s, Op.jump) \in Points(prog, Current.word)
                    /\ \A Q : Covered(prog, Q, s, S.ip + 1) /\ Covered(prog, Q, s, Op.jump)
                       => Passes(prog, G, Q, S, Op)
  OBVIOUS
<1> /\ frames # <<>> /\ Op.kind \in {"If", "Do"} /\ Visits_At(prog, Current, S, Op)
  <2> PICK K, L : K = {"If"} /\ L = {"Do"}
    OBVIOUS
  <2>2. Visit(K) \/ Visit(L)
    OBVIOUS
  <2>3. frames # <<>> /\ (Op.kind \in K \/ Op.kind \in L) /\ Visits_At(prog, Current, S, Op)
    BY <2>2, VisitAt
  <2> QED BY <2>3
<1>2. Has_Match(S.stack, Bool_Effect) /\ s = Apply_First(S.stack, Bool_Effect)
  BY EffectsAre
<1> PICK v, k : v = Current.word /\ k = S.ip + 1
  OBVIOUS
<1>4. /\ s \in Stacks(prog) /\ k \in 0 .. Len(Text(prog, v))
      /\ Op.jump # Empty_Jump => Op.jump \in 0 .. Len(Text(prog, v))
      /\ \A Q : Covered(prog, Q, s, k) /\ Covered(prog, Q, s, Op.jump) => Passes(prog, G, Q, S, Op)
  BY <1>2, <1>PassBranch
<1>5. Fits(prog, G, Current, W[Len(frames)], Elements(Current.states))
  BY WalkAt
<1>6. Pop(Current.states) \in Seq(Places(prog))
  <2> PICK t, B : t = Current.states /\ B = Places(prog)
    OBVIOUS
  <2>2. t \in Seq(B) /\ t # <<>>
    BY DEF Visits_At, Frames
  <2>3. Pop(t) \in Seq(B)
    BY <2>2, StackPop
  <2> QED BY <2>3
<1>7. /\ State(s, k) \in Points(prog, v)
      /\ Op.jump # Empty_Jump => State(s, Op.jump) \in Points(prog, v)
  BY <1>4 DEF Points, State
<1> QED BY <1>4, <1>5, <1>6, <1>7

\* An `if` puts both of its branches on the stack of paths.
LEMMA IfKeeps ==
  ASSUME Checking, Check_If
  PROVE  Checking'
<1>1. PICK G, W : Progress(prog, G, W, frames, pending)
  BY DEF Checking
<1>2. PICK s, f, w, x, op : /\ s = Apply_First(S.stack, Effects) /\ f = Current
                               /\ w = W[Len(frames)]
                            /\ x = S /\ op = Op
  OBVIOUS
<1>3. PICK y, z, B : y = State(s, x.ip + 1) /\ z = State(s, op.jump) /\ B = Places(prog)
  OBVIOUS
<1>4. /\ frames # <<>> /\ Visits_At(prog, f, x, op)
      /\ Pop(f.states) \in Seq(B)
      /\ Fits(prog, G, f, w, Elements(f.states))
      /\ y \in Points(prog, f.word) /\ z \in Points(prog, f.word)
      /\ \A Q : Covered(prog, Q, s, x.ip + 1) /\ Covered(prog, Q, s, op.jump)
         => Passes(prog, G, Q, x, op)
  BY <1>1, <1>2, <1>3, BranchAt DEF Check_If
<1>5. y \in B /\ z \in B /\ y.stack = s /\ z.stack = s /\ y.ip = x.ip + 1 /\ z.ip = op.jump
  BY <1>3, <1>4, SMT DEF Places, Points, State
<1>6. PICK t, r : r = Pop(f.states) /\ t = Pushed(Pushed(r, y), z)
  OBVIOUS
<1>7. r \o <<y, z>> = t
  BY <1>4, <1>5, <1>6, PushTwo, SMT
<1>8. Set_States(t)
  BY <1>2, <1>3, <1>6, <1>7 DEF Check_If
<1>9. t \in Seq(B)
  <2>1. PICK q : q = Pushed(r, y)
    OBVIOUS
  <2>2. q \in Seq(B)
    BY <1>4, <1>5, <1>6, <2>1, PushIs
  <2>3. Pushed(q, z) \in Seq(B)
    BY <1>5, <2>2, PushIs
  <2> QED BY <1>6, <2>1, <2>3
<1>10. PICK f2 : f2 = With_States(f, t)
  OBVIOUS
<1>11. f \in Frames(prog)
  BY <1>4 DEF Visits_At
<1>12. /\ f2 \in Frames(prog) /\ f2.states = t /\ f2.word = f.word /\ f2.known = f.known
       /\ f2.output = f.output /\ f2.visited = f.visited
  BY <1>3, <1>9, <1>10, <1>11, WithStates, SMT
<1>13. f2.states = Pushed(Pushed(Pop(f.states), y), z)
  BY <1>6, <1>12
<1>14. \A Q : Covered(prog, Q, s, y.ip) /\ Covered(prog, Q, s, z.ip) => Passes(prog, G, Q, x, op)
  BY <1>4, <1>5
<1>15. \A Q : Covered(prog, Q, s, y.ip) /\ Covered(prog, Q, s, z.ip) =>
           \A ip \in DOMAIN f2.visited :
              \/ ip \in DOMAIN f.visited /\ f2.visited[ip] = f.visited[ip]
              \/ Loops(prog, Q, f.word, f2.visited[ip], ip)
  BY <1>12
<1>16. PICK Q : Advances(prog, G, f, w, f2, Q)
  BY <1>4, <1>5, <1>12, <1>13, <1>14, <1>15, AdvanceBranch
<1>17. /\ frames' = [frames EXCEPT ![Len(frames)] = With_States(Current, t)]
       /\ prog' = prog /\ pending' = pending
  BY <1>8, SetStates
<1>18. frames' = [frames EXCEPT ![Len(frames)] = f2]
  BY <1>2, <1>10, <1>17
<1>19. Advances(prog, G, Current, W[Len(frames)], f2, Q)
  BY <1>2, <1>16
<1> QED BY <1>1, <1>4, <1>17, <1>18, <1>19, StepsOn

\* A path that ends at a `do` walked through before, with the same types, or
\* at the end of a word whose outputs are known.
LEMMA PathEndKeeps == Checking /\ (Do_Again \/ Verify_Output) => Checking'
\* What the comparison of two typestacks establishes.
<1>SameIsLike.
    ASSUME NEW p, NEW s \in Stacks(p), NEW t \in Stacks(p), Same_Stack(s, t)
    PROVE  Like(p, s, t)
  <2> USE <1>SameIsLike
  <2> Len(s) = Len(t) /\ \A n \in 1 .. Len(s) : Same_Type(s[n], t[n])
    BY DEF Same_Stack
  <2>2. ASSUME Anyless(p) PROVE s = t
    <3>1. s \in Seq(Value) /\ t \in Seq(Value)
      BY <2>2 DEF Stacks, Slots
    <3>2. \A n \in 1 .. Len(s) : s[n] \in Value /\ t[n] \in Value
      BY <3>1, SeqElement
    <3>3. \A n \in 1 .. Len(s) : s[n] = t[n]
      BY <3>2 DEF Value, Same_Type
    <3> QED BY <3>1, <3>3, SeqSame
  <2> QED BY <2>2 DEF Like

\* A frame without the path at the top.
<1>ReplaceNone.
    ASSUME NEW p, NEW f \in Frames(p), f.states # <<>>, NEW f2, f2 = With_States(f, Pop(f.states))
    PROVE  Replaces(p, f, f2, {}) /\ f2.visited = f.visited
  <2> USE <1>ReplaceNone
  <2> PICK B, s : B = Places(p) /\ s = Pop(f.states)
    OBVIOUS
  <2>2. f.states \in Seq(B)
    BY DEF Frames
  <2>3. s \in Seq(B)
    BY <2>2, StackPop
  <2>5. /\ f2 \in Frames(p) /\ f2.states = s /\ f2.word = f.word /\ f2.known = f.known
        /\ f2.output = f.output /\ f2.visited = f.visited
    BY <2>3, WithStates, SMT
  <2> QED BY <2>5 DEF Replaces

\* A path that ends here, for it is known where it goes on or it is at an end.
<1>AdvanceNone.
    ASSUME NEW p, NEW G, NEW f \in Frames(p), f.states # <<>>, NEW w,
           Fits(p, G, f, w, Elements(f.states)),
           Sound(p, G, w.points, Outs(f), f.word, Top(f.states)),
           NEW f2, f2 = With_States(f, Pop(f.states))
    PROVE  \E Q : Advances(p, G, f, w, f2, Q)
  <2> USE <1>AdvanceNone
  <2> PICK N, Q : N = {} /\ Q = w.points
    OBVIOUS
  <2>2. Q = w.points \cup N
    OBVIOUS
  <2>3. Replaces(p, f, f2, N) /\ f2.visited = f.visited
    BY <1>ReplaceNone
  <2>4. \A ip \in DOMAIN f2.visited :
              \/ ip \in DOMAIN f.visited /\ f2.visited[ip] = f.visited[ip]
              \/ Loops(p, Q, f.word, f2.visited[ip], ip)
    BY <2>3
  <2>5. Advances(p, G, f, w, f2, Q)
    BY <2>2, <2>3, <2>4, AdvanceTo
  <2> QED BY <2>5

\* A `do` that the walk has been at.
<1>SoundAgain.
    ASSUME NEW p, NEW G, NEW f, NEW x, NEW op, Visits_At(p, f, x, op), NEW w,
           Fits(p, G, f, w, Elements(f.states)), x.ip \in DOMAIN f.visited,
           NEW s \in Stacks(p), Same_Stack(s, f.visited[x.ip]),
           \A Q : Covered(p, Q, s, x.ip + 1) /\ Covered(p, Q, s, op.jump) => Passes(p, G, Q, x, op)
    PROVE  Sound(p, G, w.points, Outs(f), f.word, Top(f.states))
  <2> USE <1>SoundAgain
  <2> PICK ip, t, R : ip = x.ip /\ t = f.visited[ip] /\ R = w.points
    OBVIOUS
  <2>2. t \in Stacks(p)
    <3>1. f.visited \in Visits(p)
      BY DEF Visits_At, Frames
    <3>2. PICK D \in SUBSET Nat : f.visited \in [D -> Stacks(p)]
      BY <3>1 DEF Visits
    <3>3. PICK A : A = Stacks(p)
      OBVIOUS
    <3> QED BY <3>2, <3>3
  <2>3. Like(p, t, s)
    BY <2>2, <1>SameIsLike, LikeFacts
  <2>4. Covered(p, R, t, ip + 1) /\ Covered(p, R, t, op.jump)
    <3>1. Loops(p, R, f.word, t, ip) /\ op = At(Text(p, f.word), ip)
      BY DEF Fits, Visits_At
    <3> QED BY <3>1 DEF Loops
  <2>5. Covered(p, R, s, ip + 1) /\ Covered(p, R, s, op.jump)
    BY <2>3, <2>4, CoveredLike
  <2>6. Passes(p, G, R, x, op)
    BY <2>5
  <2> QED BY <2>6 DEF Sound, Visits_At

\* A path that ends with the outputs.
<1>SoundEnd.
    ASSUME NEW p, NEW G, NEW f \in Frames(p), f.states # <<>>, NEW x, x = Top(f.states),
           Ends(p, f.word, x.ip), f.known, x.stack \in Stacks(p), Same_Stack(x.stack, f.output),
           NEW R
    PROVE  Sound(p, G, R, Outs(f), f.word, Top(f.states))
  <2> USE <1>SoundEnd
  <2> PICK s, o : s = x.stack /\ o = f.output
    OBVIOUS
  <2>2. o \in Stacks(p)
    BY DEF Frames
  <2>3. Like(p, s, o)
    BY <2>2, <1>SameIsLike
  <2>4. o \in Outs(f)
    BY DEF Outs, Just
  <2>5. \E k \in Outs(f) : Like(p, x.stack, k)
    BY <2>3, <2>4
  <2> QED BY <2>5 DEF Sound

<1> SUFFICES ASSUME Checking, Do_Again \/ Verify_Output
             PROVE  Checking'
  OBVIOUS
<1> PICK G, W : Progress(prog, G, W, frames, pending)
  BY DEF Checking
<1> PICK f, w, x, op : f = Current /\ w = W[Len(frames)] /\ x = S /\ op = Op
  OBVIOUS
<1> /\ frames # <<>> /\ f \in Frames(prog) /\ f.states # <<>>
    /\ Fits(prog, G, f, w, Elements(f.states)) /\ Set_States(Pop(f.states))
    /\ x = Top(f.states) /\ x.stack \in Stacks(prog) /\ (At_End <=> Ends(prog, f.word, x.ip))
  <2>1. frames # <<>> /\ Current.states # <<>> /\ Set_States(Pop(Current.states))
    BY DEF Do_Again, Verify_Output, Visit, Walking
  <2> QED BY <2>1, WalkAt
<1>4. Sound(prog, G, w.points, Outs(f), f.word, Top(f.states))
  <2>1. CASE Do_Again
    <3> PICK s : s = Apply_First(x.stack, Effects)
      OBVIOUS
    <3>2. /\ Visits_At(prog, f, x, op) /\ s \in Stacks(prog)
          /\ \A Q : Covered(prog, Q, s, x.ip + 1) /\ Covered(prog, Q, s, op.jump)
             => Passes(prog, G, Q, x, op)
      BY <2>1, BranchAt DEF Do_Again
    <3>3. x.ip \in DOMAIN f.visited /\ Same_Stack(s, f.visited[x.ip])
      BY <2>1 DEF Do_Again
    <3> QED BY <3>2, <3>3, <1>SoundAgain
  <2>2. CASE Verify_Output
    <3>1. Ends(prog, f.word, x.ip) /\ f.known /\ Same_Stack(x.stack, f.output)
      BY <2>2 DEF Verify_Output
    <3> QED BY <3>1, <1>SoundEnd
  <2> QED BY <2>1, <2>2
<1> PICK f2, t : t = Pop(f.states) /\ f2 = With_States(f, t)
  OBVIOUS
<1>6. PICK Q : Advances(prog, G, f, w, f2, Q)
  <2>1. f2 = With_States(f, Pop(f.states))
    OBVIOUS
  <2> QED BY <1>4, <2>1, <1>AdvanceNone
<1>7. /\ frames' = [frames EXCEPT ![Len(frames)] = With_States(Current, t)]
       /\ prog' = prog /\ pending' = pending
  BY SetStates
<1>8. frames' = [frames EXCEPT ![Len(frames)] = f2]
  BY <1>7
<1>9. Advances(prog, G, Current, W[Len(frames)], f2, Q)
  BY <1>6
<1> QED BY <1>7, <1>8, <1>9, StepsOn

\* The frame f with the paths t to walk and the types v at the loops.
With_Loop(f, t, v) == [f EXCEPT !.states = t, !.visited = v]

\* The types s remembered for the loop at ip.
Remember(v, ip, s) == [k \in DOMAIN v \cup {ip} |-> IF k = ip THEN s ELSE v[k]]

\* The first time at a `do` its types are remembered, and both ways are walked.
LEMMA FirstDoKeeps == Checking /\ First_Do => Checking'
\* What that frame is.
<1>WithLoop.
    ASSUME NEW p, NEW f \in Frames(p), NEW t \in Seq(Places(p)), NEW v \in Visits(p)
    PROVE  /\ With_Loop(f, t, v) \in Frames(p) /\ With_Loop(f, t, v).states = t
           /\ With_Loop(f, t, v).word = f.word /\ With_Loop(f, t, v).known = f.known
           /\ With_Loop(f, t, v).output = f.output /\ With_Loop(f, t, v).visited = v
  BY <1>WithLoop DEF With_Loop, Frames

\* What is remembered then.
<1>Remembers.
    ASSUME NEW p, NEW v \in Visits(p), NEW ip \in Nat, NEW s \in Stacks(p)
    PROVE  /\ Remember(v, ip, s) \in Visits(p)
           /\ \A k \in DOMAIN Remember(v, ip, s) :
                \/ k = ip /\ Remember(v, ip, s)[k] = s
                \/ k \in DOMAIN v /\ Remember(v, ip, s)[k] = v[k]
  <2> USE <1>Remembers
  <2> PICK A, u : A = Stacks(p) /\ u = Remember(v, ip, s)
    OBVIOUS
  <2> PICK D \in SUBSET Nat : v \in [D -> A]
    BY DEF Visits
  <2>3. D \cup {ip} \in SUBSET Nat /\ DOMAIN v = D
    OBVIOUS
  <2>4. u = [k \in D \cup {ip} |-> IF k = ip THEN s ELSE v[k]]
    BY <2>3 DEF Remember
  <2>5. u \in [D \cup {ip} -> A]
    BY <2>4
  <2>6. u \in Visits(p)
    BY <2>3, <2>5 DEF Visits
  <2>7. \A k \in DOMAIN u : (k = ip /\ u[k] = s) \/ (k \in DOMAIN v /\ u[k] = v[k])
    BY <2>3, <2>4
  <2> QED BY <2>6, <2>7

<1> SUFFICES ASSUME Checking, First_Do
             PROVE  Checking'
  OBVIOUS
<1>1. PICK G, W : Progress(prog, G, W, frames, pending)
  BY DEF Checking
<1>2. PICK s, f, w, x, op, l : /\ s = Apply_First(S.stack, Effects) /\ f = Current /\ w = W[l]
                               /\ x = S /\ op = Op /\ l = Len(frames)
  OBVIOUS
<1>3. PICK y, z, B : y = State(s, op.jump) /\ z = State(s, x.ip + 1) /\ B = Places(prog)
  OBVIOUS
<1>4. /\ frames # <<>> /\ Visits_At(prog, f, x, op) /\ s \in Stacks(prog)
      /\ Pop(f.states) \in Seq(B)
      /\ Fits(prog, G, f, w, Elements(f.states))
      /\ y \in Points(prog, f.word) /\ z \in Points(prog, f.word)
      /\ \A Q : Covered(prog, Q, s, x.ip + 1) /\ Covered(prog, Q, s, op.jump)
         => Passes(prog, G, Q, x, op)
  BY <1>1, <1>2, <1>3, BranchAt DEF First_Do
<1>5. y \in B /\ z \in B /\ y.stack = s /\ z.stack = s /\ z.ip = x.ip + 1 /\ y.ip = op.jump
  BY <1>3, <1>4, SMT DEF Places, Points, State
<1>6. PICK t, r : r = Pop(f.states) /\ t = Pushed(Pushed(r, y), z)
  OBVIOUS
<1>7. r \o <<y, z>> = t
  BY <1>4, <1>5, <1>6, PushTwo, SMT
<1>8. t \in Seq(B)
  <2>1. PICK q : q = Pushed(r, y)
    OBVIOUS
  <2>2. q \in Seq(B)
    BY <1>4, <1>5, <1>6, <2>1, PushIs
  <2>3. Pushed(q, z) \in Seq(B)
    BY <1>5, <2>2, PushIs
  <2> QED BY <1>6, <2>1, <2>3
<1>9. PICK ip, v : ip = x.ip /\ v = Remember(f.visited, ip, s)
  OBVIOUS
<1>10. f \in Frames(prog) /\ f.visited \in Visits(prog) /\ ip \in Nat
       /\ op = At(Text(prog, f.word), ip)
  <2>1. /\ f \in Frames(prog) /\ op = At(Text(prog, f.word), x.ip)
        /\ x.ip \in 0 .. Len(Text(prog, f.word))
    BY <1>4 DEF Visits_At
  <2>2. f.visited \in Visits(prog)
    BY ONLY <2>1 DEF Frames
  <2>3. x.ip \in Nat
    BY ONLY <2>1
  <2> QED BY <1>9, <2>1, <2>2, <2>3
<1>11. /\ v \in Visits(prog)
       /\ \A k \in DOMAIN v : (k = ip /\ v[k] = s)
          \/ (k \in DOMAIN f.visited /\ v[k] = f.visited[k])
  <2>1. PICK u : u = f.visited
    OBVIOUS
  <2>2. u \in Visits(prog) /\ v = Remember(u, ip, s)
    BY <1>9, <1>10, <2>1
  <2> QED BY <1>4, <1>10, <2>1, <2>2, <1>Remembers, SMT
<1>12. PICK f2 : f2 = With_Loop(f, t, v)
  OBVIOUS
<1>13. /\ f2 \in Frames(prog) /\ f2.states = t /\ f2.word = f.word /\ f2.known = f.known
       /\ f2.output = f.output /\ f2.visited = v
  BY <1>3, <1>8, <1>10, <1>11, <1>12, <1>WithLoop, SMT
<1>14. f2.states = Pushed(Pushed(Pop(f.states), y), z)
  BY <1>6, <1>13
<1>15. \A Q : Covered(prog, Q, s, y.ip) /\ Covered(prog, Q, s, z.ip) => Passes(prog, G, Q, x, op)
  BY <1>4, <1>5
<1>16. \A Q : Covered(prog, Q, s, y.ip) /\ Covered(prog, Q, s, z.ip) =>
           \A k \in DOMAIN f2.visited :
              \/ k \in DOMAIN f.visited /\ f2.visited[k] = f.visited[k]
              \/ Loops(prog, Q, f.word, f2.visited[k], k)
  BY <1>5, <1>9, <1>10, <1>11, <1>13 DEF Loops
<1>17. PICK Q : Advances(prog, G, f, w, f2, Q)
  BY <1>4, <1>5, <1>13, <1>14, <1>15, <1>16, AdvanceBranch
<1>18. frames' = [frames EXCEPT ![l] = f2] /\ prog' = prog /\ pending' = pending
  <2>1. /\ frames' = [frames EXCEPT ![l].states = t, ![l].visited = v]
        /\ prog' = prog /\ pending' = pending
    BY <1>2, <1>3, <1>6, <1>7, <1>9 DEF First_Do, Remember
  <2>2. frames \in Seq(Frames(prog)) /\ l \in 1 .. Len(frames) /\ f = frames[l]
    <3>1. frames \in Seq(Frames(prog))
      BY <1>1 DEF Progress
    <3>2. f = frames[l] /\ l \in Nat \ {0}
      BY <1>1, <1>2, <1>4, WalkAt
    <3> QED BY <1>2, <3>1, <3>2, SMT
  <2>3. [frames EXCEPT ![l].states = t, ![l].visited = v]
          = [frames EXCEPT ![l] = [frames[l] EXCEPT !.states = t, !.visited = v]]
    BY <2>2
  <2> QED BY <1>12, <2>1, <2>2, <2>3 DEF With_Loop
<1>19. frames' = [frames EXCEPT ![Len(frames)] = f2]
  BY <1>2, <1>18
<1>20. Advances(prog, G, Current, W[Len(frames)], f2, Q)
  BY <1>2, <1>17
<1> QED BY <1>1, <1>4, <1>18, <1>19, <1>20, StepsOn

\* Typecheck_Word keeps the typechecker at work.
LEMMA StartKeeps == Checking /\ Typecheck_Word => Checking'
\* Typecheck_Word begins the walk over a word that main asks for.
<1>ProgressStart.
    ASSUME NEW p, NEW G, NEW W, NEW pend, Progress(p, G, W, <<>>, pend), NEW w \in pend
    PROVE  \E U : Progress(p, G, U,
                    <<Frame(w, Effect_Of(p, w).input, TRUE, Effect_Of(p, w).output)>>, pend \ {w})
  <2> USE <1>ProgressStart
  <2>1. p \in Programs /\ Closed(p, G) /\ pend \subseteq Promised(p) /\ w \in Promised(p)
    BY DEF Progress
  <2>2. PICK i, o : i = Effect_Of(p, w).input /\ o = Effect_Of(p, w).output
    OBVIOUS
  <2>3. w \in Names(p) /\ i \in Stacks(p) /\ o \in Stacks(p)
    BY <2>1, <2>2, EffectIs
  <2>4. PICK f : f = Frame(w, i, TRUE, o)
    OBVIOUS
  <2>5. /\ f \in Frames(p) /\ f.word = w /\ f.known = TRUE /\ f.output = o
        /\ \E u : u.input = i /\ Fits(p, G, f, u, Elements(f.states))
    <3>1. TRUE \in BOOLEAN
      OBVIOUS
    <3>2. Starts(p, G, Frame(w, i, TRUE, o), w, i, TRUE, o)
      BY <2>1, <2>3, <3>1, FitsFirst
    <3> QED BY <2>4, <3>2 DEF Starts
  <2>6. PICK u : u.input = i /\ Fits(p, G, f, u, Elements(f.states))
    BY <2>5
  <2>7. PICK U, fs : U = <<u>> /\ fs = <<f>>
    OBVIOUS
  <2>8. fs \in Seq(Frames(p)) /\ Len(fs) = 1 /\ fs[1] = f /\ U[1] = u /\ fs # <<>>
    BY <2>5, <2>7, SMT
  <2>9. Begun(p, f, u)
    BY <2>1, <2>2, <2>5, <2>6 DEF Begun
  <2>10. \A v \in Promised(p) \ (pend \ {w}) : Has_Walk(p, G, v) \/ (fs # <<>> /\ fs[1].word = v)
    BY <2>5, <2>8 DEF Progress
  <2>11. /\ pend \ {w} \subseteq Promised(p)
         /\ \A n \in 1 .. Len(fs) - 1 : FALSE
    BY <2>1, <2>8, SMT
  <2>12. Progress(p, G, U, fs, pend \ {w})
    BY <2>1, <2>6, <2>8, <2>9, <2>10, <2>11 DEF Progress
  <2> QED BY <2>2, <2>4, <2>7, <2>12

<1> SUFFICES ASSUME Checking, Typecheck_Word
             PROVE  Checking'
  OBVIOUS
<1>1. PICK G, W : Progress(prog, G, W, frames, pending)
  BY DEF Checking
<1> PICK w \in pending :
      /\ frames = <<>> /\ pending' = pending \ {w} /\ prog' = prog
      /\ frames' = <<IF w = "main" THEN Frame(w, <<>>, TRUE, <<>>)
                     ELSE Frame(w, prog.words[w].effect.input, TRUE, prog.words[w].effect.output)>>
  BY DEF Typecheck_Word
<1>3. frames' = <<Frame(w, Effect_Of(prog, w).input, TRUE, Effect_Of(prog, w).output)>>
  <2>1. CASE w = "main"
    <3>1. Effect_Of(prog, w).input = <<>> /\ Effect_Of(prog, w).output = <<>>
      BY <2>1 DEF Effect_Of, Effect
    <3> QED BY <2>1, <3>1
  <2>2. CASE w # "main"
    <3>1. Effect_Of(prog, w) = prog.words[w].effect
      BY <2>2 DEF Effect_Of
    <3> QED BY <2>2, <3>1
  <2> QED BY <2>1, <2>2
<1>4. Progress(prog, G, W, <<>>, pending)
  BY <1>1
<1>5. PICK U : Progress(prog, G, U, <<Frame(w, Effect_Of(prog, w).input, TRUE, Effect_Of(prog, w).output)>>, pending \ {w})
  BY <1>4, <1>ProgressStart
<1>6. Progress(prog', G, U, frames', pending')
  BY <1>3, <1>5
<1> QED BY <1>6 DEF Checking

\* A call of a dynamically typed function is walked before its caller goes on.
LEMMA CallKeeps == Checking /\ Call_Dynamic => Checking'
\* A call of a dynamically typed function: its body is walked with the stack
\* of the caller.
<1>ProgressCall.
    ASSUME NEW p, NEW G, NEW W, NEW fs, NEW pend, Progress(p, G, W, fs, pend), fs # <<>>,
           NEW l, l = Len(fs), NEW f, f = fs[l], NEW x, x = Top(f.states), f.states # <<>>,
           ~Ends(p, f.word, x.ip), NEW op, op = At(Text(p, f.word), x.ip),
           op.kind = "Call_Symbol", p.words[op.arg].dynamic, op.arg \in Names(p)
    PROVE  \E U : Progress(p, G, U, Append(fs, Frame(op.arg, x.stack, FALSE, <<>>)), pend)
  <2> USE <1>ProgressCall
  <2>1. PICK A, B : A = Frames(p) /\ B = Places(p)
    OBVIOUS
  <2>2. fs \in Seq(A) /\ l \in Nat \ {0} /\ l \in 1 .. Len(fs) /\ p \in Programs
    <3>1. fs \in Seq(A) /\ p \in Programs
      BY <2>1 DEF Progress
    <3>2. l \in Nat /\ l # 0
      BY <3>1, SeqLen, SeqEmpty
    <3>3. l \in Nat \ {0} /\ l \in 1 .. l
      BY <3>2, SMT
    <3> QED BY <3>1, <3>3
  <2>3. f \in A
    BY <2>2, SeqElement
  <2>4. f.states \in Seq(B)
    BY <2>1, <2>3 DEF Frames
  <2>5. x \in B
    BY <2>4, StackPop
  <2>6. PICK s, v : s = x.stack /\ v = op.arg
    OBVIOUS
  <2>7. s \in Stacks(p) /\ v \in Names(p) /\ x = State(s, x.ip)
    BY <2>1, <2>5, <2>6 DEF Places, State
  <2>8. PICK e, o, h : e = <<>> /\ o = FALSE /\ h = Frame(v, s, o, e)
    OBVIOUS
  <2>9. e \in Stacks(p) /\ o \in BOOLEAN
    <3>1. e \in Seq(Slots(p))
      BY <2>8, SMT
    <3>2. o \in BOOLEAN
      BY <2>8
    <3> QED BY <3>1, <3>2 DEF Stacks
  <2>10. Starts(p, G, h, v, s, o, e)
    BY <2>2, <2>7, <2>8, <2>9, FitsFirst
  <2>11. h \in A /\ h.word = v /\ h.known = FALSE
    BY <2>1, <2>8, <2>10 DEF Starts
  <2>12. PICK u : u.input = s /\ Fits(p, G, h, u, Elements(h.states))
    BY <2>10 DEF Starts
  <2>13. PICK z : z = Append(fs, h)
    OBVIOUS
  <2>14. /\ z \in Seq(A) /\ Len(z) = l + 1 /\ z[l + 1] = h /\ z # <<>>
         /\ \A n \in 1 .. l : z[n] = fs[n]
    <3>1. /\ Append(fs, h) \in Seq(A) /\ Len(Append(fs, h)) = Len(fs) + 1
          /\ Append(fs, h)[Len(fs) + 1] = h /\ \A n \in 1 .. Len(fs) : Append(fs, h)[n] = fs[n]
      BY <2>2, <2>11, SeqAppend, SMT
    <3>2. Len(<<>>) = 0 /\ l + 1 # 0
      BY <2>2, SMT
    <3> QED BY <2>13, <3>1, <3>2
  <2>15. PICK U : U = [n \in 1 .. l + 1 |-> IF n = l + 1 THEN u ELSE W[n]]
    OBVIOUS
  <2>16. U[l + 1] = u /\ \A n \in 1 .. l : U[n] = W[n]
    <3>1. l \in Nat
      BY <2>2
    <3>2. l + 1 \in 1 .. l + 1 /\ \A n \in 1 .. l : n \in 1 .. l + 1 /\ n # l + 1
      BY ONLY <3>1
    <3> QED BY ONLY <2>15, <3>2
  <2>17. Called(f, s) = Elements(f.states)
    <3>1. PICK t : t = f.states
      OBVIOUS
    <3>2. \A y : y \in Elements(t) <=> y \in Elements(Pop(t)) \/ y = x
      <4>1. t \in Seq(B) /\ t # <<>> /\ x = Top(t)
        BY <2>4, <3>1
      <4> QED BY <4>1, ElementsPop
    <3>3. \A y : y \in Called(f, s) <=> y \in Elements(Pop(t)) \/ y = x
      BY <2>7, <3>1 DEF Called
    <3>4. \A y : y \in Called(f, s) <=> y \in Elements(f.states)
      BY <3>1, <3>2, <3>3
    <3> QED BY <3>4
  <2>18. Fits(p, G, f, W[l], Called(f, s))
    <3>1. Fits(p, G, f, W[l], Elements(f.states))
      BY DEF Progress
    <3> QED BY <2>17, <3>1
  <2>19. Waits(p, f, h)
    BY <2>6, <2>11 DEF Waits
  <2>20. ASSUME NEW n \in 1 .. l
         PROVE  /\ Fits(p, G, z[n], U[n], Called(z[n], U[n + 1].input))
                /\ Waits(p, z[n], z[n + 1])
    <3>1. CASE n = l
      <4>1. z[n] = f /\ U[n] = W[l] /\ z[n + 1] = h /\ U[n + 1].input = s
        BY <2>2, <2>12, <2>14, <2>16, <3>1
      <4> QED BY <2>18, <2>19, <4>1
    <3>2. CASE n # l
      <4>1. n \in 1 .. l - 1 /\ n \in 1 .. l /\ n + 1 \in 1 .. l
        <5>1. l \in Nat /\ n \in 1 .. l /\ n # l
          BY <2>2, <3>2
        <5> QED BY ONLY <5>1
      <4>2. z[n] = fs[n] /\ U[n] = W[n] /\ z[n + 1] = fs[n + 1] /\ U[n + 1] = W[n + 1]
        BY <2>14, <2>16, <4>1
      <4>3. Fits(p, G, fs[n], W[n], Called(fs[n], W[n + 1].input)) /\ Waits(p, fs[n], fs[n + 1])
        BY <4>1 DEF Progress
      <4> QED BY <4>2, <4>3
    <3> QED BY <3>1, <3>2
  <2>21. z[1] = fs[1] /\ Begun(p, z[1], U[1])
    <3>1. 1 \in 1 .. l
      BY <2>2, SMT
    <3>2. z[1] = fs[1] /\ U[1] = W[1]
      BY <2>14, <2>16, <3>1
    <3>3. Begun(p, fs[1], W[1])
      BY DEF Progress
    <3> QED BY <3>2, <3>3
  <2>22. Len(z) - 1 = l
    <3>1. l \in Nat /\ Len(z) = l + 1
      BY <2>2, <2>14
    <3> QED BY ONLY <3>1
  <2>23. Fits(p, G, z[Len(z)], U[Len(z)], Elements(z[Len(z)].states))
    BY <2>12, <2>14, <2>16
  <2>24. /\ p \in Programs /\ Closed(p, G) /\ pend \subseteq Promised(p)
         /\ \A w \in Promised(p) \ pend : Has_Walk(p, G, w) \/ (z # <<>> /\ z[1].word = w)
    BY <2>14, <2>21 DEF Progress
  <2>25. Progress(p, G, U, z, pend)
    BY <2>1, <2>14, <2>20, <2>21, <2>22, <2>23, <2>24 DEF Progress
  <2> QED BY <2>6, <2>8, <2>13, <2>25

<1> SUFFICES ASSUME Checking, Call_Dynamic
             PROVE  Checking'
  OBVIOUS
<1> PICK G, W : Progress(prog, G, W, frames, pending)
  BY DEF Checking
<1> PICK K : K = {"Call_Symbol"}
  OBVIOUS
<1>3. Visit(K)
  BY DEF Call_Dynamic
<1>4. /\ frames # <<>> /\ Op.kind = "Call_Symbol" /\ Visits_At(prog, Current, S, Op)
  <2>1. /\ frames # <<>> /\ Op.kind \in K /\ Visits_At(prog, Current, S, Op)
    BY <1>3, VisitAt
  <2> QED BY <2>1
<1> PICK f, x, op, l : f = Current /\ x = S /\ op = Op /\ l = Len(frames)
  OBVIOUS
<1>6. /\ f = frames[l] /\ x = Top(f.states) /\ f.states # <<>> /\ ~Ends(prog, f.word, x.ip)
      /\ op = At(Text(prog, f.word), x.ip) /\ op.kind = "Call_Symbol"
  <2>1. f = frames[l]
    BY DEF Current, Top
  <2> QED BY <1>4, <2>1 DEF Visits_At
<1>7. op.arg \in Names(prog)
  <2>1. PICK ip, v : ip = x.ip /\ v = f.word
    OBVIOUS
  <2>2. /\ prog \in Programs /\ v \in Names(prog) /\ ip \in 0 .. Len(Text(prog, v))
           /\ ~Ends(prog, v, ip)
        /\ op = At(Text(prog, v), ip)
    BY <1>4, <2>1 DEF Visits_At
  <2>3. op.arg \in DOMAIN prog.words
    BY <1>6, <2>2, TextIs, SMT
  <2> QED BY <2>3 DEF Names
<1>8. /\ prog.words[op.arg].dynamic /\ prog' = prog /\ pending' = pending
      /\ frames' = Append(frames, Frame(op.arg, x.stack, FALSE, <<>>))
  BY DEF Call_Dynamic
<1>9. PICK U : Progress(prog, G, U, Append(frames, Frame(op.arg, x.stack, FALSE, <<>>)), pending)
  BY <1>4, <1>6, <1>7, <1>8, <1>ProgressCall
<1>10. Progress(prog', G, U, frames', pending')
  BY <1>8, <1>9
<1> QED BY <1>10 DEF Checking

\* The frame e with the path at the top at another point.
With_Top(e, y) == [e EXCEPT !.states = [e.states EXCEPT ![Len(e.states)] = y]]

\* What that frame is.
LEMMA WithTop ==
  ASSUME NEW p, NEW e \in Frames(p), e.states # <<>>, NEW y \in Places(p),
         NEW e2, e2 = With_Top(e, y)
  PROVE  /\ e2 \in Frames(p) /\ e2.word = e.word /\ e2.known = e.known
         /\ e2.output = e.output /\ e2.visited = e.visited
         /\ e2.states # <<>> /\ Pop(e2.states) = Pop(e.states) /\ Top(e2.states) = y
<1>1. PICK B, s, k, t : B = Places(p) /\ s = e.states /\ k = Len(s) /\ t = [s EXCEPT ![k] = y]
  OBVIOUS
<1>2. s \in Seq(B) /\ s # <<>>
  BY <1>1 DEF Frames
<1>3. k \in Nat \ {0} /\ k \in 1 .. Len(s)
  BY <1>1, <1>2, SeqEmpty, SMT
<1>4. t \in Seq(B) /\ Len(t) = k /\ \A n \in 1 .. k : t[n] = IF n = k THEN y ELSE s[n]
  <2>1. /\ [s EXCEPT ![k] = y] \in Seq(B) /\ Len([s EXCEPT ![k] = y]) = Len(s)
        /\ \A n \in 1 .. Len(s) : [s EXCEPT ![k] = y][n] = IF n = k THEN y ELSE s[n]
    BY <1>1, <1>2, <1>3, SeqExcept, SMT
  <2> QED BY <1>1, <2>1
<1>5. t # <<>> /\ Top(t) = y
  BY <1>3, <1>4, SMT DEF Top
<1>6. Pop(t) = Pop(s)
  <2>1. PICK a, b : a = Pop(t) /\ b = Pop(s)
    OBVIOUS
  <2>2. a \in Seq(B) /\ Len(a) = k - 1 /\ \A n \in 1 .. k - 1 : a[n] = t[n]
    BY <1>4, <1>5, <2>1, StackPop
  <2>3. b \in Seq(B) /\ Len(b) = k - 1 /\ \A n \in 1 .. k - 1 : b[n] = s[n]
    BY <1>1, <1>2, <2>1, StackPop
  <2>4. \A n \in 1 .. k - 1 : a[n] = b[n]
    BY <1>3, <1>4, <2>2, <2>3, SMT
  <2>5. a = b
    BY <2>2, <2>3, <2>4, SeqSame
  <2> QED BY <2>1, <2>5
<1>7. e2 = [e EXCEPT !.states = t]
  BY <1>1 DEF With_Top
<1>8. /\ e2 \in Frames(p) /\ e2.word = e.word /\ e2.known = e.known /\ e2.states = t
      /\ e2.output = e.output /\ e2.visited = e.visited
  BY <1>1, <1>4, <1>7 DEF Frames
<1> QED BY <1>1, <1>5, <1>6, <1>8

\* The frame f after its first path has ended with stack s.
Taken(f, s) == [f EXCEPT !.known = TRUE, !.output = s, !.states = Pop(f.states)]

\* The first path of a dynamically typed function to end sets its outputs.
LEMMA FirstOutputKeeps == Checking /\ First_Output => Checking'
\* The first path of such a function to end.
<1>FitsTakes.
    ASSUME NEW p, NEW G, NEW f \in Frames(p), NEW w, Fits(p, G, f, w, Elements(f.states)),
           f.states # <<>>, ~f.known, NEW x, x = Top(f.states), Ends(p, f.word, x.ip),
           NEW f2, Takes(p, f, f2, x.stack)
    PROVE  Fits(p, G, f2, w, Elements(f2.states))
  <2> USE <1>FitsTakes
  <2>1. PICK B : B = Places(p)
    OBVIOUS
  <2> PICK s, t, Q, v : s = x.stack /\ t = f.states /\ Q = w.points /\ v = f.word
    OBVIOUS
  <2>6. t \in Seq(B) /\ t # <<>>
    BY <2>1 DEF Frames
  <2>8. \A y : y \in Elements(t) <=> y \in Elements(Pop(t)) \/ y = x
    BY <2>6, ElementsPop
  <2> PICK a, c : a = Outs(f) /\ c = Outs(f2)
    OBVIOUS
  <2>10. a = {} /\ c = Just(s)
    BY DEF Outs, Takes
  <2>11. \A y \in Q : y \in Elements(t) \/ Sound(p, G, Q, a, v, y)
    BY DEF Fits
  <2>12. \A y \in Q : y \in Elements(t) \/ Sound(p, G, Q, c, v, y)
    <3>1. a \subseteq c
      BY <2>10
    <3> QED BY <2>11, <3>1, SoundGrows
  <2>13. Sound(p, G, Q, c, v, x)
    <3>1. Like(p, s, s)
      BY DEF Like
    <3> QED BY <2>10, <3>1 DEF Sound, Just
  <2>14. \A y \in Q : y \in Elements(Pop(t)) \/ Sound(p, G, Q, c, v, y)
    BY <2>8, <2>12, <2>13
  <2>15. f2.word = v /\ f2.states = Pop(t) /\ f2.visited = f.visited
    BY DEF Takes
  <2>16. Elements(Pop(t)) \subseteq Q
    BY <2>8 DEF Fits
  <2> QED BY <2>14, <2>15, <2>16 DEF Fits

\* The caller of such a function is told the stack it leaves.
<1>FitsGives.
    ASSUME NEW p, NEW G, NEW e, NEW u, NEW i, NEW e2, NEW s, Gives(p, e, e2, s),
           Fits(p, G, e, u, Called(e, i))
    PROVE  Fits(p, G, e2, u, Called(e2, i))
  <2> USE <1>FitsGives
  <2>1. Called(e2, i) = Called(e, i)
    BY DEF Called, Gives
  <2>2. Outs(e2) = Outs(e) /\ e2.word = e.word /\ e2.visited = e.visited
    BY DEF Outs, Gives
  <2>3. Fits(p, G, e, u, Called(e2, i))
    BY <2>1
  <2> QED BY <2>2, <2>3 DEF Fits

\* It still waits for the call.
<1>WaitsAfter.
    ASSUME NEW p, NEW e, NEW f, Waits(p, e, f), NEW e2, NEW f2, NEW s, NEW r
    PROVE  /\ Gives(p, e, e2, s) /\ Takes(p, f, f2, s) => Waits(p, e2, f2)
           /\ Gives(p, f, f2, r) => Waits(p, e, f2)
  BY <1>WaitsAfter DEF Waits, Gives, Takes

\* The first path to end sets the outputs, and the typechecker goes on.
<1>ProgressOutput.
    ASSUME NEW p, NEW G, NEW W, NEW fs, NEW pend, Progress(p, G, W, fs, pend),
           NEW l, l = Len(fs), l > 1, fs[l].states # <<>>, ~fs[l].known,
           NEW x, x = Top(fs[l].states), Ends(p, fs[l].word, x.ip),
           NEW fs2 \in Seq(Frames(p)), Len(fs2) = l,
           Takes(p, fs[l], fs2[l], x.stack), Gives(p, fs[l - 1], fs2[l - 1], x.stack),
           \A n \in 1 .. l - 2 : fs2[n] = fs[n]
    PROVE  Progress(p, G, W, fs2, pend)
  <2> USE <1>ProgressOutput
  <2>1. PICK A : A = Frames(p)
    OBVIOUS
  <2>2. fs \in Seq(A) /\ l \in Nat \ {0, 1} /\ l \in 1 .. Len(fs) /\ p \in Programs /\ fs # <<>>
    <3>1. fs \in Seq(A) /\ p \in Programs
      BY <2>1 DEF Progress
    <3>2. Len(<<>>) = 0 /\ Len(fs) \in Nat
      BY <3>1, SMT
    <3> QED BY <3>1, <3>2, SMT
  <2>3. PICK m \in Nat : m = l - 1 /\ m + 1 = l /\ m \in 1 .. l - 1 /\ m \in 1 .. Len(fs)
    BY <2>2, SMT
  <2>4. PICK f, f2, e, e2, s : f = fs[l] /\ f2 = fs2[l] /\ e = fs[m] /\ e2 = fs2[m] /\ s = x.stack
    OBVIOUS
  <2>5. f \in A /\ Takes(p, f, f2, s) /\ Gives(p, e, e2, s)
    BY <2>2, <2>3, <2>4, SeqElement
  <2>6. Fits(p, G, f2, W[l], Elements(f2.states))
    <3>1. Fits(p, G, f, W[l], Elements(f.states))
      BY <2>2, <2>4 DEF Progress
    <3> QED BY <2>1, <2>4, <2>5, <3>1, <1>FitsTakes
  <2>17. ASSUME NEW n \in 1 .. l - 1
         PROVE  Fits(p, G, fs2[n], W[n], Called(fs2[n], W[n + 1].input))
                /\ Waits(p, fs2[n], fs2[n + 1])
    <3>1. Fits(p, G, fs[n], W[n], Called(fs[n], W[n + 1].input)) /\ Waits(p, fs[n], fs[n + 1])
      BY DEF Progress
    <3>2. CASE n = m
      <4>1. fs[n] = e /\ fs2[n] = e2 /\ fs[n + 1] = f /\ fs2[n + 1] = f2
        BY <2>3, <2>4, <3>2
      <4>2. PICK i, u : i = W[n + 1].input /\ u = W[n]
        OBVIOUS
      <4>3. Fits(p, G, e, u, Called(e, i)) /\ Waits(p, e, f)
        BY <3>1, <4>1, <4>2
      <4>4. Fits(p, G, e2, u, Called(e2, i))
        BY <2>5, <4>3, <1>FitsGives
      <4>5. Waits(p, e2, f2)
        BY <2>5, <4>3, <1>WaitsAfter
      <4> QED BY <4>1, <4>2, <4>4, <4>5
    <3>3. CASE n # m
      <4>1. n \in 1 .. l - 2 /\ fs2[n] = fs[n]
        <5>1. n \in 1 .. l - 2
          BY <2>2, <2>3, <3>3, SMT
        <5> QED BY <5>1
      <4>2. CASE n + 1 = m
        <5>1. fs[n + 1] = e /\ fs2[n + 1] = e2
          BY <2>3, <2>4, <4>2
        <5>2. Waits(p, fs[n], e)
          BY <3>1, <5>1
        <5>3. Waits(p, fs[n], e2)
          BY <2>5, <5>2, <1>WaitsAfter
        <5> QED BY <3>1, <4>1, <5>1, <5>3
      <4>3. CASE n + 1 # m
        <5>1. n + 1 \in 1 .. l - 2
          BY <2>2, <2>3, <4>1, <4>3, SMT
        <5>2. fs2[n + 1] = fs[n + 1]
          BY <5>1
        <5> QED BY <3>1, <4>1, <5>2
      <4> QED BY <4>2, <4>3
    <3> QED BY <3>2, <3>3
  <2>18. fs2[1].word = fs[1].word /\ Begun(p, fs2[1], W[1])
    <3>1. Begun(p, fs[1], W[1])
      BY <2>2 DEF Progress
    <3>2. CASE m = 1
      <4>1. fs[1] = e /\ fs2[1] = e2
        BY <2>4, <3>2
      <4> QED BY <2>5, <3>1, <4>1 DEF Begun, Gives
    <3>3. CASE m # 1
      <4>1. 1 \in 1 .. l - 2
        BY <2>2, <2>3, <3>3, SMT
      <4> QED BY <3>1, <4>1
    <3> QED BY <3>2, <3>3
  <2>19. fs2 # <<>>
    <3>1. Len(<<>>) = 0
      OBVIOUS
    <3> QED BY <2>2, <3>1
  <2>20. Fits(p, G, fs2[Len(fs2)], W[Len(fs2)], Elements(fs2[Len(fs2)].states))
    BY <2>4, <2>6
  <2>21. /\ p \in Programs /\ Closed(p, G) /\ pend \subseteq Promised(p)
         /\ \A u \in Promised(p) \ pend : Has_Walk(p, G, u) \/ (fs2 # <<>> /\ fs2[1].word = u)
    BY <2>18, <2>19 DEF Progress
  <2> QED BY <2>17, <2>18, <2>20, <2>21 DEF Progress

\* It has taken the stack for its outputs.
<1>TakenTakes.
    ASSUME NEW p, NEW f \in Frames(p), f.states # <<>>, NEW s \in Stacks(p),
           NEW f2, f2 = Taken(f, s)
    PROVE  Takes(p, f, f2, s)
  <2> USE <1>TakenTakes
  <2> PICK B, t : B = Places(p) /\ t = Pop(f.states)
    OBVIOUS
  <2>2. t \in Seq(B)
    <3>1. f.states \in Seq(B)
      BY DEF Frames
    <3> QED BY <3>1, StackPop
  <2>3. f2 = [f EXCEPT !.known = TRUE, !.output = s, !.states = t]
    BY DEF Taken
  <2>4. /\ f2.word = f.word /\ f2.known = TRUE /\ f2.output = s
        /\ f2.states = t /\ f2.visited = f.visited
    BY <2>3 DEF Frames
  <2>5. f2 \in Frames(p)
    BY <2>2, <2>3 DEF Frames
  <2> QED BY <2>4, <2>5 DEF Takes

<1> SUFFICES ASSUME Checking, First_Output
             PROVE  Checking'
  OBVIOUS
<1>1. PICK G, W : Progress(prog, G, W, frames, pending)
  BY DEF Checking
<1>2. frames # <<>> /\ Current.states # <<>> /\ At_End /\ ~Current.known
  BY DEF First_Output, Walking
<1>3. PICK f, x, l, m, s, A : /\ f = Current /\ x = S /\ l = Len(frames) /\ m = l - 1 /\ s = x.stack
                              /\ A = Frames(prog)
  OBVIOUS
<1>4. /\ f \in A /\ f = frames[l] /\ l \in Nat \ {0} /\ f.states # <<>> /\ x = Top(f.states)
      /\ s \in Stacks(prog) /\ Ends(prog, f.word, x.ip) /\ ~f.known
  BY <1>1, <1>2, <1>3, WalkAt
<1>5. frames \in Seq(A) /\ Begun(prog, frames[1], W[1])
  BY <1>1, <1>2, <1>3 DEF Progress
<1>6. l > 1 /\ m \in Nat \ {0} /\ m \in 1 .. l - 1 /\ m \in 1 .. Len(frames)
      /\ l \in 1 .. Len(frames) /\ m # l
  <2>1. l # 1
    BY <1>4, <1>5 DEF Begun
  <2> QED BY <1>3, <1>4, <2>1, SMT
<1>7. PICK e, k : e = frames[m] /\ k = Len(e.states)
  OBVIOUS
<1>8. e \in A /\ e.states # <<>>
  <2>1. e \in A
    BY <1>5, <1>6, <1>7, SeqElement
  <2>2. Waits(prog, e, frames[m + 1])
    BY <1>1, <1>3, <1>6, <1>7 DEF Progress
  <2> QED BY <2>1, <2>2 DEF Waits
<1>9. PICK y, z : y = Top(e.states) /\ z = [y EXCEPT !.stack = s]
  OBVIOUS
<1>10. y = e.states[k] /\ z \in Places(prog) /\ z.stack = s /\ z.ip = y.ip
  <2>1. PICK B, r : B = Places(prog) /\ r = e.states
    OBVIOUS
  <2>2. r \in Seq(B) /\ r # <<>>
    BY <1>3, <1>8, <2>1 DEF Frames
  <2>3. Top(r) \in B
    BY <2>2, StackPop
  <2>4. y \in B /\ y = e.states[k]
    BY <1>7, <1>9, <2>1, <2>3 DEF Top
  <2> QED BY <1>4, <1>9, <2>1, <2>4 DEF Places
<1>11. PICK e2, f2 : e2 = With_Top(e, z) /\ f2 = Taken(f, s)
  OBVIOUS
<1>12. Takes(prog, f, f2, s)
  BY <1>3, <1>4, <1>11, <1>TakenTakes
<1>13. Gives(prog, e, e2, s) /\ e2 \in A
  <2>1. /\ e2 \in Frames(prog) /\ e2.word = e.word /\ e2.known = e.known
        /\ e2.output = e.output /\ e2.visited = e.visited
        /\ e2.states # <<>> /\ Pop(e2.states) = Pop(e.states) /\ Top(e2.states) = z
    BY <1>3, <1>8, <1>10, <1>11, WithTop, SMT
  <2> QED BY <1>3, <1>9, <1>10, <2>1 DEF Gives
<1>14. f2 \in A
  BY <1>3, <1>12 DEF Takes
<1>15. /\ frames' = [frames EXCEPT ![l].known = TRUE, ![l].output = s, ![l].states = Pop(f.states),
                                   ![m].states[k].stack = s]
       /\ prog' = prog /\ pending' = pending
  BY <1>3, <1>7 DEF First_Output
<1>16. PICK z1, z2 : z1 = [frames EXCEPT ![l] = f2] /\ z2 = [z1 EXCEPT ![m] = e2]
  OBVIOUS
<1>17. frames' = z2
  <2>1. f2 = [frames[l] EXCEPT !.known = TRUE, !.output = s, !.states = Pop(f.states)]
    BY <1>4, <1>11 DEF Taken
  <2>2. z1 = [frames EXCEPT ![l].known = TRUE, ![l].output = s, ![l].states = Pop(f.states)]
    BY <1>5, <1>6, <1>16, <2>1
  <2>3. z1[m] = e
    BY <1>5, <1>6, <1>7, <1>16, SMT
  <2>4. e2 = [z1[m] EXCEPT !.states[k].stack = s]
    BY <1>7, <1>9, <1>10, <1>11, <2>3 DEF With_Top
  <2>5. z2 = [z1 EXCEPT ![m].states[k].stack = s]
    BY <1>16, <2>4
  <2> QED BY <1>15, <2>2, <2>5
<1>18. /\ z1 \in Seq(A) /\ Len(z1) = l
       /\ \A n \in 1 .. l : z1[n] = IF n = l THEN f2 ELSE frames[n]
  <2>1. /\ [frames EXCEPT ![l] = f2] \in Seq(A) /\ Len([frames EXCEPT ![l] = f2]) = Len(frames)
        /\ \A n \in 1 .. Len(frames) : [frames EXCEPT ![l] = f2][n] = IF n = l THEN f2
           ELSE frames[n]
    BY <1>5, <1>6, <1>14, SeqExcept, SMT
  <2> QED BY <1>3, <1>16, <2>1
<1>19. /\ z2 \in Seq(A) /\ Len(z2) = l
       /\ \A n \in 1 .. l : z2[n] = IF n = m THEN e2 ELSE z1[n]
  <2>1. m \in 1 .. Len(z1)
    BY <1>3, <1>6, <1>18
  <2>2. /\ [z1 EXCEPT ![m] = e2] \in Seq(A) /\ Len([z1 EXCEPT ![m] = e2]) = Len(z1)
        /\ \A n \in 1 .. Len(z1) : [z1 EXCEPT ![m] = e2][n] = IF n = m THEN e2 ELSE z1[n]
    BY <1>13, <1>18, <2>1, SeqExcept, SMT
  <2> QED BY <1>16, <1>18, <2>2
<1>20. z2[l] = f2 /\ z2[l - 1] = e2 /\ \A n \in 1 .. l - 2 : z2[n] = frames[n]
  <2>1. z2[m] = e2
    BY <1>3, <1>6, <1>19
  <2>2. z2[l] = f2
    BY <1>3, <1>6, <1>18, <1>19
  <2>3. ASSUME NEW n \in 1 .. l - 2 PROVE z2[n] = frames[n]
    <3>1. n \in 1 .. l /\ n # m /\ n # l
      BY <1>3, <1>6, SMT
    <3> QED BY <1>18, <1>19, <3>1
  <2> QED BY <1>3, <2>1, <2>2, <2>3
<1>21. Takes(prog, frames[l], z2[l], x.stack) /\ Gives(prog, frames[l - 1], z2[l - 1], x.stack)
  BY <1>3, <1>4, <1>7, <1>12, <1>13, <1>20
<1>22. Progress(prog, G, W, z2, pending)
  <2>1. frames[l].states # <<>> /\ ~frames[l].known /\ x = Top(frames[l].states)
        /\ Ends(prog, frames[l].word, x.ip)
    BY <1>4
  <2> QED BY <1>1, <1>3, <1>6, <1>19, <1>20, <1>21, <2>1, <1>ProgressOutput
<1>23. Progress(prog', G, W, frames', pending')
  BY <1>15, <1>17, <1>22
<1> QED BY <1>23 DEF Checking

\* A dynamically typed function that is walked hands its outputs to the caller.
LEMMA ReturnKeeps == Checking /\ Return_To_Caller => Checking'
\* A walk in progress stays one when more walks are done.
<1>FitsGrows.
    ASSUME NEW p, NEW G, NEW H, G \subseteq H, NEW f, NEW w, NEW P, Fits(p, G, f, w, P)
    PROVE  Fits(p, H, f, w, P)
  <2> USE <1>FitsGrows
  <2> PICK Q, o, n : Q = w.points /\ o = Outs(f) /\ n = f.word
    OBVIOUS
  <2>2. \A x \in Q : x \in P \/ Sound(p, G, Q, o, n, x)
    BY DEF Fits
  <2>3. \A x \in Q : x \in P \/ Sound(p, H, Q, o, n, x)
    BY <2>2, SoundGrows
  <2> QED BY <2>3 DEF Fits

\* A call of a dynamically typed function whose body has been walked.
<1>FitsResumes.
    ASSUME NEW p \in Programs, NEW H, NEW e \in Frames(p), NEW w, NEW g \in H,
           Fits(p, H, e, w, Called(e, g.input)), NEW h, Waits(p, e, h), g.word = h.word,
           g.output = Top(e.states).stack, NEW e2, Resumes(p, e, e2)
    PROVE  \E w2 : w2.input = w.input /\ Fits(p, H, e2, w2, Elements(e2.states))
  <2> USE <1>FitsResumes
  <2> PICK v, s, t, R, o, i, ip : /\ v = e.word /\ s = e.states /\ t = e2.states /\ R = w.points
                                  /\ o = Outs(e) /\ i = g.input /\ ip = Top(e.states).ip
    OBVIOUS
  <2> PICK x, y, op : x = State(i, ip) /\ y = Top(t) /\ op = At(Text(p, v), ip)
    OBVIOUS
  <2> PICK B : B = Places(p)
    OBVIOUS
  <2> t \in Seq(B) /\ t # <<>> /\ Pop(t) = Pop(s) /\ v \in Names(p)
    BY DEF Resumes, Frames
  <2>5. y \in B /\ y.ip = ip + 1 /\ y.stack = g.output
    <3>1. Top(t) \in B
      BY StackPop
    <3> QED BY <3>1 DEF Resumes
  <2>6. /\ x \in R /\ R \subseteq Points(p, v) /\ Elements(Pop(s)) \subseteq R
        /\ \A z \in R : z \in Elements(Pop(s)) \/ z = x \/ Sound(p, H, R, o, v, z)
    BY DEF Fits, Called
  <2>7. x.ip = ip /\ x.stack = i /\ ip \in 0 .. Len(Text(p, v))
    <3>1. x.ip = ip /\ x.stack = i
      BY DEF State
    <3>2. x \in Points(p, v)
      BY <2>6
    <3> QED BY <3>1, <3>2 DEF Points
  <2> ~Ends(p, v, ip) /\ op.kind = "Call_Symbol" /\ op.arg = g.word /\ p.words[op.arg].dynamic
    BY DEF Waits
  <2>9. ip + 1 \in 0 .. Len(Text(p, v))
    BY <2>7, TextIs
  <2>10. y \in Points(p, v)
    BY <2>5, <2>9 DEF Places, Points
  <2> PICK Q : Q = R \cup {y}
    OBVIOUS
  <2>12. \A z : z \in Elements(t) <=> z \in Elements(Pop(s)) \/ z = y
    <3>1. \A z : z \in Elements(t) <=> z \in Elements(Pop(t)) \/ z = y
      BY ElementsPop
    <3> QED BY <3>1
  <2>13. Sound(p, H, Q, o, v, x)
    <3> PICK j : j = g.output
      OBVIOUS
    <3>2. Covered(p, Q, j, ip + 1)
      <4>1. y \in Q /\ Like(p, y.stack, j)
        BY <2>5 DEF Like
      <4> QED BY <2>5, <4>1 DEF Covered
    <3>3. p.words[op.arg].dynamic /\ \E k \in H : /\ k.word = op.arg /\ k.input = x.stack
                                                  /\ Covered(p, Q, k.output, x.ip + 1)
      BY <2>7, <3>2
    <3>4. Passes(p, H, Q, x, op)
      BY <3>3 DEF Passes
    <3> QED BY <2>7, <3>4 DEF Sound
  <2>14. \A z \in R : z \in Elements(t) \/ Sound(p, H, Q, o, v, z)
    <3>1. R \subseteq Q
      OBVIOUS
    <3>2. \A z \in R : Sound(p, H, R, o, v, z) => Sound(p, H, Q, o, v, z)
      BY <3>1, SoundGrows
    <3> QED BY <2>6, <2>12, <2>13, <3>2
  <2>15. \A z \in Q : z \in Elements(t) \/ Sound(p, H, Q, o, v, z)
    BY <2>12, <2>14
  <2>16. Q \subseteq Points(p, v) /\ Elements(t) \subseteq Q /\ R \subseteq Q
    BY <2>6, <2>10, <2>12
  <2>17. PICK w2 : w2 = [input |-> w.input, points |-> Q]
    OBVIOUS
  <2>18. w2.input = w.input /\ w2.points = Q
    BY <2>17
  <2>19. w.input \in Stacks(p) /\ State(w.input, 0) \in Q
    BY <2>16 DEF Fits
  <2>20. ASSUME NEW k \in DOMAIN e2.visited PROVE Loops(p, Q, v, e2.visited[k], k)
    <3>1. k \in DOMAIN e.visited /\ e2.visited = e.visited
      BY DEF Resumes
    <3>2. Loops(p, R, v, e2.visited[k], k)
      BY <3>1 DEF Fits
    <3> QED BY <2>16, <3>2, LoopsGrows, SMT
  <2>21. e2.word = v /\ Outs(e2) = o
    BY DEF Resumes, Outs
  <2>22. Fits(p, H, e2, w2, Elements(t))
    BY <2>15, <2>16, <2>18, <2>19, <2>20, <2>21 DEF Fits
  <2> QED BY <2>18, <2>22

\* The caller of a frame that goes on still waits for it.
<1>WaitsResumes.
    ASSUME NEW p, NEW e, NEW f, Waits(p, e, f), NEW f2, Resumes(p, f, f2)
    PROVE  Waits(p, e, f2)
  BY <1>WaitsResumes DEF Waits, Resumes

\* The walk of the called function is done and its caller goes on after the call.
<1>ProgressReturn.
    ASSUME NEW p, NEW G, NEW W, NEW fs, NEW pend, Progress(p, G, W, fs, pend),
           NEW l, l = Len(fs), l > 1, fs[l].states = <<>>, NEW m, m = l - 1,
           NEW fs2 \in Seq(Frames(p)), Len(fs2) = m, Resumes(p, fs[m], fs2[m]),
           \A n \in 1 .. m - 1 : fs2[n] = fs[n]
    PROVE  \E H, U : Progress(p, H, U, fs2, pend)
  <2> USE <1>ProgressReturn
  <2>1. PICK A : A = Frames(p)
    OBVIOUS
  <2>2. fs \in Seq(A) /\ p \in Programs /\ Closed(p, G) /\ pend \subseteq Promised(p)
    BY <2>1 DEF Progress
  <2>3. l \in Nat /\ m \in Nat \ {0} /\ m \in 1 .. l - 1 /\ m + 1 = l /\ l \in 1 .. Len(fs)
        /\ m \in 1 .. Len(fs)
    <3>1. l \in Nat
      BY <2>2, SMT
    <3> QED BY <3>1, SMT
  <2>4. fs # <<>> /\ fs2 # <<>>
    <3>1. Len(<<>>) = 0
      OBVIOUS
    <3>2. l # 0 /\ m # 0
      BY <2>3, SMT
    <3> QED BY <3>1, <3>2
  <2>5. PICK f, e, e2, u, w : f = fs[l] /\ e = fs[m] /\ e2 = fs2[m] /\ u = W[l] /\ w = W[m]
    OBVIOUS
  <2>6. /\ f \in A /\ e \in A /\ f.states = <<>> /\ Resumes(p, e, e2)
        /\ Fits(p, G, f, u, Elements(f.states))
    BY <2>2, <2>3, <2>4, <2>5, SeqElement DEF Progress
  <2>7. Fits(p, G, e, w, Called(e, u.input)) /\ Waits(p, e, f)
    BY <2>3, <2>5 DEF Progress
  <2>8. PICK o : o = Top(e.states).stack
    OBVIOUS
  <2>9. o \in Stacks(p) /\ (f.known => o = f.output)
    <3>1. PICK B : B = Places(p)
      OBVIOUS
    <3>2. e.states \in Seq(B) /\ e.states # <<>>
      BY <2>1, <2>6, <2>7, <3>1 DEF Frames, Waits
    <3>3. Top(e.states) \in B
      BY <3>2, StackPop
    <3>4. o \in Stacks(p)
      BY <2>8, <3>1, <3>3 DEF Places
    <3>5. f.known => o = f.output
      BY <2>7, <2>8 DEF Waits
    <3> QED BY <3>4, <3>5
  <2>10. PICK g, H : H = G \cup {g} /\ g.word = f.word /\ g.input = u.input /\ g.output = o
                     /\ Closed(p, H)
    <3>1. Closed(p, G) /\ f \in Frames(p) /\ Fits(p, G, f, u, Elements(f.states)) /\ f.states = <<>>
          /\ o \in Stacks(p) /\ (f.known => o = f.output)
      BY <2>1, <2>2, <2>6, <2>9
    <3> QED BY <3>1, FitsLast, SMT
  <2>11. G \subseteq H /\ g \in H
    BY <2>10
  <2>12. Fits(p, H, e, w, Called(e, g.input))
    <3>1. PICK c : c = Called(e, u.input)
      OBVIOUS
    <3>2. Fits(p, H, e, w, c)
      BY <2>7, <2>11, <3>1, <1>FitsGrows
    <3> QED BY <2>10, <3>1, <3>2
  <2>13. PICK w2 : w2.input = w.input /\ Fits(p, H, e2, w2, Elements(e2.states))
    <3>1. g.word = f.word /\ g.output = Top(e.states).stack
      BY <2>8, <2>10
    <3> QED BY <2>1, <2>2, <2>6, <2>7, <2>11, <2>12, <3>1, <1>FitsResumes
  <2>14. PICK U : U = [n \in 1 .. m |-> IF n = m THEN w2 ELSE W[n]]
    OBVIOUS
  <2>15. U[m] = w2 /\ \A n \in 1 .. m - 1 : U[n] = W[n]
    BY <2>3, <2>14, SMT
  <2>16. ASSUME NEW n \in 1 .. m - 1
         PROVE  /\ Fits(p, H, fs2[n], U[n], Called(fs2[n], U[n + 1].input))
                /\ Waits(p, fs2[n], fs2[n + 1])
    <3>1. n \in 1 .. l - 1 /\ n + 1 \in 1 .. m
      BY <2>3, SMT
    <3>2. Fits(p, G, fs[n], W[n], Called(fs[n], W[n + 1].input)) /\ Waits(p, fs[n], fs[n + 1])
      BY <3>1 DEF Progress
    <3>3. fs2[n] = fs[n] /\ U[n] = W[n]
      BY <2>15
    <3>4. U[n + 1].input = W[n + 1].input /\ Waits(p, fs[n], fs2[n + 1])
      <4>1. CASE n + 1 = m
        <5>1. U[n + 1] = w2 /\ W[n + 1] = w /\ fs[n + 1] = e /\ fs2[n + 1] = e2
          BY <2>5, <2>15, <4>1
        <5>2. Waits(p, fs[n], e)
          BY <3>2, <5>1
        <5>3. Waits(p, fs[n], e2)
          BY <2>6, <5>2, <1>WaitsResumes
        <5> QED BY <2>13, <5>1, <5>3
      <4>2. CASE n + 1 # m
        <5>1. n + 1 \in 1 .. m - 1
          BY <2>3, <3>1, <4>2, SMT
        <5>2. U[n + 1] = W[n + 1] /\ fs2[n + 1] = fs[n + 1]
          BY <2>15, <5>1
        <5> QED BY <3>2, <5>2
      <4> QED BY <4>1, <4>2
    <3>5. PICK c, q, z : c = Called(fs[n], W[n + 1].input) /\ q = fs[n] /\ z = W[n]
      OBVIOUS
    <3>6. Fits(p, H, q, z, c)
      BY <2>11, <3>2, <3>5, <1>FitsGrows
    <3> QED BY <3>3, <3>4, <3>5, <3>6
  <2>17. fs2[1].word = fs[1].word /\ Begun(p, fs2[1], U[1])
    <3>1. Begun(p, fs[1], W[1])
      BY <2>4 DEF Progress
    <3>2. CASE m = 1
      <4>1. fs[1] = e /\ fs2[1] = e2 /\ U[1] = w2 /\ W[1] = w
        BY <2>5, <2>15, <3>2
      <4> QED BY <2>6, <2>13, <3>1, <4>1 DEF Begun, Resumes
    <3>3. CASE m # 1
      <4>1. 1 \in 1 .. m - 1
        BY <2>3, <3>3, SMT
      <4>2. fs2[1] = fs[1] /\ U[1] = W[1]
        BY <2>15, <4>1
      <4> QED BY <3>1, <4>2
    <3> QED BY <3>2, <3>3
  <2>18. \A v \in Promised(p) \ pend : Has_Walk(p, H, v) \/ (fs2 # <<>> /\ fs2[1].word = v)
    <3>1. \A v \in Promised(p) \ pend : Has_Walk(p, G, v) \/ fs[1].word = v
      BY DEF Progress
    <3>2. \A v : Has_Walk(p, G, v) => Has_Walk(p, H, v)
      BY <2>11, HasWalkGrows
    <3> QED BY <2>4, <2>17, <3>1, <3>2
  <2>19. Fits(p, H, fs2[Len(fs2)], U[Len(fs2)], Elements(fs2[Len(fs2)].states))
    BY <2>5, <2>13, <2>15
  <2>20. Progress(p, H, U, fs2, pend)
    BY <2>2, <2>10, <2>16, <2>17, <2>18, <2>19 DEF Progress
  <2> QED BY <2>20

<1> SUFFICES ASSUME Checking, Return_To_Caller
             PROVE  Checking'
  OBVIOUS
<1>1. PICK G, W : Progress(prog, G, W, frames, pending)
  BY DEF Checking
<1>2. PICK l, m, A, f, e, k : /\ l = Len(frames) /\ m = l - 1 /\ A = Frames(prog) /\ f = frames[l]
                              /\ e = frames[m] /\ k = Len(e.states)
  OBVIOUS
<1>3. frames \in Seq(A) /\ l > 1 /\ f.states = <<>>
  BY <1>1, <1>2 DEF Progress, Return_To_Caller, Current, Top
<1>4. l \in Nat /\ m \in Nat \ {0} /\ m \in 1 .. l - 1 /\ m \in 1 .. Len(frames) /\ m \in 1 .. m
  BY <1>2, <1>3, SMT
<1>5. frames # <<>>
  <2>1. Len(<<>>) = 0
    OBVIOUS
  <2>2. l # 0
    BY <1>4, SMT
  <2> QED BY <1>2, <2>1, <2>2
<1>8. e \in A /\ e.states # <<>>
  <2>1. e \in A
    BY <1>2, <1>3, <1>4, SeqElement
  <2>2. Waits(prog, e, frames[m + 1])
    BY <1>1, <1>2, <1>4 DEF Progress
  <2> QED BY <2>1, <2>2 DEF Waits
<1>9. PICK y, z : y = Top(e.states) /\ z = [y EXCEPT !.ip = @ + 1]
  OBVIOUS
<1>10. y = e.states[k] /\ z \in Places(prog) /\ z.stack = y.stack /\ z.ip = y.ip + 1
  <2>1. PICK B, r : B = Places(prog) /\ r = e.states
    OBVIOUS
  <2>2. r \in Seq(B) /\ r # <<>>
    BY <1>2, <1>8, <2>1 DEF Frames
  <2>3. Top(r) \in B
    BY <2>2, StackPop
  <2>4. y \in B /\ y = e.states[k]
    BY <1>2, <1>9, <2>1, <2>3 DEF Top
  <2> QED BY <1>9, <2>1, <2>4, SMT DEF Places
<1>11. PICK e2 : e2 = With_Top(e, z)
  OBVIOUS
<1>12. Resumes(prog, e, e2) /\ e2 \in A
  <2>1. /\ e2 \in Frames(prog) /\ e2.word = e.word /\ e2.known = e.known
        /\ e2.output = e.output /\ e2.visited = e.visited
        /\ e2.states # <<>> /\ Pop(e2.states) = Pop(e.states) /\ Top(e2.states) = z
    BY <1>2, <1>8, <1>10, <1>11, WithTop, SMT
  <2> QED BY <1>2, <1>9, <1>10, <2>1 DEF Resumes
<1>13. PICK q, z2 : q = Pop(frames) /\ z2 = [q EXCEPT ![m] = e2]
  OBVIOUS
<1>14. q \in Seq(A) /\ Len(q) = m /\ \A n \in 1 .. m : q[n] = frames[n]
  BY <1>2, <1>3, <1>5, <1>13, StackPop
<1>15. frames' = z2 /\ prog' = prog /\ pending' = pending
  <2>1. /\ frames' = [q EXCEPT ![m].states[k].ip = @ + 1]
        /\ prog' = prog /\ pending' = pending
    BY <1>2, <1>13 DEF Return_To_Caller
  <2>2. q[m] = e
    BY <1>2, <1>4, <1>14
  <2>3. e2 = [q[m] EXCEPT !.states[k].ip = @ + 1]
    BY <1>2, <1>9, <1>10, <1>11, <2>2 DEF With_Top
  <2>4. z2 = [q EXCEPT ![m].states[k].ip = @ + 1]
    BY <1>13, <2>3
  <2> QED BY <2>1, <2>4
<1>16. /\ z2 \in Seq(A) /\ Len(z2) = m
       /\ \A n \in 1 .. m : z2[n] = IF n = m THEN e2 ELSE q[n]
  <2>1. m \in 1 .. Len(q)
    BY <1>4, <1>14
  <2>2. /\ [q EXCEPT ![m] = e2] \in Seq(A) /\ Len([q EXCEPT ![m] = e2]) = Len(q)
        /\ \A n \in 1 .. Len(q) : [q EXCEPT ![m] = e2][n] = IF n = m THEN e2 ELSE q[n]
    BY <1>12, <1>14, <2>1, SeqExcept, SMT
  <2> QED BY <1>13, <1>14, <2>2
<1>17. Resumes(prog, frames[m], z2[m]) /\ \A n \in 1 .. m - 1 : z2[n] = frames[n]
  <2>1. z2[m] = e2
    BY <1>4, <1>16
  <2>2. ASSUME NEW n \in 1 .. m - 1 PROVE z2[n] = frames[n]
    <3>1. n \in 1 .. m /\ n # m
      BY <1>4, SMT
    <3> QED BY <1>14, <1>16, <3>1
  <2> QED BY <1>2, <1>12, <2>1, <2>2
<1>18. PICK H, U : Progress(prog, H, U, z2, pending)
  <2>1. frames[l].states = <<>>
    BY <1>2, <1>3
  <2> QED BY <1>1, <1>2, <1>3, <1>16, <1>17, <2>1, <1>ProgressReturn, SMTT(30)
<1>19. Progress(prog', H, U, frames', pending')
  BY <1>15, <1>18
<1> QED BY <1>19 DEF Checking

\* A word that is walked leaves its walk behind.
LEMMA DoneKeeps == Checking /\ Word_Checked => Checking'
\* The outermost frame, finished, is the walk of its word.
<1>ProgressDone.
    ASSUME NEW p, NEW G, NEW W, NEW fs, NEW pend, Progress(p, G, W, fs, pend),
           Len(fs) = 1, fs[1].states = <<>>
    PROVE  \E H : Progress(p, H, W, <<>>, pend)
  <2> USE <1>ProgressDone
  <2> PICK f, w : f = fs[1] /\ w = W[1]
    OBVIOUS
  <2> /\ p \in Programs /\ Closed(p, G) /\ pend \subseteq Promised(p) /\ fs # <<>>
      /\ f \in Frames(p) /\ Fits(p, G, f, w, Elements(f.states)) /\ Begun(p, f, w)
    <3>1. fs \in Seq(Frames(p)) /\ fs # <<>>
      <4>1. fs \in Seq(Frames(p))
        BY DEF Progress
      <4>2. Len(<<>>) = 0
        OBVIOUS
      <4>3. fs # <<>>
        BY <4>2, SMT
      <4> QED BY <4>1, <4>3
    <3>2. fs[1] \in Frames(p)
      <4>1. 1 \in 1 .. Len(fs)
        BY SMT
      <4> QED BY <3>1, <4>1, SeqElement
    <3> QED BY <3>1, <3>2 DEF Progress
  <2> PICK v, o, i : v = f.word /\ o = f.output /\ i = w.input
    OBVIOUS
  <2>4. o \in Stacks(p)
    BY DEF Frames
  <2> PICK g, H : H = G \cup {g} /\ g.word = v /\ g.input = i /\ g.output = o /\ Closed(p, H)
    BY <2>4, FitsLast, SMT
  <2>6. Has_Walk(p, H, v)
    BY DEF Has_Walk, Begun
  <2>7. G \subseteq H
    OBVIOUS
  <2>8. \A u \in Promised(p) \ pend : Has_Walk(p, G, u) \/ u = v
    BY DEF Progress
  <2>9. \A u \in Promised(p) \ pend : Has_Walk(p, H, u)
    BY <2>6, <2>7, <2>8, HasWalkGrows
  <2> PICK e : e = <<>>
    OBVIOUS
  <2>11. e \in Seq(Frames(p)) /\ \A n \in 1 .. Len(e) - 1 : FALSE
    BY SMT
  <2>12. Progress(p, H, W, e, pend)
    BY <2>9, <2>11 DEF Progress
  <2> QED BY <2>12

<1> SUFFICES ASSUME Checking, Word_Checked
             PROVE  Checking'
  OBVIOUS
<1>1. PICK G, W : Progress(prog, G, W, frames, pending)
  BY DEF Checking
<1>2. Len(frames) = 1 /\ frames[1].states = <<>> /\ frames' = <<>> /\ prog' = prog
      /\ pending' = pending
  BY DEF Word_Checked, Current, Top
<1>3. PICK H : Progress(prog, H, W, <<>>, pending)
  BY <1>1, <1>2, <1>ProgressDone
<1>4. Progress(prog', H, W, frames', pending')
  BY <1>2, <1>3
<1> QED BY <1>4 DEF Checking

\* A program that is accepted has a certificate: a set of walks, one for every
\* word with an effect and for main, that rely on no others.
LEMMA AcceptCertifies ==
  ASSUME Checking, Accept
  PROVE  status' = "accepted" /\ \E G : Certificate(prog', G)
<1>1. PICK G, W : Progress(prog, G, W, frames, pending)
  BY DEF Checking
<1>2. frames = <<>> /\ pending = {} /\ prog' = prog /\ status' = "accepted"
  BY DEF Accept, Stop
<1>3. Certificate(prog, G)
  BY <1>1, <1>2 DEF Certificate, Progress
<1> QED BY <1>2, <1>3

-----------------------------------------------------------------------------
(* The specification                                                        *)

\* Init_Checker: nothing is walked yet.
LEMMA InitChecking ==
  ASSUME Init_Checker
  PROVE  Checking
<1> PICK G, e : G = {} /\ e = <<>>
  OBVIOUS
<1>2. prog \in Programs /\ frames = e /\ pending = Promised(prog)
  BY DEF Init_Checker, Promised
<1>3. Closed(prog, G)
  BY DEF Closed
<1>4. e \in Seq(Frames(prog)) /\ \A n \in 1 .. Len(e) - 1 : FALSE
  BY SMT
<1>5. \A w \in Promised(prog) \ pending : FALSE
  BY <1>2
<1>6. Progress(prog, G, e, frames, pending)
  BY <1>2, <1>3, <1>4, <1>5 DEF Progress
<1> QED BY <1>6 DEF Checking

\* A step of the typechecker goes on, accepts with a certificate, or gives up.
LEMMA CheckKeeps ==
  ASSUME Checking, Check
  PROVE  /\ status = "checking" /\ prog' = prog
         /\ status' = "checking" => Checking'
         /\ status' = "accepted" => \E G : Certificate(prog', G)
<1>1. status = "checking" /\ prog' = prog
  BY DEF Check, Typecheck_Word, Push_Value, Apply_Effect, Reject_Effect, Check_If, Follow_Jump,
         Unlinked, Check_While, First_Do, Do_Again, Loop_Differs, Call_Dynamic, Exhaust_Stack,
         Call_Without_Effect, Check_Call_Intrinsic, Verify_Output, Wrong_Output, First_Output,
         Empty_Dynamic_Body, Return_To_Caller, Word_Checked, Accept, Visit, Walking, Goto,
         Set_States, Stop
<1>2. CASE \/ Typecheck_Word \/ Push_Value \/ Apply_Effect \/ Check_If \/ Follow_Jump \/ Check_While
           \/ First_Do \/ Do_Again \/ Call_Dynamic \/ Verify_Output \/ First_Output
           \/ Return_To_Caller \/ Word_Checked
  <2>1. Checking'
    BY <1>2, StartKeeps, PushKeeps, EffectKeeps, IfKeeps, JumpKeeps, FirstDoKeeps, PathEndKeeps,
       CallKeeps, FirstOutputKeeps, ReturnKeeps, DoneKeeps
  <2>2. status' = status
    BY <1>2 DEF Typecheck_Word, Push_Value, Apply_Effect, Check_If, Follow_Jump, Check_While,
         First_Do, Do_Again, Call_Dynamic, Verify_Output, First_Output, Return_To_Caller,
         Word_Checked, Goto, Set_States
  <2> QED BY <1>1, <2>1, <2>2
<1>3. CASE Accept
  BY <1>1, <1>3, AcceptCertifies
<1>4. CASE \/ Reject_Effect \/ Unlinked \/ Loop_Differs \/ Exhaust_Stack \/ Call_Without_Effect
           \/ Check_Call_Intrinsic \/ Wrong_Output \/ Empty_Dynamic_Body
  <2>1. status' \in {"rejected", "assert", "crashed", "exhausted"}
    <3>1. CASE Reject_Effect
      BY <3>1 DEF Reject_Effect, Mismatch_Outcomes, Stop
    <3> QED BY <1>4, <3>1 DEF Unlinked, Loop_Differs, Exhaust_Stack, Call_Without_Effect,
                              Check_Call_Intrinsic, Wrong_Output, Empty_Dynamic_Body, Stop
  <2>2. status' # "checking" /\ status' # "accepted"
    BY <2>1
  <2> QED BY <1>1, <2>2
<1> QED BY <1>2, <1>3, <1>4 DEF Check

\* The inductive invariant.  A program that is being checked has only finished
\* walks that rely on finished walks, and frames that fit what they have met.  An
\* accepted one has a certificate.  The machine follows the walks of one, but for
\* what its code has written through addresses.
Typed ==
  /\ prog \in Programs
  /\ status = "checking" => Checking
  /\ status = "accepted" => \E G : Certificate(prog, G)
  /\ machine = "idle" => calls = <<>> /\ data = <<>> /\ written = {}
  /\ machine # "idle" => status = "accepted" /\ Runs_Along

\* It holds at first.
LEMMA TypedInit == Init => Typed
<1>1. SUFFICES ASSUME Init PROVE Typed
  OBVIOUS
<1>2. Checking
  BY <1>1, InitChecking DEF Init
<1> QED BY <1>1, <1>2 DEF Init, Init_Checker, Typed

\* Every step keeps it.
LEMMA TypedNext == Typed /\ [Next]_vars => Typed'
<1>1. SUFFICES ASSUME Typed, [Next]_vars PROVE Typed'
  OBVIOUS
<1>2. CASE Check /\ UNCHANGED machineVars
  <2>1. status = "checking" /\ machine = "idle" /\ prog' = prog
    <3>1. status = "checking"
      BY <1>2 DEF Check, Typecheck_Word, Push_Value, Apply_Effect, Reject_Effect, Check_If,
           Follow_Jump, Unlinked, Check_While, First_Do, Do_Again, Loop_Differs, Call_Dynamic,
           Exhaust_Stack, Call_Without_Effect, Check_Call_Intrinsic, Verify_Output, Wrong_Output,
           First_Output, Empty_Dynamic_Body, Return_To_Caller, Word_Checked, Accept, Visit, Walking
    <3>2. Checking
      BY <1>1, <3>1 DEF Typed
    <3>3. prog' = prog
      BY <1>2, <3>2, CheckKeeps
    <3>4. machine = "idle"
      BY <1>1, <3>1 DEF Typed
    <3> QED BY <3>1, <3>3, <3>4
  <2>2. /\ status' = "checking" => Checking'
        /\ status' = "accepted" => \E G : Certificate(prog', G)
    BY <1>1, <1>2, <2>1, CheckKeeps DEF Typed
  <2>3. machine' = "idle" /\ calls' = <<>> /\ data' = <<>> /\ written' = {} /\ prog' \in Programs
    BY <1>1, <1>2, <2>1 DEF Typed, machineVars
  <2> QED BY <2>2, <2>3 DEF Typed
<1>3. CASE Run
  <2>1. UNCHANGED checkerVars /\ machine' # "idle" /\ status = "accepted"
    BY <1>1, <1>3 DEF Typed, Run, Start, Run_Push, Run_Cast, Run_Intrinsic_Code, Run_Branch,
         Run_Jump, Run_While, Run_Call, Run_Return, Exit, Execute, Move
  <2>2. prog' = prog /\ status' = "accepted"
    BY <2>1 DEF checkerVars
  <2> PICK G : Certificate(prog, G)
    BY <1>1, <2>1 DEF Typed
  <2>4. Runs_Along'
    <3>1. CASE Start
      BY <1>1, <3>1, StartRuns DEF Typed, Start
    <3>2. CASE ~Start
      <4>1. machine = "running" /\ Runs_Along
        BY <1>1, <1>3, <3>2 DEF Typed, Run, Run_Push, Run_Cast, Run_Intrinsic_Code, Run_Branch,
             Run_Jump, Run_While, Run_Call, Run_Return, Exit, Execute
      <4> QED BY <1>3, <3>2, <4>1, ExecuteKeeps DEF Run
    <3> QED BY <3>1, <3>2
  <2>5. \E H : Certificate(prog', H)
    BY <2>2
  <2> QED BY <1>1, <2>1, <2>2, <2>4, <2>5 DEF Typed
<1>4. CASE UNCHANGED vars
  <2>1. /\ prog' = prog /\ pending' = pending /\ frames' = frames /\ status' = status
        /\ machine' = machine /\ data' = data /\ calls' = calls /\ written' = written
    BY <1>4 DEF vars, checkerVars, machineVars
  <2> QED BY <1>1, <2>1 DEF Typed, Checking, Runs_Along, Shadows
<1> QED BY <1>1, <1>2, <1>3, <1>4 DEF Next

\* It always holds.
LEMMA TypedAlways == Spec => []Typed
BY TypedInit, TypedNext, PTL DEF Spec

\* It is enough for the four properties.
LEMMA TypedSafe ==
  Typed => NoUnderflow /\ OperandsAsTyped /\ EffectsHonoured /\ CallersDataKept
<1>1. SUFFICES ASSUME Typed PROVE NoUnderflow /\ OperandsAsTyped /\ EffectsHonoured
                      /\ CallersDataKept
  OBVIOUS
<1>2. CASE machine = "idle"
  <2>1. calls = <<>> /\ machine # "running"
    BY <1>1, <1>2 DEF Typed
  <2>2. \A n \in 1 .. Len(calls) : FALSE
    BY <2>1, SMT
  <2> QED BY <2>1, <2>2 DEF NoUnderflow, OperandsAsTyped, EffectsHonoured, CallersDataKept,
         At_Operation
<1>3. CASE machine # "idle"
  BY <1>1, <1>3, UnderflowSafe, OperandsSafe, EffectsSafe, CallersSafe DEF Typed
<1> QED BY <1>2, <1>3

\* The code of a program that typecheck accepts never pops from a data stack
\* that is too short: the pops of emit_intrinsic and of the branches
\* (linux-x86_64.cc) always find their slots.
THEOREM NoUnderflowHolds == Spec => []NoUnderflow
BY TypedAlways, TypedSafe, PTL

\* In a program that does without `any`, and until something is written into the
\* data stack through an address, an intrinsic finds operands that one of its
\* effects (types.cc) describes, and a branch finds a boolean.
THEOREM OperandsAsTypedHolds == Spec => []OperandsAsTyped
BY TypedAlways, TypedSafe, PTL

\* A word with an effect that typecheck has verified leaves as many values as it
\* declares when it returns, and values of the declared types without `any` and
\* without a write into the data stack through an address.
THEOREM EffectsHonouredHolds == Spec => []EffectsHonoured
BY TypedAlways, TypedSafe, PTL

\* A call of a word with a verified effect neither reads nor pops what its caller
\* has on the data stack below the arguments, and changes no slot there but by a
\* write through an address (`top` pushes one, store and syscall write through it).
THEOREM CallersDataKeptHolds == Spec => []CallersDataKept
BY TypedAlways, TypedSafe, PTL

=============================================================================
