-------------------------- MODULE DefinitionsProofs --------------------------
(***************************************************************************)
(* Proofs about the parser, for every sequence of tokens: the ids of the   *)
(* words a program defines differ, the translation finds the name of every *)
(* function whose end it meets, and it emits no End without its block.     *)
(***************************************************************************)
EXTENDS Definitions, StackLemmas, FiniteSetTheorems, WellFoundedInduction

\* Steps that need arithmetic or sequences cite SMT.
USE Zenon

\* A set of numbers up to n has a largest one.
LEMMA Largest ==
  ASSUME NEW n \in Nat, NEW T, T \subseteq 0 .. n, T # {}
  PROVE  \E b \in T : \A c \in T : c <= b
<1> DEFINE U == {k \in Nat : n - k \in T}
           R == OpToRel(<, Nat)
<1>1. U \subseteq Nat /\ U # {}
  <2>1. PICK b \in T : TRUE
    OBVIOUS
  <2>2. n - b \in Nat /\ n - (n - b) = b
    BY <2>1, SMT
  <2> QED BY <2>1, <2>2
<1>2. \E x \in U : \A y \in U : ~(<<y, x>> \in R)
  <2> HIDE DEF U
  <2> QED BY <1>1, WFMin, NatLessThanWellFounded
<1>3. PICK x \in U : \A y \in U : ~(<<y, x>> \in R)
  BY <1>2
<1>4. \A y \in U : ~(y < x)
  BY <1>1, <1>3 DEF OpToRel
<1>5. ASSUME NEW c \in T PROVE c <= n - x
  <2> HIDE DEF R
  <2>1. c \in 0 .. n /\ x \in Nat
    BY <1>3
  <2>2. n - c \in U
    BY <2>1, SMT
  <2>3. ~(n - c < x)
    <3> HIDE DEF U
    <3> QED BY <1>4, <2>2
  <2>4. c \in Int /\ n \in Int /\ x \in Int
    BY <2>1, SMT
  <2> QED BY ONLY <2>3, <2>4
<1>6. n - x \in T
  BY <1>3
<1> QED BY <1>5, <1>6

-----------------------------------------------------------------------------
(* The table of words.                                                      *)

Word_Kind == {"None", "Intrinsic", "Function", "Integer", "Array"}

\* The `fun` at k has its name before it, and the name is in the table.
Named(k) ==
  At(tokens, k).kind = "Function" =>
    /\ k >= 1
    /\ At(tokens, k - 1).kind = "Word"
    /\ words[At(tokens, k - 1).text].kind # "None"

\* The ids given so far are below the next one.
Table_Inv ==
  /\ tokens \in Sources
  /\ words \in [All_Names -> [kind : Word_Kind, id : Nat]]
  /\ word_count \in Nat
  /\ i \in 0 .. Len(tokens)
  /\ \A k \in 0 .. i - 1 : Named(k)
  /\ \A w \in All_Names : words[w].kind \notin {"None", "Intrinsic"} => words[w].id < word_count
  /\ IdsDiffer

\* The tokens are a sequence, and the texts of words are names.
LEMMA TokensAreSeq ==
  ASSUME Table_Inv
  PROVE  /\ tokens \in Seq([kind : Token_Kind, text : STRING])
         /\ Len(tokens) \in Nat
         /\ \A k \in 0 .. Len(tokens) - 1 :
              At(tokens, k).kind = "Word" => At(tokens, k).text \in All_Names
<1>1. tokens \in Sources
  BY DEF Table_Inv
<1>2. tokens \in Seq([kind : Token_Kind, text : STRING])
  BY <1>1, SourcesAssumption
<1>3. Len(tokens) \in Nat /\ DOMAIN tokens = 1 .. Len(tokens)
  BY <1>2, SMT
<1>4. \A k \in DOMAIN tokens : tokens[k].kind = "Word" => tokens[k].text \in Names
  BY <1>1, SourcesAssumption
<1>5. ASSUME NEW k \in 0 .. Len(tokens) - 1, At(tokens, k).kind = "Word"
      PROVE  At(tokens, k).text \in All_Names
  <2>1. k + 1 \in DOMAIN tokens
    BY <1>3, SMT
  <2>2. tokens[k + 1].text \in Names
    BY <1>4, <1>5, <2>1 DEF At
  <2> QED BY <2>2 DEF At, All_Names
<1> QED BY <1>2, <1>3, <1>5

-----------------------------------------------------------------------------
(* The activations.                                                         *)

Who == All_Names \cup {Main} \cup {Anonymous[n] : n \in Nat}
Frame == [who : Who, start : Nat, i : Int]

\* The span of an activation is part of the tokens, and follows a `fun` or a
\* `&fun` when it is not the whole program.
Inside(a) ==
  /\ a.start + a.i < Len(tokens)
  /\ a.start # 0 => At(tokens, a.start - 1).kind \in {"Function", "Lambda"}

Activations_Inv ==
  /\ i = Len(tokens)
  /\ frames \in Seq(Frame) /\ frames # <<>>
  /\ \A n \in 1 .. Len(frames) : Inside(frames[n])

IInv == Table_Inv /\ (outcome = "translate" => Activations_Inv) /\ FunctionNameFound

\* The activation that runs.
LEMMA TopFrame ==
  ASSUME Activations_Inv
  PROVE  /\ Len(frames) \in Nat \ {0}
         /\ f = frames[Len(frames)] /\ f \in Frame /\ Inside(f)
<1>1. Len(frames) \in Nat \ {0} /\ f \in Frame
  BY StackPop DEF Activations_Inv, f
<1> QED
  BY <1>1, SMT DEF Activations_Inv, f, Top

\* The scan for the block of an `end` finds a token of the span.
LEMMA BlockStart ==
  ASSUME Activations_Inv, Block_Starts # {}
  PROVE  Block_Start \in 0 .. f.i - 1
<1>1. f.i \in Int
  BY TopFrame DEF Frame
<1>2. Block_Starts \subseteq 0 .. f.i - 1
  BY DEF Block_Starts
<1>3. f.i \in Nat
  <2>1. PICK b \in Block_Starts : TRUE
    OBVIOUS
  <2>2. b \in 0 .. f.i - 1
    BY <1>2, <2>1
  <2> QED BY <1>1, <2>2, SMT
<1>4. Block_Starts \subseteq 0 .. f.i
  BY <1>2, <1>3, SMT
<1>5. \E b \in Block_Starts : \A c \in Block_Starts : c <= b
  BY <1>3, <1>4, Largest
<1>6. Block_Start \in Block_Starts
  BY <1>5 DEF Block_Start
<1> QED BY <1>2, <1>6

-----------------------------------------------------------------------------
(* The steps.                                                               *)

\* The translation leaves the table alone.
LEMMA TableKept ==
  ASSUME Table_Inv, UNCHANGED <<tokens, table>>
  PROVE  Table_Inv'
<1>1. tokens' = tokens /\ words' = words /\ word_count' = word_count /\ i' = i
  BY DEF table
<1> QED
  BY <1>1 DEF Table_Inv, Named, IdsDiffer, All_Names

\* The parser gives up.
LEMMA StopStep ==
  ASSUME IInv, NEW how \in {"exit", "unreachable", "assert"}, Stop(how)
  PROVE  IInv'
<1>1. Table_Inv'
  BY TableKept DEF IInv, Stop
<1> QED
  BY <1>1 DEF IInv, Stop, FunctionNameFound

\* Registration keeps the invariant.
LEMMA RegisterStep == IInv /\ (Register \/ Begin_Translation) => IInv'
\* An entry of the table keeps what is known of the others.
<1>DefineStep.
    ASSUME Table_Inv, i < Len(tokens),
           NEW name, NEW kind \in Word_Kind \ {"None", "Intrinsic"}, NEW complain,
           Define(name, kind, complain),
           At(tokens, i).kind = "Function" =>
             i >= 1 /\ At(tokens, i - 1).kind = "Word" /\ name = At(tokens, i - 1).text
    PROVE  Table_Inv'
  <2> USE <1>DefineStep
  <2> DEFINE entry == [kind |-> kind, id |-> word_count]
  <2>0. /\ words' = [words EXCEPT ![name] = entry]
        /\ word_count' = word_count + 1 /\ i' = i + 1 /\ tokens' = tokens
    BY DEF Define
  <2>1. Len(tokens) \in Nat /\ i \in Nat /\ word_count \in Nat
    BY TokensAreSeq, SMT DEF Table_Inv
  <2>2. words' \in [All_Names -> [kind : Word_Kind, id : Nat]]
    BY <2>0, <2>1 DEF Table_Inv
  <2>3. \A w \in All_Names : words'[w] = IF w = name THEN entry ELSE words[w]
    BY <2>0 DEF Table_Inv
  <2>4. \A w \in All_Names : words'[w].kind = "None" => words[w].kind = "None"
    BY <2>3, SMT DEF Word_Kind
  <2>5. ASSUME NEW k \in 0 .. i' - 1
        PROVE  Named(k)'
    <3>1. k \in 0 .. Len(tokens) - 1 /\ (k = i \/ k \in 0 .. i - 1)
      BY <2>0, <2>1, SMT
    <3>2. CASE k = i
      <4> SUFFICES ASSUME At(tokens, k).kind = "Function"
                   PROVE  /\ k >= 1 /\ At(tokens, k - 1).kind = "Word"
                          /\ words'[At(tokens, k - 1).text].kind # "None"
        BY <2>0 DEF Named
      <4>1. k >= 1 /\ At(tokens, k - 1).kind = "Word" /\ name = At(tokens, k - 1).text
        BY <3>2
      <4>2. name \in All_Names
        BY <3>1, <4>1, TokensAreSeq, SMT
      <4> QED BY <2>3, <4>1, <4>2, SMT DEF Word_Kind
    <3>3. CASE k \in 0 .. i - 1
      <4> SUFFICES ASSUME At(tokens, k).kind = "Function"
                   PROVE  /\ k >= 1 /\ At(tokens, k - 1).kind = "Word"
                          /\ words'[At(tokens, k - 1).text].kind # "None"
        BY <2>0 DEF Named
      <4>1. k >= 1 /\ At(tokens, k - 1).kind = "Word"
            /\ words[At(tokens, k - 1).text].kind # "None"
        BY <3>3 DEF Table_Inv, Named
      <4>2. At(tokens, k - 1).text \in All_Names
        BY <3>1, <4>1, TokensAreSeq, SMT
      <4> QED BY <2>4, <4>1, <4>2
    <3> QED BY <3>1, <3>2, <3>3
  <2>6. \A w \in All_Names :
          words'[w].kind \notin {"None", "Intrinsic"} => words'[w].id < word_count'
    BY <2>0, <2>1, <2>2, <2>3, SMT DEF Table_Inv
  <2>7. IdsDiffer'
    <3> SUFFICES ASSUME NEW v \in All_Names, NEW w \in All_Names, v # w,
                        words'[v].kind \notin {"None", "Intrinsic"},
                        words'[w].kind \notin {"None", "Intrinsic"}
                 PROVE  words'[v].id # words'[w].id
      BY DEF IdsDiffer, All_Names
    <3>1. CASE v = name
      <4>1. words'[v].id = word_count /\ words'[w] = words[w]
        BY <2>3, <3>1, SMT
      <4>2. words[w].id < word_count /\ words[w].id \in Nat
        BY <4>1 DEF Table_Inv
      <4> QED BY <2>1, <4>1, <4>2, SMT
    <3>2. CASE w = name
      <4>1. words'[w].id = word_count /\ words'[v] = words[v]
        BY <2>3, <3>2, SMT
      <4>2. words[v].id < word_count /\ words[v].id \in Nat
        BY <4>1 DEF Table_Inv
      <4> QED BY <2>1, <4>1, <4>2, SMT
    <3>3. CASE v # name /\ w # name
      <4>1. words'[v] = words[v] /\ words'[w] = words[w]
        BY <2>3, <3>3
      <4> QED BY <4>1 DEF Table_Inv, IdsDiffer
    <3> QED BY <3>1, <3>2, <3>3
  <2> QED
    BY <2>0, <2>1, <2>2, <2>5, <2>6, <2>7, SMT DEF Table_Inv

<1> SUFFICES ASSUME IInv, Register \/ Begin_Translation PROVE IInv'
  OBVIOUS
<1>0. Table_Inv /\ Len(tokens) \in Nat /\ i \in 0 .. Len(tokens)
  BY TokensAreSeq DEF IInv, Table_Inv
<1>1. CASE Register_Nothing
  <2>1. /\ i' = i + 1 /\ i < Len(tokens) /\ At(tokens, i).kind # "Function"
        /\ outcome' = outcome /\ outcome = "register"
        /\ tokens' = tokens /\ words' = words /\ word_count' = word_count
    BY <1>1 DEF Register_Nothing, Registering
  <2>2. ASSUME NEW k \in 0 .. i' - 1 PROVE Named(k)'
    <3>1. k = i \/ k \in 0 .. i - 1
      BY <1>0, <2>1, SMT
    <3> QED BY <1>0, <2>1, <3>1 DEF Table_Inv, Named
  <2>3. Table_Inv'
    BY <1>0, <2>1, <2>2, SMT DEF Table_Inv, IdsDiffer, All_Names
  <2> QED BY <2>1, <2>3 DEF IInv, FunctionNameFound
<1>2. ASSUME NEW name, NEW kind \in {"Function", "Integer", "Array"}, NEW complain,
             Define(name, kind, complain), outcome = "register", i < Len(tokens),
             At(tokens, i).kind = "Function" =>
               i >= 1 /\ At(tokens, i - 1).kind = "Word" /\ name = At(tokens, i - 1).text
      PROVE  IInv'
  <2>1. Table_Inv'
    BY <1>0, <1>2, <1>DefineStep DEF Word_Kind
  <2> QED BY <1>2, <2>1 DEF IInv, FunctionNameFound, Define
<1>3. CASE Register_Function
  BY <1>0, <1>2, <1>3, StopStep DEF Register_Function, Registering, Preceded, Before
<1>4. CASE Register_Lambda
  BY <1>0, <1>2, <1>4 DEF Register_Lambda, Registering
<1>5. CASE Register_Constant
  BY <1>0, <1>2, <1>5, StopStep DEF Register_Constant, Registering
<1>6. CASE Register_Array
  BY <1>0, <1>2, <1>6, StopStep DEF Register_Array, Registering
<1>7. CASE Begin_Translation
  <2> DEFINE a == Activation(Main, 0, Len(tokens))
  <2>1. /\ frames' = <<a>> /\ i = Len(tokens) /\ outcome' = "translate"
        /\ tokens' = tokens /\ i' = i
    BY <1>7 DEF Begin_Translation, table
  <2>2. a \in Frame /\ a.start = 0 /\ a.i = Len(tokens) - 1
    BY <1>0, SMT DEF Activation, Frame, Who
  <2>3. Inside(a)
    BY <1>0, <2>2, SMT DEF Inside
  <2> HIDE DEF a
  <2>4. <<a>> \in Seq(Frame) /\ <<a>> # <<>> /\ Len(<<a>>) = 1 /\ <<a>>[1] = a
    BY <2>2, SMT
  <2>5. Activations_Inv'
    BY <2>1, <2>3, <2>4, SMT DEF Activations_Inv, Inside
  <2>6. Table_Inv'
    BY <1>7, TableKept DEF IInv, Begin_Translation
  <2> QED BY <2>1, <2>5, <2>6 DEF IInv, FunctionNameFound
<1> QED
  BY <1>1, <1>3, <1>4, <1>5, <1>6, <1>7 DEF Register

\* The `fun` at the start of a block has a name that is in the table: the span
\* does not begin with it, as nothing but a word may come before a `fun`.
LEMMA NameBefore ==
  ASSUME IInv, outcome = "translate", Block_Starts # {}, Token(Block_Start).kind = "Function"
  PROVE  /\ Block_Start # 0
         /\ Token(Block_Start - 1).kind = "Word"
         /\ Token(Block_Start - 1).text \in All_Names
         /\ words[Token(Block_Start - 1).text].kind # "None"
<1>1. Activations_Inv /\ Table_Inv /\ Len(tokens) \in Nat
  BY TokensAreSeq DEF IInv
<1>2. /\ Block_Start \in 0 .. f.i - 1 /\ f.i \in Int /\ f.start \in Nat
      /\ Inside(f)
  BY <1>1, BlockStart, TopFrame DEF Frame
<1>3. PICK p \in Nat, b \in Nat, r \in Int :
        p = f.start /\ b = Block_Start /\ r = f.i /\ b <= r - 1
  BY <1>2, SMT
<1>4. p + r < Len(tokens) /\ (p # 0 => At(tokens, p - 1).kind \in {"Function", "Lambda"})
  BY <1>2, <1>3 DEF Inside
<1>5. p + b \in 0 .. Len(tokens) - 1 /\ p + b \in 0 .. i - 1
  <2>1. PICK n \in Nat : n = Len(tokens) /\ n = i
    BY <1>1 DEF Activations_Inv
  <2>2. b <= r - 1 /\ p + r < n
    BY <1>3, <1>4, <2>1
  <2>3. p + b \in 0 .. n - 1
    BY ONLY <2>2, p \in Nat, b \in Nat, r \in Int, n \in Nat
  <2> QED BY ONLY <2>1, <2>3
<1>6. At(tokens, p + b).kind = "Function"
  BY <1>3 DEF Token
<1>7. /\ p + b >= 1 /\ At(tokens, (p + b) - 1).kind = "Word"
      /\ words[At(tokens, (p + b) - 1).text].kind # "None"
  BY <1>1, <1>5, <1>6 DEF Table_Inv, Named
<1>8. At(tokens, (p + b) - 1).text \in All_Names
  BY <1>1, <1>5, <1>7, TokensAreSeq, SMT
<1>9. b # 0
  <2> SUFFICES ASSUME b = 0 PROVE FALSE
    OBVIOUS
  <2>1. p # 0 /\ (p + b) - 1 = p - 1
    BY <1>7, SMT
  <2> QED BY <1>4, <1>7, <2>1
<1>10. (p + b) - 1 = p + (b - 1)
  BY SMT
<1> QED
  BY <1>3, <1>7, <1>8, <1>9, <1>10 DEF Token

\* A word that the translation meets has an entry in the table.
LEMMA MetWord ==
  ASSUME IInv, Translating({"Word"})
  PROVE  words[Token(f.i).text].kind \in Word_Kind
<1>1. outcome = "translate" /\ f.i >= 0 /\ Token(f.i).kind = "Word"
  BY DEF Translating
<1>2. Activations_Inv /\ Table_Inv /\ f.i \in Int /\ f.start \in Nat
  BY <1>1, TopFrame DEF IInv, Frame
<1>3. PICK p \in Nat, r \in Int : p = f.start /\ r = f.i
  BY <1>2
<1>4. r >= 0 /\ p + r < Len(tokens)
  BY <1>1, <1>2, <1>3, TopFrame DEF Inside
<1>5. p + r \in 0 .. Len(tokens) - 1
  BY <1>2, <1>4, TokensAreSeq, SMT
<1>6. Token(f.i).text \in All_Names
  BY <1>1, <1>2, <1>3, <1>5, TokensAreSeq DEF Token
<1> QED BY <1>2, <1>6 DEF Table_Inv

\* Translation keeps the invariant.
LEMMA TranslateStep == IInv /\ Translate => IInv'
\* Going back in the span, as every operation does.
<1>BackTo.
    ASSUME Activations_Inv, Len(tokens) \in Nat, NEW n \in Int, n <= f.i
    PROVE  /\ Back_To(n) \in Seq(Frame) /\ Back_To(n) # <<>>
           /\ Len(Back_To(n)) = Len(frames)
           /\ \A m \in 1 .. Len(Back_To(n)) : Inside(Back_To(n)[m])
  <2> USE <1>BackTo
  <2>1. Len(frames) \in Nat \ {0} /\ f = frames[Len(frames)] /\ f \in Frame /\ Inside(f)
    BY TopFrame
  <2> DEFINE g == [f EXCEPT !.i = n]
  <2>2. Back_To(n) = [frames EXCEPT ![Len(frames)] = g]
    BY <2>1 DEF Back_To
  <2>3. g \in Frame /\ g.start = f.start /\ g.i = n
    BY <2>1 DEF Frame
  <2>4. Inside(g)
    BY <2>1, <2>3, SMT DEF Inside, Frame
  <2> HIDE DEF g
  <2> DEFINE t == Back_To(n)
  <2>5. t \in Seq(Frame) /\ Len(t) = Len(frames)
        /\ \A m \in 1 .. Len(frames) : t[m] = IF m = Len(frames) THEN g ELSE frames[m]
    BY <2>1, <2>2, <2>3, SMT DEF Activations_Inv
  <2> HIDE DEF t
  <2>6. t # <<>>
    BY <2>1, <2>5
  <2>7. \A m \in 1 .. Len(t) : Inside(t[m])
    BY <2>1, <2>4, <2>5 DEF Activations_Inv
  <2> QED BY <2>5, <2>6, <2>7 DEF t

\* The body of a function is entered.
<1>EnterBody.
    ASSUME Activations_Inv, Len(tokens) \in Nat, Block_Starts # {},
           Token(Block_Start).kind \in {"Function", "Lambda"},
           NEW who \in Who, NEW n \in Int, n <= f.i, Enter(who, n),
           UNCHANGED <<tokens, i>>
    PROVE  Activations_Inv'
  <2> USE <1>EnterBody
  <2> DEFINE b == Block_Start
             new == Activation(who, f.start + b + 1, f.i - b - 1)
             t == Back_To(n)
  <2>1. b \in 0 .. f.i - 1 /\ f.i \in Int /\ f.start \in Nat /\ f.start + f.i < Len(tokens)
    BY BlockStart, TopFrame DEF Frame, Inside
  <2>2. /\ t \in Seq(Frame)
        /\ \A m \in 1 .. Len(t) : Inside(t[m])
    BY <1>BackTo
  <2>3. new \in Frame /\ new.start = f.start + b + 1 /\ new.i = f.i - b - 2
    <3>1. f.start + b + 1 \in Nat /\ f.i - b - 1 - 1 \in Int /\ f.i - b - 1 - 1 = f.i - b - 2
      BY <2>1, SMT
    <3> QED BY <3>1 DEF Activation, Frame
  <2>4. At(tokens, f.start + b).kind \in {"Function", "Lambda"}
    BY DEF Token
  <2> HIDE DEF b
  <2>5. Inside(new)
    <3> HIDE DEF new
    <3>1. PICK p \in Int, q \in Int, r \in Int : p = f.start /\ q = b /\ r = f.i
      BY <2>1, SMT
    <3>2. new.start = p + q + 1 /\ new.i = r - q - 2
      BY <2>3, <3>1
    <3>3. new.start - 1 = p + q /\ new.start + new.i = p + r - 1
      BY <3>2, SMT
    <3>4. p + r - 1 < Len(tokens)
      BY <2>1, <3>1, SMT
    <3>5. At(tokens, p + q).kind \in {"Function", "Lambda"}
      BY <2>4, <3>1
    <3> QED BY <3>3, <3>4, <3>5 DEF Inside
  <2>6. frames' = Append(t, new)
    BY DEF Enter, b
  <2> HIDE DEF t, new
  <2>7. /\ Append(t, new) \in Seq(Frame) /\ Append(t, new) # <<>>
        /\ Len(t) \in Nat /\ Len(Append(t, new)) = Len(t) + 1
        /\ Append(t, new)[Len(t) + 1] = new
        /\ \A m \in 1 .. Len(t) : Append(t, new)[m] = t[m]
    BY <2>2, <2>3, SeqAppend, SMT
  <2>8. \A m \in 1 .. Len(Append(t, new)) : Inside(Append(t, new)[m])
    BY <2>2, <2>5, <2>7, SMT
  <2> QED
    BY <2>6, <2>7, <2>8 DEF Activations_Inv, Inside

\* The translation goes back in its span.
<1>MoveStep.
    ASSUME IInv, outcome = "translate", UNCHANGED <<tokens, table, outcome>>,
           NEW n \in Int, n <= f.i, frames' = Back_To(n)
    PROVE  IInv'
  <2> USE <1>MoveStep
  <2>1. Table_Inv' /\ tokens' = tokens /\ i' = i /\ outcome' = outcome
    BY TableKept DEF IInv, table
  <2>2. Activations_Inv /\ Len(tokens) \in Nat
    BY TokensAreSeq DEF IInv
  <2> DEFINE t == Back_To(n)
  <2>3. t \in Seq(Frame) /\ t # <<>> /\ \A m \in 1 .. Len(t) : Inside(t[m])
    BY <2>2, <1>BackTo
  <2>4. frames' = t
    OBVIOUS
  <2> HIDE DEF t
  <2>5. Activations_Inv'
    BY <2>1, <2>2, <2>3, <2>4 DEF Activations_Inv, Inside
  <2> QED
    BY <2>1, <2>5 DEF IInv, FunctionNameFound

\* An operation is emitted.
<1>EmitStep.
    ASSUME IInv, outcome = "translate", NEW kind, Emit(kind)
    PROVE  IInv'
  <2> USE <1>EmitStep
  <2>1. f.i \in Int
    BY TopFrame DEF IInv, Frame
  <2>2. f.i - 1 \in Int /\ f.i - 1 <= f.i
    BY <2>1, SMT
  <2> QED
    BY <2>2, <1>MoveStep DEF Emit

\* A body is entered from the end of its block.
<1>EnterStep.
    ASSUME IInv, outcome = "translate", Block_Starts # {},
           Token(Block_Start).kind \in {"Function", "Lambda"},
           NEW who \in Who, NEW n \in {Block_Start - 1, Block_Start - 2}, Enter(who, n),
           UNCHANGED <<tokens, table, outcome>>
    PROVE  IInv'
  <2> USE <1>EnterStep
  <2>1. Activations_Inv /\ Len(tokens) \in Nat /\ tokens' = tokens /\ i' = i
    BY TokensAreSeq DEF IInv, table
  <2>2. Block_Start \in 0 .. f.i - 1 /\ f.i \in Int
    BY <2>1, BlockStart, TopFrame DEF Frame
  <2>3. n \in Int /\ n <= f.i
    BY <2>2, SMT
  <2>4. Activations_Inv'
    BY <2>1, <2>3, <1>EnterBody
  <2>5. Table_Inv'
    BY TableKept DEF IInv
  <2> QED
    BY <2>4, <2>5 DEF IInv, FunctionNameFound

\* A body is left.
<1>LeaveStep.
    ASSUME IInv, outcome = "translate", UNCHANGED <<tokens, table>>,
           frames' = Pop(frames), outcome' = IF Len(frames) = 1 THEN "done" ELSE outcome
    PROVE  IInv'
  <2> USE <1>LeaveStep
  <2>1. Activations_Inv /\ Table_Inv' /\ tokens' = tokens /\ i' = i
    BY TableKept DEF IInv, table
  <2>2. /\ Len(frames) \in Nat \ {0} /\ Pop(frames) \in Seq(Frame)
        /\ Len(Pop(frames)) = Len(frames) - 1
        /\ \A n \in 1 .. Len(frames) - 1 : Pop(frames)[n] = frames[n]
    BY <2>1, StackPop DEF Activations_Inv
  <2> DEFINE t == Pop(frames)
  <2> HIDE DEF t
  <2>3. /\ t \in Seq(Frame) /\ Len(t) = Len(frames) - 1 /\ frames' = t
        /\ \A n \in 1 .. Len(frames) - 1 : t[n] = frames[n]
    BY <2>2 DEF t
  <2>4. CASE Len(frames) = 1
    BY <2>1, <2>4 DEF IInv, FunctionNameFound
  <2>5. CASE Len(frames) # 1
    <3>1. t # <<>>
      BY <2>2, <2>3, <2>5, SMT
    <3>2. \A n \in 1 .. Len(t) : Inside(t[n])
      BY <2>1, <2>2, <2>3, SMT DEF Activations_Inv
    <3>3. Activations_Inv'
      BY <2>1, <2>3, <3>1, <3>2 DEF Activations_Inv, Inside
    <3> QED BY <2>1, <2>5, <3>3 DEF IInv, FunctionNameFound
  <2> QED BY <2>4, <2>5

\* The name of a `&fun`.
<1>LambdaName.
    ASSUME NEW k \in Nat
    PROVE  Lambda_Name(k) \in Who
  <2> USE <1>LambdaName
  <2> DEFINE L == {n \in 0 .. k : At(tokens, n).kind = "Lambda"}
  <2>1. IsFiniteSet(0 .. k)
    BY FS_Interval, SMT
  <2>2. IsFiniteSet(L)
    BY <2>1, FS_Subset
  <2>3. Cardinality(L) \in Nat
    BY <2>2, FS_CardinalityType
  <2> QED BY <2>3 DEF Lambda_Name, Who

<1> SUFFICES ASSUME IInv, Translate PROVE IInv'
  OBVIOUS
<1>0. outcome = "translate"
  BY DEF Translate, Translate_Literal, Translate_Address, Translate_Word, Translate_Unhandled,
     Skip_Definition, Reject_Definition, Declare_Dynamic, Declare_Effect, Unexpected_End,
     End_Of_Block, Enter_Lambda, Enter_Function, Leave_Body, Translating, End_Of
<1>00. Activations_Inv /\ Table_Inv /\ f.i \in Int /\ f.start \in Nat
  BY <1>0, TopFrame DEF IInv, Frame
<1>1. CASE Translate_Literal
  BY <1>0, <1>1, <1>EmitStep DEF Translate_Literal
<1>2. CASE Translate_Address
  <2>1. CASE words[Token(f.i).text].kind # "None"
    BY <1>0, <1>2, <2>1, <1>EmitStep DEF Translate_Address
  <2>2. CASE words[Token(f.i).text].kind = "None"
    <3>1. Stop("thrown") /\ Token(f.i).kind = "Address_Of"
      BY <1>2, <2>2 DEF Translate_Address, Translating
    <3>2. outcome' = "thrown" /\ frames' = frames /\ tokens' = tokens /\ Table_Inv'
      BY <1>00, <3>1, TableKept DEF Stop
    <3>3. (Token(f.i).kind = "Address_Of")'
      BY <3>1, <3>2 DEF Token, f, At, Top
    <3> QED BY <3>2, <3>3 DEF IInv, FunctionNameFound
  <2> QED BY <2>1, <2>2
<1>3. CASE Translate_Word
  <2>1. words[Token(f.i).text].kind \in Word_Kind
    BY <1>3, MetWord DEF Translate_Word
  <2> QED BY <1>0, <1>3, <2>1, <1>EmitStep, StopStep DEF Translate_Word, Word_Kind
<1>4. CASE Translate_Unhandled
  BY <1>4, StopStep DEF Translate_Unhandled
<1>5. CASE Skip_Definition
  <2>1. f.i - 3 \in Int /\ f.i - 3 <= f.i
    BY <1>00, SMT
  <2> QED BY <1>0, <1>5, <2>1, <1>MoveStep DEF Skip_Definition
<1>6. CASE Reject_Definition
  <2>1. f.i - 1 \in Int /\ f.i - 1 <= f.i
    BY <1>00, SMT
  <2> QED BY <1>0, <1>6, <2>1, <1>MoveStep DEF Reject_Definition
<1>7. CASE Declare_Dynamic
  <2>1. -1 \in Int /\ -1 <= f.i
    BY <1>00, <1>7, SMT DEF Declare_Dynamic, Translating
  <2> QED BY <1>0, <1>7, <2>1, <1>MoveStep, StopStep DEF Declare_Dynamic
<1>8. CASE Declare_Effect
  <2>1. -1 \in Int /\ -1 <= f.i
    BY <1>00, <1>8, SMT DEF Declare_Effect, Translating
  <2>2. \/ frames' = Back_To(-1) /\ UNCHANGED <<tokens, table, outcome>>
        \/ Stop("unreachable")
        \/ Stop("exit")
    BY <1>8 DEF Declare_Effect
  <2> QED BY <1>0, <2>1, <2>2, <1>MoveStep, StopStep
<1>9. CASE Unexpected_End
  BY <1>9, StopStep DEF Unexpected_End
<1>10. CASE End_Of_Block
  BY <1>0, <1>10, <1>EmitStep DEF End_Of_Block
<1>11. CASE Enter_Lambda
  <2>1. Block_Starts # {} /\ Token(Block_Start).kind = "Lambda"
    BY <1>11 DEF Enter_Lambda, End_Of
  <2>2. Block_Start \in 0 .. f.i - 1
    BY <1>00, <2>1, BlockStart
  <2>3. f.start + Block_Start \in Nat
    BY <1>00, <2>2, SMT
  <2>4. Lambda_Name(f.start + Block_Start) \in Who
    BY <2>3, <1>LambdaName
  <2> QED BY <1>0, <1>11, <2>1, <2>4, <1>EnterStep DEF Enter_Lambda
<1>12. CASE Enter_Function
  <2>1. Block_Starts # {} /\ Token(Block_Start).kind = "Function"
    BY <1>12 DEF Enter_Function, End_Of
  <2>2. /\ Block_Start # 0 /\ Token(Block_Start - 1).kind = "Word"
        /\ Token(Block_Start - 1).text \in All_Names
        /\ words[Token(Block_Start - 1).text].kind # "None"
    BY <1>0, <2>1, NameBefore
  <2>3. Enter(Token(Block_Start - 1).text, Block_Start - 2) /\ UNCHANGED <<tokens, table, outcome>>
    BY <1>12, <2>2 DEF Enter_Function
  <2>4. Token(Block_Start - 1).text \in Who
    <3>1. All_Names \subseteq Who
      BY DEF Who
    <3> QED BY <2>2, <3>1
  <2> QED BY <1>0, <2>1, <2>3, <2>4, <1>EnterStep
<1>13. CASE Leave_Body
  <2>1. \/ Stop("assert")
        \/ Stop("exit")
        \/ /\ frames' = Pop(frames)
           /\ outcome' = IF Len(frames) = 1 THEN "done" ELSE outcome
           /\ UNCHANGED <<tokens, table>>
    BY <1>13 DEF Leave_Body
  <2> QED BY <1>0, <2>1, <1>LeaveStep, StopStep
<1> QED
  BY <1>1, <1>2, <1>3, <1>4, <1>5, <1>6, <1>7, <1>8, <1>9, <1>10, <1>11, <1>12, <1>13 DEF Translate

\* Registration and translation keep the invariant.
THEOREM Invariance == Spec => []IInv
<1>1. Init => IInv
  <2> SUFFICES ASSUME Init PROVE IInv
    OBVIOUS
  <2>1. /\ tokens \in Sources /\ word_count = 0 /\ i = 0 /\ outcome = "register"
        /\ words = [w \in All_Names |->
             [kind |-> IF w \in Intrinsics THEN "Intrinsic" ELSE "None", id |-> 0]]
    BY DEF Init
  <2>2. Len(tokens) \in Nat
    BY <2>1, SourcesAssumption, SMT
  <2>3. \A w \in All_Names : words[w].kind \in {"None", "Intrinsic"}
    BY <2>1
  <2>4. words \in [All_Names -> [kind : Word_Kind, id : Nat]]
    BY <2>1 DEF Word_Kind
  <2>5. IdsDiffer
    BY <2>3 DEF IdsDiffer
  <2>6. Table_Inv
    BY <2>1, <2>2, <2>3, <2>4, <2>5, SMT DEF Table_Inv
  <2> QED BY <2>1, <2>6 DEF IInv, FunctionNameFound
<1>2. IInv /\ [Next]_vars => IInv'
  <2> SUFFICES ASSUME IInv, [Next]_vars PROVE IInv'
    OBVIOUS
  <2>1. CASE Next
    BY <2>1, RegisterStep, TranslateStep DEF Next
  <2>2. CASE UNCHANGED vars
    <3>1. Table_Inv'
      BY <2>2, TableKept DEF IInv, vars
    <3> QED BY <2>2, <3>1 DEF IInv, vars, table, Activations_Inv, Inside, FunctionNameFound,
               Token, f, Top, At
  <2> QED BY <2>1, <2>2
<1> QED BY <1>1, <1>2, PTL DEF Spec

\* When the translation meets the end of a function, the token before its
\* `fun` is in the span and names a word of the table, whatever the tokens.
THEOREM FunctionNameIsFound == Spec => []FunctionNameFound
<1>1. IInv => FunctionNameFound
  BY DEF IInv
<1> QED BY <1>1, Invariance, PTL

\* The words that a program defines have different ids, whatever the tokens.
THEOREM IdsAreDifferent == Spec => []IdsDiffer
<1>1. IInv => IdsDiffer
  BY DEF IInv, Table_Inv
<1> QED BY <1>1, Invariance, PTL

-----------------------------------------------------------------------------
(* Counting.                                                                *)

\* How many of the numbers from a to b are in P.
Count(P, a, b) == Cardinality({k \in a .. b : k \in P})

\* The set P, counted from s.
From(P, s) == {k \in Int : s + k \in P}

-----------------------------------------------------------------------------
(* The block structure of the tokens.                                       *)

\* The tokens of some kinds, as positions.
Places(T, kinds) == {k \in Nat : At(T, k).kind \in kinds}

\* How many blocks are open before token k.
Level(T, k) == Count(Places(T, Opening), 0, k - 1) - Count(Places(T, {"End"}), 0, k - 1)

\* The blocks opened and ended between two tokens, by level.
LEMMA LevelBetween ==
  \A T : \A a \in Nat : \A b \in Nat :
    /\ a <= b
    => /\ Level(T, a) \in Int /\ Level(T, b) \in Int
       /\ Count(Places(T, Opening), a, b - 1) - Count(Places(T, {"End"}), a, b - 1)
            = Level(T, b) - Level(T, a)
\* Counting to b - 1 is counting to a - 1, and from there.
<1>CountSplit.
    ASSUME NEW P, NEW a \in Nat, NEW b \in Nat, a <= b
    PROVE  /\ Count(P, 0, b - 1) \in Nat /\ Count(P, 0, a - 1) \in Nat /\ Count(P, a, b - 1) \in Nat
           /\ Count(P, 0, b - 1) = Count(P, 0, a - 1) + Count(P, a, b - 1)
  <2> USE <1>CountSplit
  <2> DEFINE A == {k \in 0 .. a - 1 : k \in P}
             B == {k \in a .. b - 1 : k \in P}
             C == {k \in 0 .. b - 1 : k \in P}
  <2>1. IsFiniteSet(0 .. b - 1) /\ IsFiniteSet(0 .. a - 1) /\ IsFiniteSet(a .. b - 1)
    BY FS_Interval, SMT
  <2>2. /\ A \in SUBSET (0 .. a - 1) /\ B \in SUBSET (a .. b - 1) /\ C \in SUBSET (0 .. b - 1)
        /\ C = A \cup B /\ A \cap B = {}
    BY SMT
  <2>3. Count(P, 0, a - 1) = Cardinality(A) /\ Count(P, a, b - 1) = Cardinality(B)
        /\ Count(P, 0, b - 1) = Cardinality(C)
    BY DEF Count
  <2> HIDE DEF A, B, C
  <2>4. IsFiniteSet(A) /\ IsFiniteSet(B) /\ IsFiniteSet(C)
    BY <2>1, <2>2, FS_Subset
  <2>5. /\ Cardinality(A) \in Nat /\ Cardinality(B) \in Nat /\ Cardinality(C) \in Nat
        /\ Cardinality(A \cap B) = 0
        /\ Cardinality(A \cup B) = Cardinality(A) + Cardinality(B) - Cardinality(A \cap B)
    BY <2>2, <2>4, FS_CardinalityType, FS_Union, FS_EmptySet
  <2>6. Cardinality(C) = Cardinality(A) + Cardinality(B)
    BY <2>2, <2>5, SMT
  <2> QED BY <2>3, <2>5, <2>6

<1> SUFFICES ASSUME NEW T, NEW a \in Nat, NEW b \in Nat, a <= b
             PROVE  /\ Level(T, a) \in Int /\ Level(T, b) \in Int
                    /\ Count(Places(T, Opening), a, b - 1) - Count(Places(T, {"End"}), a, b - 1)
                         = Level(T, b) - Level(T, a)
  OBVIOUS
<1>1. PICK O, E : O = Places(T, Opening) /\ E = Places(T, {"End"})
  OBVIOUS
<1>2. /\ Count(O, 0, b - 1) \in Nat /\ Count(O, 0, a - 1) \in Nat /\ Count(O, a, b - 1) \in Nat
      /\ Count(O, 0, b - 1) = Count(O, 0, a - 1) + Count(O, a, b - 1)
  BY <1>CountSplit
<1>3. /\ Count(E, 0, b - 1) \in Nat /\ Count(E, 0, a - 1) \in Nat /\ Count(E, a, b - 1) \in Nat
      /\ Count(E, 0, b - 1) = Count(E, 0, a - 1) + Count(E, a, b - 1)
  BY <1>CountSplit
<1>4. /\ Level(T, a) = Count(O, 0, a - 1) - Count(E, 0, a - 1)
      /\ Level(T, b) = Count(O, 0, b - 1) - Count(E, 0, b - 1)
  BY <1>1 DEF Level
<1> QED BY <1>1, <1>2, <1>3, <1>4, SMT

\* How the level changes at a token.
LEMMA LevelStep ==
  \A T : \A k \in Nat :
    /\ Level(T, k) \in Int /\ Level(T, k + 1) \in Int
    /\ At(T, k).kind \in Opening => Level(T, k + 1) = Level(T, k) + 1
    /\ At(T, k).kind = "End" => Level(T, k + 1) = Level(T, k) - 1
    /\ Level(T, k + 1) <= Level(T, k) + 1
    /\ Level(T, k + 1) > Level(T, k) => At(T, k).kind \in Opening
\* Counting one number.
<1>CountOne.
    ASSUME NEW P, NEW k \in Nat
    PROVE  Count(P, k, k) = IF k \in P THEN 1 ELSE 0
  <2> USE <1>CountOne
  <2>1. {n \in k .. k : n \in P} = IF k \in P THEN {k} ELSE {}
    BY SMT
  <2>2. Cardinality({}) = 0 /\ Cardinality({k}) = 1
    BY FS_EmptySet, FS_Singleton
  <2> QED BY <2>1, <2>2 DEF Count

<1> SUFFICES ASSUME NEW T, NEW k \in Nat
             PROVE  /\ Level(T, k) \in Int /\ Level(T, k + 1) \in Int
                    /\ At(T, k).kind \in Opening => Level(T, k + 1) = Level(T, k) + 1
                    /\ At(T, k).kind = "End" => Level(T, k + 1) = Level(T, k) - 1
                    /\ Level(T, k + 1) <= Level(T, k) + 1
                    /\ Level(T, k + 1) > Level(T, k) => At(T, k).kind \in Opening
  OBVIOUS
<1>1. PICK m \in Nat : m = k + 1
  BY SMT
<1>2. k <= m /\ m - 1 = k
  BY <1>1, SMT
<1>3. /\ Level(T, k) \in Int /\ Level(T, m) \in Int
      /\ Count(Places(T, Opening), k, m - 1) - Count(Places(T, {"End"}), k, m - 1)
           = Level(T, m) - Level(T, k)
  BY <1>2, LevelBetween
<1>4. Count(Places(T, Opening), k, k) = IF At(T, k).kind \in Opening THEN 1 ELSE 0
  <2>1. k \in Places(T, Opening) <=> At(T, k).kind \in Opening
    BY DEF Places
  <2> QED BY <2>1, <1>CountOne
<1>5. Count(Places(T, {"End"}), k, k) = IF At(T, k).kind = "End" THEN 1 ELSE 0
  <2>1. k \in Places(T, {"End"}) <=> At(T, k).kind = "End"
    BY DEF Places
  <2> QED BY <2>1, <1>CountOne
<1>6. "End" \notin Opening
  BY DEF Opening
<1> QED BY <1>1, <1>2, <1>3, <1>4, <1>5, <1>6, SMT

\* Token c opens the block that ends at token p: the blocks in between are
\* whole.
Opens(T, c, p) ==
  /\ c \in Nat /\ c < p
  /\ Level(T, c) = Level(T, p) - 1
  /\ \A d \in c + 1 .. p : Level(T, d) >= Level(T, p)

\* The token that the scan for the block of an `end` finds opens that block.
LEMMA BlockStartOpens ==
  Activations_Inv /\ Block_Starts # {} => Opens(tokens, f.start + Block_Start, f.start + f.i)
\* Counting does not depend on where it starts.
<1>CountShift.
    ASSUME NEW P, NEW s \in Nat, NEW a \in Nat, NEW b \in Int
    PROVE  Count(From(P, s), a, b) \in Nat /\ Count(From(P, s), a, b) = Count(P, s + a, s + b)
  <2> USE <1>CountShift
  <2> DEFINE A == {k \in a .. b : k \in From(P, s)}
             B == {k \in s + a .. s + b : k \in P}
             g == [k \in A |-> s + k]
  <2>1. IsFiniteSet(a .. b) /\ A \in SUBSET (a .. b)
    BY FS_Interval, SMT
  <2>2. g \in [A -> B]
    BY SMT DEF From
  <2>3. \A k, m \in A : g[k] = g[m] => k = m
    BY SMT
  <2>4. ASSUME NEW n \in B PROVE \E k \in A : g[k] = n
    <3>1. n - s \in A /\ s + (n - s) = n
      BY SMT DEF From
    <3> QED BY <3>1
  <2>5. Count(From(P, s), a, b) = Cardinality(A) /\ Count(P, s + a, s + b) = Cardinality(B)
    BY DEF Count
  <2> HIDE DEF A, B, g
  <2>6. ExistsBijection(A, B)
    BY <2>2, <2>3, <2>4 DEF ExistsBijection, Bijection, Injection, Surjection, IsInjective
  <2>7. IsFiniteSet(A)
    BY <2>1, FS_Subset
  <2> QED BY <2>5, <2>6, <2>7, FS_Bijection, FS_CardinalityType, SMT

<1> SUFFICES ASSUME Activations_Inv, Block_Starts # {}
             PROVE  Opens(tokens, f.start + Block_Start, f.start + f.i)
  OBVIOUS
<1>1. f.i \in Int /\ f.start \in Nat
  BY TopFrame DEF Frame
<1>2. Block_Starts \subseteq 0 .. f.i - 1
  BY DEF Block_Starts
<1>3. f.i \in Nat
  <2>1. PICK b \in Block_Starts : TRUE
    OBVIOUS
  <2>2. b \in 0 .. f.i - 1
    BY <1>2, <2>1
  <2> QED BY <1>1, <2>2, SMT
<1>4. Block_Starts \subseteq 0 .. f.i
  BY <1>2, <1>3, SMT
<1>5. \E b \in Block_Starts : \A c \in Block_Starts : c <= b
  BY <1>3, <1>4, Largest
<1>6. Block_Start \in Block_Starts /\ \A c \in Block_Starts : c <= Block_Start
  BY <1>5 DEF Block_Start
<1>7. PICK s \in Nat, r \in Nat : s = f.start /\ r = f.i
  BY <1>1, <1>3
<1>8. ASSUME NEW b \in Nat, b <= r
      PROVE  /\ Number(Opening, b, r - 1) \in Nat /\ Number({"End"}, b, r - 1) \in Nat
             /\ Level(tokens, s + r) \in Int /\ Level(tokens, s + b) \in Int
             /\ Number(Opening, b, r - 1) - Number({"End"}, b, r - 1)
                  = Level(tokens, s + r) - Level(tokens, s + b)
  <2>1. ASSUME NEW kinds
        PROVE  /\ Number(kinds, b, r - 1) \in Nat
               /\ Number(kinds, b, r - 1) = Count(Places(tokens, kinds), s + b, (s + r) - 1)
    <3>1. PICK P : P = Places(tokens, kinds)
      OBVIOUS
    <3>2. PICK t \in Int : t = r - 1
      BY SMT
    <3>3. Count(From(P, s), b, t) \in Nat /\ Count(From(P, s), b, t) = Count(P, s + b, s + t)
      BY <1>CountShift, SMT
    <3>4. \A k \in b .. t : Token(k).kind \in kinds <=> k \in From(P, s)
      <4> TAKE k \in b .. t
      <4>1. k \in Int /\ s + k \in Nat
        BY SMT
      <4> QED BY <1>7, <3>1, <4>1 DEF Token, Places, From
    <3>5. {k \in b .. t : Token(k).kind \in kinds} = {k \in b .. t : k \in From(P, s)}
      BY <3>4
    <3>6. s + t = (s + r) - 1
      BY <3>2, SMT
    <3>7. Number(kinds, b, t) = Count(From(P, s), b, t)
      BY <3>5 DEF Number, Count
    <3> QED BY <3>1, <3>2, <3>3, <3>6, <3>7
  <2>2. PICK p \in Nat, q \in Nat : p = s + b /\ q = s + r /\ p <= q
    BY <1>8, SMT
  <2>3. /\ Level(tokens, p) \in Int /\ Level(tokens, q) \in Int
        /\ Count(Places(tokens, Opening), p, q - 1) - Count(Places(tokens, {"End"}), p, q - 1)
             = Level(tokens, q) - Level(tokens, p)
    BY <2>2, LevelBetween, ZenonT(30)
  <2>4. /\ Number(Opening, b, r - 1) \in Nat
        /\ Number(Opening, b, r - 1) = Count(Places(tokens, Opening), p, q - 1)
    BY <2>1, <2>2
  <2>5. /\ Number({"End"}, b, r - 1) \in Nat
        /\ Number({"End"}, b, r - 1) = Count(Places(tokens, {"End"}), p, q - 1)
    BY <2>1, <2>2
  <2> QED BY <2>2, <2>3, <2>4, <2>5
<1>9. ASSUME NEW b \in Nat, b < r
      PROVE  b \in Block_Starts <=> Level(tokens, s + b) = Level(tokens, s + r) - 1
  <2>1. b \in 0 .. r - 1 /\ b <= r
    BY <1>9, SMT
  <2>2. b \in Block_Starts <=> Number(Opening, b, r - 1) = 1 + Number({"End"}, b, r - 1)
    BY <1>7, <2>1 DEF Block_Starts
  <2> QED BY <1>8, <2>1, <2>2, SMT
<1>10. PICK b \in Nat : b = Block_Start /\ b < r
  BY <1>2, <1>6, <1>7, SMT
<1>11. Level(tokens, s + b) = Level(tokens, s + r) - 1
  BY <1>6, <1>9, <1>10
<1>12. ASSUME NEW d \in s + b + 1 .. s + r, Level(tokens, d) < Level(tokens, s + r)
       PROVE  FALSE
  <2> DEFINE Low == {k \in 0 .. r : k > b /\ Level(tokens, s + k) < Level(tokens, s + r)}
  <2>1. d - s \in Low
    <3>1. d - s \in 0 .. r /\ d - s > b /\ s + (d - s) = d
      BY SMT
    <3> QED BY <1>12, <3>1
  <2>2. Low # {} /\ Low \subseteq 0 .. r
    BY <2>1
  <2>3. PICK k \in Low : \A c \in Low : c <= k
    <3> HIDE DEF Low
    <3> QED BY <2>2, Largest
  <2>4. /\ k \in Nat /\ k <= r /\ k > b
        /\ Level(tokens, s + k) < Level(tokens, s + r)
    BY <2>3, SMT
  <2>5. Level(tokens, s + k) \in Int /\ Level(tokens, s + r) \in Int
    BY <1>8, <2>4
  <2>6. k < r
    BY <2>4, <2>5, SMT
  <2>7. k + 1 \in Nat /\ k + 1 <= r /\ k + 1 > b
    BY <2>4, <2>6, SMT
  <2>8. k + 1 \notin Low
    BY <2>3, <2>4, SMT
  <2>9. Level(tokens, s + (k + 1)) \in Int /\ Level(tokens, s + (k + 1)) >= Level(tokens, s + r)
    BY <1>8, <2>5, <2>7, <2>8, SMT
  <2>10. Level(tokens, s + (k + 1)) <= Level(tokens, s + k) + 1
    <3>1. PICK n \in Nat : n = s + k /\ n + 1 = s + (k + 1)
      BY <2>4, SMT
    <3>2. Level(tokens, n + 1) <= Level(tokens, n) + 1
      BY LevelStep
    <3> QED BY <3>1, <3>2
  <2>11. Level(tokens, s + k) = Level(tokens, s + r) - 1
    BY <2>4, <2>5, <2>9, <2>10, SMT
  <2>12. k \in Block_Starts
    BY <1>9, <2>4, <2>6, <2>11
  <2>13. k <= b
    BY <1>6, <1>10, <2>12
  <2> QED BY <2>4, <2>13, SMT
<1>13. \A d \in s + b + 1 .. s + r : Level(tokens, d) >= Level(tokens, s + r)
  <2> SUFFICES ASSUME NEW d \in s + b + 1 .. s + r
               PROVE  Level(tokens, d) >= Level(tokens, s + r)
    OBVIOUS
  <2>1. d \in Nat /\ s + r \in Nat
    BY SMT
  <2>2. Level(tokens, d) \in Int /\ Level(tokens, s + r) \in Int
    BY <2>1, LevelStep
  <2> QED BY <1>12, <2>2, SMT
<1>14. s + b \in Nat /\ s + b < s + r
  BY <1>10, SMT
<1> QED BY <1>7, <1>10, <1>11, <1>13, <1>14 DEF Opens

-----------------------------------------------------------------------------
(* The body of an activation.                                               *)

Op == [kind : Operation_Kind, pos : Nat]
Block_Kind == {"If", "While"}

\* The block of the End that is operation n of the body starts at c, and c is
\* still to come or has been emitted after it.
Closed_By(T, B, s, q, n, c) ==
  /\ Opens(T, c, B[n].pos) /\ s <= c
  /\ At(T, c).kind \in Block_Kind
  /\ c <= q \/ \E m \in n + 1 .. Len(B) : B[m].pos = c /\ B[m].kind \in Block_Kind

\* The operations B emitted so far by an activation whose span starts at s and
\* that goes on at q: later ones come from earlier tokens, and every End has
\* the `if` or `while` of its block in the same body.
Emitted(T, B, s, q) ==
  /\ \A n \in 1 .. Len(B) : B[n].pos > q
  /\ \A m, n \in 1 .. Len(B) : m < n => B[n].pos < B[m].pos
  /\ \A n \in 1 .. Len(B) :
       B[n].kind = "End" =>
         At(T, B[n].pos).kind = "End" /\ \E c \in Nat : Closed_By(T, B, s, q, n, c)

\* The positions of the operations are behind q.
LEMMA EmittedAt ==
  ASSUME NEW T, NEW B \in Seq(Op), NEW s, NEW q, Emitted(T, B, s, q), NEW n \in 1 .. Len(B)
  PROVE  B[n] \in Op /\ B[n].pos \in Nat /\ B[n].pos > q
<1>1. B[n] \in Op
  BY SMT
<1>2. B[n].pos > q
  BY DEF Emitted
<1> QED BY <1>1, <1>2 DEF Op

\* An activation starts with no operations.
LEMMA EmittedNone ==
  ASSUME NEW T, NEW s, NEW q
  PROVE  Emitted(T, <<>>, s, q)
<1>1. Len(<<>>) = 0
  OBVIOUS
<1>2. 1 .. Len(<<>>) = {}
  BY <1>1, SMT
<1> QED BY <1>2 DEF Emitted

\* No `if` or `while` is skipped.
LEMMA EmittedBack ==
  ASSUME NEW T, NEW B \in Seq(Op), NEW s \in Nat, NEW q \in Int, NEW r \in Int, Emitted(T, B, s, q),
         r <= q, \A c \in Nat : r < c /\ c <= q /\ s <= c => At(T, c).kind \notin Block_Kind
  PROVE  Emitted(T, B, s, r)
<1>1. \A n \in 1 .. Len(B) : B[n].pos > r
  <2> TAKE n \in 1 .. Len(B)
  <2>1. B[n].pos > q /\ B[n].pos \in Nat
    BY EmittedAt
  <2> QED BY <2>1, SMT
<1>2. ASSUME NEW n \in 1 .. Len(B), NEW c \in Nat, Closed_By(T, B, s, q, n, c)
      PROVE  Closed_By(T, B, s, r, n, c)
  <2>1. c <= q => c <= r
    BY <1>2, SMT DEF Closed_By
  <2> QED BY <1>2, <2>1 DEF Closed_By
<1> QED BY <1>1, <1>2 DEF Emitted

\* The token at q emits an operation; an `if` or `while` emits its own kind.
LEMMA EmittedMore ==
  ASSUME NEW T, NEW B \in Seq(Op), NEW s \in Nat, NEW q \in Nat, Emitted(T, B, s, q),
         NEW kind \in Operation_Kind,
         At(T, q).kind \in Block_Kind => kind \in Block_Kind,
         kind = "End" =>
           At(T, q).kind = "End" /\ \E c \in Nat : s <= c /\ Opens(T, c, q)
           /\ At(T, c).kind \in Block_Kind
  PROVE  /\ Append(B, [kind |-> kind, pos |-> q]) \in Seq(Op)
         /\ Emitted(T, Append(B, [kind |-> kind, pos |-> q]), s, q - 1)
<1> DEFINE e == [kind |-> kind, pos |-> q]
<1>1. e \in Op /\ e.kind = kind /\ e.pos = q
  BY DEF Op
<1> HIDE DEF e
<1> DEFINE C == Append(B, e)
<1>2. /\ C \in Seq(Op) /\ Len(B) \in Nat /\ Len(C) = Len(B) + 1 /\ C[Len(B) + 1] = e
      /\ \A n \in 1 .. Len(B) : C[n] = B[n]
  BY <1>1, SeqAppend, SMT
<1> HIDE DEF C
<1>3. PICK z \in Nat : z = Len(B)
  BY <1>2
<1>4. /\ Len(C) = z + 1 /\ C[z + 1] = e /\ \A n \in 1 .. z : C[n] = B[n]
      /\ \A n \in 1 .. z + 1 : n \in 1 .. z \/ n = z + 1
  BY <1>2, <1>3, SMT
<1>5. \A n \in 1 .. z : B[n].pos > q /\ B[n].pos \in Nat
  BY <1>3, EmittedAt
<1>6. \A n \in 1 .. z + 1 : C[n].pos > q - 1
  <2> TAKE n \in 1 .. z + 1
  <2>1. CASE n = z + 1
    <3>1. C[n].pos = q
      BY <1>1, <1>4, <2>1
    <3> QED BY <3>1, SMT
  <2>2. CASE n \in 1 .. z
    <3>1. C[n].pos > q /\ C[n].pos \in Nat
      BY <1>4, <1>5, <2>2
    <3> QED BY <3>1, SMT
  <2> QED BY <1>4, <2>1, <2>2
<1>7. \A m, n \in 1 .. z + 1 : m < n => C[n].pos < C[m].pos
  <2> SUFFICES ASSUME NEW m \in 1 .. z + 1, NEW n \in 1 .. z + 1, m < n
               PROVE  C[n].pos < C[m].pos
    OBVIOUS
  <2>1. m \in 1 .. z
    BY SMT
  <2>2. CASE n = z + 1
    <3>1. C[n].pos = q /\ C[m].pos > q /\ C[m].pos \in Nat
      BY <1>1, <1>4, <1>5, <2>1, <2>2
    <3> QED BY <3>1
  <2>3. CASE n \in 1 .. z
    <3>1. B[n].pos < B[m].pos
      BY <1>3, <2>1, <2>3 DEF Emitted
    <3> QED BY <1>4, <2>1, <2>3, <3>1
  <2> QED BY <1>4, <2>2, <2>3
<1>8. ASSUME NEW n \in 1 .. z + 1, C[n].kind = "End"
      PROVE  At(T, C[n].pos).kind = "End" /\ \E c \in Nat : Closed_By(T, C, s, q - 1, n, c)
  <2>1. CASE n = z + 1
    <3>1. C[n].pos = q /\ kind = "End"
      BY <1>1, <1>4, <1>8, <2>1
    <3>2. PICK c \in Nat : s <= c /\ Opens(T, c, q) /\ At(T, c).kind \in Block_Kind
      BY <3>1
    <3>3. c <= q - 1
      BY <3>2, SMT DEF Opens
    <3>4. Closed_By(T, C, s, q - 1, n, c)
      BY <3>1, <3>2, <3>3 DEF Closed_By
    <3> QED BY <3>1, <3>4
  <2>2. CASE n \in 1 .. z
    <3>1. C[n] = B[n]
      BY <1>4, <2>2
    <3>2. At(T, B[n].pos).kind = "End" /\ \E c \in Nat : Closed_By(T, B, s, q, n, c)
      BY <1>3, <1>8, <2>2, <3>1 DEF Emitted
    <3>3. PICK c \in Nat : Closed_By(T, B, s, q, n, c)
      BY <3>2
    <3>4. Opens(T, c, C[n].pos) /\ s <= c /\ At(T, c).kind \in Block_Kind
      BY <3>1, <3>3 DEF Closed_By
    <3>5. c <= q \/ \E m \in n + 1 .. z : B[m].pos = c /\ B[m].kind \in Block_Kind
      BY <1>3, <3>3 DEF Closed_By
    <3>6. c <= q - 1 \/ \E m \in n + 1 .. z + 1 : C[m].pos = c /\ C[m].kind \in Block_Kind
      <4>1. CASE \E m \in n + 1 .. z : B[m].pos = c /\ B[m].kind \in Block_Kind
        <5>1. PICK m \in n + 1 .. z : B[m].pos = c /\ B[m].kind \in Block_Kind
          BY <4>1
        <5>2. m \in 1 .. z /\ m \in n + 1 .. z + 1
          BY <2>2, SMT
        <5>3. C[m].pos = c /\ C[m].kind \in Block_Kind
          BY <1>4, <5>1, <5>2
        <5> QED BY <5>2, <5>3
      <4>2. CASE c = q
        <5>1. z + 1 \in n + 1 .. z + 1
          BY <2>2, SMT
        <5>2. C[z + 1].pos = c /\ C[z + 1].kind \in Block_Kind
          BY <1>1, <1>4, <3>4, <4>2
        <5> QED BY <5>1, <5>2
      <4>3. CASE c <= q /\ c # q
        BY <4>3, SMT
      <4> QED BY <3>5, <4>1, <4>2, <4>3
    <3>7. Closed_By(T, C, s, q - 1, n, c)
      BY <1>4, <3>4, <3>6 DEF Closed_By
    <3> QED BY <3>1, <3>2, <3>7
  <2> QED BY <1>4, <2>1, <2>2
<1>9. Emitted(T, C, s, q - 1)
  BY <1>4, <1>6, <1>7, <1>8 DEF Emitted
<1> QED BY <1>2, <1>9 DEF C, e

\* The kinds of a body that is left.
Kinds_Of(body) == <<>> \o [k \in DOMAIN body |-> body[k].kind]

\* The operation h from the end of a body opens the block that the operation
\* j from its end closes.
Starts_Of(T, B, j, h) == Opens(T, B[Len(B) - h].pos, B[Len(B) - j].pos)

-----------------------------------------------------------------------------
(* The activations and their bodies.                                        *)

\* A token that an activation is still to meet.
To_Come(a, k) == a.start <= k /\ k <= a.start + a.i

\* Every activation has a body of its own and tokens of its own, and a body
\* that is begun is that of a definition whose tokens are not to come again.
Entered(F, B) ==
  /\ F \in Seq(Frame)
  /\ B \in [All_Names \cup {Main} -> Seq(Op)]
  /\ \A n \in 1 .. Len(F) : F[n].who \in IF n = 1 THEN {Main} ELSE All_Names
  /\ \A m, n \in 1 .. Len(F) : m < n => F[m].who # F[n].who /\ F[m].start + F[m].i < F[n].start
  /\ \A n \in 1 .. Len(F) : Emitted(tokens, B[F[n].who], F[n].start, F[n].start + F[n].i)
  /\ \A w \in All_Names :
       B[w] # <<>> \/ (\E n \in 1 .. Len(F) : F[n].who = w) =>
         \E k \in Definitions_Of(w) : \A n \in 1 .. Len(F) : ~To_Come(F[n], k)

\* The top activation goes on at r, and has the operations C.
Going_On(F, r) == [F EXCEPT ![Len(F)].i = r]
Having(F, B, C) == [B EXCEPT ![F[Len(F)].who] = C]

\* The top activation goes back, and may emit: what it is still to meet, and
\* its body, are all that changes.
LEMMA TopMoves ==
  ASSUME NEW F, NEW B, Entered(F, B), F # <<>>, NEW r \in Int, r <= F[Len(F)].i,
         NEW C \in Seq(Op), Emitted(tokens, C, F[Len(F)].start, F[Len(F)].start + r)
  PROVE  /\ Entered(Going_On(F, r), Having(F, B, C))
         /\ Len(Going_On(F, r)) = Len(F) /\ Going_On(F, r) # <<>>
<1>0. PICK G, D : G = Going_On(F, r) /\ D = Having(F, B, C)
  OBVIOUS
<1>1. PICK z \in Nat : z = Len(F) /\ z >= 1
  <2>1. F \in Seq(Frame) /\ Len(F) \in Nat
    BY SMT DEF Entered
  <2>2. Len(F) # 0
    BY <2>1, SMT
  <2> QED BY <2>1, <2>2, SMT
<1>2. PICK a : a = F[z]
  OBVIOUS
<1>3. a \in Frame /\ a.start \in Nat /\ a.i \in Int /\ r <= a.i
  <2>1. F \in Seq(Frame) /\ z \in 1 .. Len(F)
    BY <1>1, SMT DEF Entered
  <2>2. a \in Frame
    BY <1>2, <2>1, SMT
  <2> QED BY <1>1, <1>2, <2>2 DEF Frame
<1>4. PICK g : g = [a EXCEPT !.i = r]
  OBVIOUS
<1>5. g \in Frame /\ g.who = a.who /\ g.start = a.start /\ g.i = r
  BY <1>3, <1>4 DEF Frame
<1>6. /\ G \in Seq(Frame) /\ Len(G) = z
      /\ \A n \in 1 .. z : G[n] = IF n = z THEN g ELSE F[n]
  <2>1. F \in Seq(Frame)
    BY DEF Entered
  <2>2. G = [F EXCEPT ![z] = g]
    BY <1>0, <1>1, <1>2, <1>4 DEF Going_On
  <2> QED BY <1>1, <1>5, <2>1, <2>2, SMT
<1>7. \A n \in 1 .. z : /\ G[n].who = F[n].who /\ G[n].start = F[n].start
                        /\ G[n].start + G[n].i <= F[n].start + F[n].i
  <2> TAKE n \in 1 .. z
  <2>1. CASE n = z
    BY <1>2, <1>3, <1>5, <1>6, <2>1, SMT
  <2>2. CASE n # z
    <3>1. G[n] = F[n]
      BY <1>6, <2>2
    <3>2. F[n] \in Frame
      BY <1>1, SMT DEF Entered
    <3>3. F[n].start + F[n].i \in Int
      BY <3>2, SMT DEF Frame
    <3>4. F[n].start + F[n].i <= F[n].start + F[n].i
      BY <3>3, SMT
    <3> QED BY <3>1, <3>4
  <2> QED BY <2>1, <2>2
<1>8. \A n \in 1 .. z : F[n].start \in Int /\ F[n].i \in Int /\ G[n].i \in Int
  <2> TAKE n \in 1 .. z
  <2>1. F[n] \in Frame /\ G[n] \in Frame
    BY <1>1, <1>6, SMT DEF Entered
  <2>2. F[n].start \in Nat /\ F[n].i \in Int /\ G[n].i \in Int
    BY <2>1 DEF Frame
  <2> QED BY <2>2, SMT
<1>9. a.who \in All_Names \cup {Main}
  <2>1. z \in 1 .. Len(F)
    BY <1>1, SMT
  <2>2. F[z].who \in IF z = 1 THEN {Main} ELSE All_Names
    BY <2>1 DEF Entered
  <2> QED BY <1>2, <2>2
<1>10. /\ D \in [All_Names \cup {Main} -> Seq(Op)]
       /\ \A w \in All_Names \cup {Main} : D[w] = IF w = a.who THEN C ELSE B[w]
  <2>1. B \in [All_Names \cup {Main} -> Seq(Op)]
    BY DEF Entered
  <2>2. D = [B EXCEPT ![a.who] = C]
    BY <1>0, <1>1, <1>2 DEF Having
  <2> QED BY <1>9, <2>1, <2>2
<1>11. \A n \in 1 .. z : F[n].who \in IF n = 1 THEN {Main} ELSE All_Names
  BY <1>1 DEF Entered
<1>12. \A n \in 1 .. z : G[n].who \in IF n = 1 THEN {Main} ELSE All_Names
  BY <1>7, <1>11
<1>13. \A m, n \in 1 .. z : m < n => F[m].who # F[n].who /\ F[m].start + F[m].i < F[n].start
  BY <1>1 DEF Entered
<1>14. \A m, n \in 1 .. z : m < n => G[m].who # G[n].who /\ G[m].start + G[m].i < G[n].start
  <2> SUFFICES ASSUME NEW m \in 1 .. z, NEW n \in 1 .. z, m < n
               PROVE  G[m].who # G[n].who /\ G[m].start + G[m].i < G[n].start
    OBVIOUS
  <2>1. F[m].who # F[n].who /\ F[m].start + F[m].i < F[n].start
    BY <1>13
  <2>2. PICK p \in Int, q \in Int, t \in Int :
          p = G[m].start + G[m].i /\ q = F[m].start + F[m].i /\ t = F[n].start
    <3>1. F[m].start \in Int /\ F[m].i \in Int /\ G[m].i \in Int /\ F[n].start \in Int
      BY <1>8
    <3>2. G[m].start = F[m].start
      BY <1>7
    <3>3. G[m].start + G[m].i \in Int /\ F[m].start + F[m].i \in Int
      BY ONLY <3>1, <3>2
    <3> QED BY <3>1, <3>3
  <2>3. p <= q /\ q < t /\ G[n].start = t
    BY <1>7, <2>1, <2>2
  <2>4. p < t
    BY <2>3, SMT
  <2> QED BY <1>7, <2>1, <2>2, <2>3, <2>4
<1>15. \A n \in 1 .. z : Emitted(tokens, D[G[n].who], G[n].start, G[n].start + G[n].i)
  <2> TAKE n \in 1 .. z
  <2>1. CASE n = z
    <3>1. G[n] = g /\ D[g.who] = C
      BY <1>5, <1>6, <1>9, <1>10, <2>1
    <3>2. Emitted(tokens, C, a.start, a.start + r)
      BY <1>1, <1>2
    <3> QED BY <1>5, <3>1, <3>2
  <2>2. CASE n # z
    <3>1. G[n] = F[n] /\ F[n].who # a.who
      BY <1>1, <1>2, <1>6, <1>13, <2>2, SMT
    <3>2. F[n].who \in All_Names \cup {Main}
      BY <1>11
    <3>3. D[F[n].who] = B[F[n].who]
      BY <1>10, <3>1, <3>2
    <3>4. Emitted(tokens, B[F[n].who], F[n].start, F[n].start + F[n].i)
      BY <1>1 DEF Entered
    <3> QED BY <3>1, <3>3, <3>4
  <2> QED BY <2>1, <2>2
<1>16. ASSUME NEW w \in All_Names, D[w] # <<>> \/ \E n \in 1 .. z : G[n].who = w
       PROVE  \E k \in Definitions_Of(w) : \A n \in 1 .. z : ~To_Come(G[n], k)
  <2>1. B[w] # <<>> \/ \E n \in 1 .. z : F[n].who = w
    <3>1. CASE w = a.who
      BY <1>1, <1>2, <3>1, SMT
    <3>2. CASE w # a.who
      BY <1>7, <1>10, <1>16, <3>2
    <3> QED BY <3>1, <3>2
  <2>2. PICK k \in Definitions_Of(w) : \A n \in 1 .. z : ~To_Come(F[n], k)
    BY <1>1, <2>1 DEF Entered
  <2>3. k \in Nat
    BY SMT DEF Definitions_Of
  <2>4. \A n \in 1 .. z : ~To_Come(G[n], k)
    <3> TAKE n \in 1 .. z
    <3>1. PICK p \in Int, q \in Int, t \in Int : p = F[n].start /\ q = F[n].i /\ t = G[n].i
      BY <1>8
    <3>2. G[n].start = p /\ p + t <= p + q
      BY <1>7, <3>1
    <3>3. ~(p <= k /\ k <= p + q)
      BY <2>2, <3>1 DEF To_Come
    <3>4. ~(p <= k /\ k <= p + t)
      BY <2>3, <3>2, <3>3, SMT
    <3> QED BY <3>1, <3>2, <3>4 DEF To_Come
  <2> QED BY <2>4
<1>17. G # <<>>
  <2>1. Len(<<>>) = 0
    OBVIOUS
  <2>2. z # 0
    BY <1>1, SMT
  <2> QED BY <1>6, <2>1, <2>2
<1>18. Entered(G, D)
  BY <1>6, <1>10, <1>12, <1>14, <1>15, <1>16 DEF Entered
<1> QED BY <1>0, <1>1, <1>6, <1>17, <1>18

-----------------------------------------------------------------------------
-----------------------------------------------------------------------------
(* The steps of the top activation.                                         *)

\* The top activation, and what it has emitted.
LEMMA TopEmitted ==
  ASSUME IInv, outcome = "translate", Entered(frames, bodies)
  PROVE  /\ frames # <<>> /\ f = frames[Len(frames)]
         /\ f.start \in Nat /\ f.i \in Int /\ f.start + f.i < Len(tokens) /\ Len(tokens) \in Nat
         /\ f.who \in All_Names \cup {Main} /\ bodies[f.who] \in Seq(Op)
         /\ Emitted(tokens, bodies[f.who], f.start, f.start + f.i)
<1>1. Activations_Inv /\ Table_Inv /\ frames # <<>>
  BY DEF IInv, Activations_Inv
<1>2. /\ Len(frames) \in Nat \ {0} /\ f = frames[Len(frames)] /\ f \in Frame /\ Inside(f)
      /\ Len(tokens) \in Nat
  BY <1>1, TopFrame, TokensAreSeq
<1>3. f.start \in Nat /\ f.i \in Int /\ f.start + f.i < Len(tokens)
  BY <1>2 DEF Frame, Inside
<1>4. Len(frames) \in 1 .. Len(frames)
  BY <1>2, SMT
<1>5. /\ f.who \in IF Len(frames) = 1 THEN {Main} ELSE All_Names
      /\ Emitted(tokens, bodies[f.who], f.start, f.start + f.i)
      /\ bodies \in [All_Names \cup {Main} -> Seq(Op)]
  BY <1>2, <1>4 DEF Entered
<1>6. f.who \in All_Names \cup {Main}
  BY <1>5
<1> QED BY <1>1, <1>2, <1>3, <1>5, <1>6

\* The body of a definition is entered: its operations are none, and its tokens
\* are left out of the body around it.
LEMMA EnterEntered ==
  \A who \in All_Names : \A r \in Int : \A C \in Seq(Op) :
    /\ IInv
    /\ outcome = "translate"
    /\ Entered(frames, bodies)
    /\ ~Redefined
    /\ f.i >= 0
    /\ Token(f.i).kind = "End"
    /\ Block_Starts # {}
    /\ f.start + Block_Start \in Definitions_Of(who)
    /\ r < Block_Start
    /\ Enter(who, r)
    /\ Emitted(tokens, C, f.start, f.start + r)
    /\ bodies' = [bodies EXCEPT ![f.who] = C]
    => Entered(frames', bodies')
(* Bodies are entered and left.                                             *)

\* A body that is still to be met is not begun: no other definition of the word
\* can have begun it.
<1>NotBegun.
    ASSUME NEW F, NEW B, Entered(F, B), tokens \in Sources, ~Redefined, NEW who \in All_Names,
           NEW o \in Definitions_Of(who), NEW n \in 1 .. Len(F), To_Come(F[n], o)
    PROVE  B[who] = <<>> /\ \A m \in 1 .. Len(F) : F[m].who # who
  <2> USE <1>NotBegun
  <2> SUFFICES ASSUME B[who] # <<>> \/ \E m \in 1 .. Len(F) : F[m].who = who
               PROVE  FALSE
    OBVIOUS
  <2>1. PICK k \in Definitions_Of(who) : \A m \in 1 .. Len(F) : ~To_Come(F[m], k)
    BY DEF Entered
  <2>2. PICK D : D = Definitions_Of(who)
    OBVIOUS
  <2>3. IsFiniteSet(D) /\ Cardinality(D) \in Nat
    <3>1. Len(tokens) \in Nat
      BY SourcesAssumption, SMT
    <3>2. IsFiniteSet(0 .. Len(tokens) - 1)
      BY <3>1, FS_Interval, SMT
    <3>3. D \in SUBSET (0 .. Len(tokens) - 1)
      BY <2>2 DEF Definitions_Of
    <3> QED BY <3>2, <3>3, FS_Subset, FS_CardinalityType
  <2>4. k # o /\ {k, o} \subseteq D
    BY <2>1, <2>2
  <2>5. Cardinality({k, o}) = 2
    <3>1. {k, o} = {k} \cup {o} /\ o \notin {k}
      BY <2>4
    <3>2. IsFiniteSet({k}) /\ Cardinality({k}) = 1
      BY FS_Singleton
    <3>3. Cardinality({k} \cup {o}) = 1 + 1
      BY <3>1, <3>2, FS_AddElement
    <3>4. 1 + 1 = 2
      BY SMT
    <3> QED BY <3>1, <3>3, <3>4
  <2>6. Cardinality({k, o}) <= Cardinality(D)
    BY <2>3, <2>4, FS_Subset
  <2>7. Cardinality(D) > 1
    BY <2>3, <2>5, <2>6, SMT
  <2> QED BY <2>2, <2>7 DEF Redefined

\* The top activation leaves the definition at o, and its body is entered.
<1>EnterKeeps.
    ASSUME NEW F, NEW B, Entered(F, B), F # <<>>, tokens \in Sources, ~Redefined,
           NEW o \in Nat, F[Len(F)].start <= o, o <= F[Len(F)].start + F[Len(F)].i,
           NEW who \in All_Names, o \in Definitions_Of(who),
           NEW r \in Int, F[Len(F)].start + r < o,
           NEW C \in Seq(Op), Emitted(tokens, C, F[Len(F)].start, F[Len(F)].start + r),
           NEW a \in Frame, a.who = who, a.start = o + 1,
           a.start + a.i <= F[Len(F)].start + F[Len(F)].i
    PROVE  Entered(Append(Going_On(F, r), a), Having(F, B, C))
  <2> USE <1>EnterKeeps
  <2>0. PICK G, D, H : G = Going_On(F, r) /\ D = Having(F, B, C) /\ H = Append(G, a)
    OBVIOUS
  <2>1. PICK z \in Nat : z = Len(F) /\ z >= 1
    <3>1. F \in Seq(Frame) /\ Len(F) \in Nat
      BY SMT DEF Entered
    <3>2. Len(F) # 0
      BY <3>1, SMT
    <3> QED BY <3>1, <3>2, SMT
  <2>2. PICK t : t = F[z]
    OBVIOUS
  <2>3. \A n \in 1 .. z : F[n] \in Frame /\ F[n].start \in Nat /\ F[n].i \in Int
    <3> TAKE n \in 1 .. z
    <3>1. F[n] \in Frame
      BY <2>1, SMT DEF Entered
    <3> QED BY <3>1 DEF Frame
  <2>4. /\ t \in Frame /\ t.start \in Nat /\ t.i \in Int /\ t.start <= o /\ o <= t.start + t.i
        /\ t.start + r < o /\ a.start \in Nat /\ a.i \in Int /\ a.start + a.i <= t.start + t.i
    BY <2>1, <2>2, <2>3, SMT DEF Frame
  <2>5. r <= t.i
    BY <2>4, SMT
  <2>6. Entered(G, D) /\ Len(G) = z /\ G # <<>>
    <3>1. r <= F[Len(F)].i
      BY <2>1, <2>2, <2>5
    <3>2. Entered(G, D) /\ Len(G) = Len(F) /\ G # <<>>
      BY <2>0, <3>1, TopMoves
    <3> QED BY <2>1, <3>2
  <2>7. /\ G \in Seq(Frame)
        /\ \A n \in 1 .. z : G[n].who = F[n].who /\ G[n].start = F[n].start
        /\ \A n \in 1 .. z : G[n].i = IF n = z THEN r ELSE F[n].i
    <3>1. F \in Seq(Frame)
      BY DEF Entered
    <3>2. \A n \in 1 .. z : G[n] = IF n = z THEN [t EXCEPT !.i = r] ELSE F[n]
      BY <2>0, <2>1, <2>2, <3>1, SMT DEF Going_On
    <3>3. [t EXCEPT !.i = r].who = t.who /\ [t EXCEPT !.i = r].start = t.start
          /\ [t EXCEPT !.i = r].i = r
      BY <2>4 DEF Frame
    <3>4. G \in Seq(Frame)
      BY <2>6 DEF Entered
    <3>5. ASSUME NEW n \in 1 .. z
          PROVE  /\ G[n].who = F[n].who /\ G[n].start = F[n].start
                 /\ G[n].i = IF n = z THEN r ELSE F[n].i
      <4>1. CASE n = z
        BY <2>2, <3>2, <3>3, <4>1
      <4>2. CASE n # z
        <5>1. G[n] = F[n]
          BY <3>2, <4>2
        <5> QED BY <4>2, <5>1
      <4> QED BY <4>1, <4>2
    <3> QED BY <3>4, <3>5
  <2>8. B[who] = <<>> /\ \A m \in 1 .. z : F[m].who # who
    <3>1. To_Come(t, o)
      BY <2>4 DEF To_Come
    <3>2. z \in 1 .. Len(F)
      BY <2>1, SMT
    <3> QED BY <2>1, <2>2, <3>1, <3>2, <1>NotBegun, SMT
  <2>9. t.who \in All_Names \cup {Main} /\ t.who # who
    <3>1. z \in 1 .. z /\ z \in 1 .. Len(F)
      BY <2>1, SMT
    <3>2. F[z].who \in IF z = 1 THEN {Main} ELSE All_Names
      BY <3>1 DEF Entered
    <3> QED BY <2>2, <2>8, <3>1, <3>2
  <2>10. /\ D \in [All_Names \cup {Main} -> Seq(Op)]
         /\ \A w \in All_Names \cup {Main} : w # t.who => D[w] = B[w]
    <3>1. B \in [All_Names \cup {Main} -> Seq(Op)]
      BY DEF Entered
    <3>2. D = [B EXCEPT ![t.who] = C]
      BY <2>0, <2>1, <2>2 DEF Having
    <3> QED BY <2>9, <3>1, <3>2
  <2>11. /\ H \in Seq(Frame) /\ Len(H) = z + 1 /\ H[z + 1] = a
         /\ \A n \in 1 .. z : H[n] = G[n]
         /\ \A n \in 1 .. z + 1 : n = z + 1 \/ n \in 1 .. z
    <3>1. /\ Append(G, a) \in Seq(Frame) /\ Len(Append(G, a)) = Len(G) + 1
          /\ Append(G, a)[Len(G) + 1] = a /\ \A n \in 1 .. Len(G) : Append(G, a)[n] = G[n]
      BY <2>7, SeqAppend, SMT
    <3> QED BY <2>0, <2>6, <3>1, SMT
  <2>12. \A n \in 1 .. z + 1 : H[n].who \in IF n = 1 THEN {Main} ELSE All_Names
    <3> TAKE n \in 1 .. z + 1
    <3>1. CASE n = z + 1
      BY <2>1, <2>11, <3>1, SMT
    <3>2. CASE n \in 1 .. z
      BY <2>6, <2>11, <3>2 DEF Entered
    <3> QED BY <2>11, <3>1, <3>2
  <2>13. \A m \in 1 .. z : G[m].start + G[m].i \in Int /\ G[m].start + G[m].i < o
    <3> TAKE m \in 1 .. z
    <3>1. CASE m = z
      <4>1. G[m].start = t.start /\ G[m].i = r
        BY <2>2, <2>7, <3>1
      <4>2. t.start + r \in Int /\ t.start + r < o
        BY <2>4, SMT
      <4> QED BY <4>1, <4>2
    <3>2. CASE m # z
      <4>1. m < z /\ z \in 1 .. z
        BY <3>2, SMT
      <4>2. F[m].start + F[m].i < F[z].start
        BY <2>1, <4>1 DEF Entered
      <4>3. G[m].start = F[m].start /\ G[m].i = F[m].i
        BY <2>7, <3>2
      <4>4. PICK p \in Int : p = F[m].start + F[m].i
        <5>1. F[m].start \in Int /\ F[m].i \in Int
          BY <2>3, SMT
        <5>2. F[m].start + F[m].i \in Int
          BY <5>1, SMT
        <5> QED BY <5>2
      <4>5. p < t.start
        BY <2>2, <4>2, <4>4
      <4> QED BY <2>4, <4>3, <4>4, <4>5, SMT
    <3> QED BY <3>1, <3>2
  <2>14. \A m, n \in 1 .. z + 1 : m < n => H[m].who # H[n].who /\ H[m].start + H[m].i < H[n].start
    <3> SUFFICES ASSUME NEW m \in 1 .. z + 1, NEW n \in 1 .. z + 1, m < n
                 PROVE  H[m].who # H[n].who /\ H[m].start + H[m].i < H[n].start
      OBVIOUS
    <3>1. m \in 1 .. z
      BY SMT
    <3>2. CASE n = z + 1
      <4>1. H[m] = G[m] /\ H[n] = a /\ G[m].who # who
        BY <2>7, <2>8, <2>11, <3>1, <3>2
      <4>2. G[m].start + G[m].i < o + 1
        BY <2>13, <3>1, SMT
      <4> QED BY <4>1, <4>2
    <3>3. CASE n \in 1 .. z
      <4>1. G[m].who # G[n].who /\ G[m].start + G[m].i < G[n].start
        BY <2>6, <3>1, <3>3 DEF Entered
      <4> QED BY <2>11, <3>1, <3>3, <4>1
    <3> QED BY <2>11, <3>2, <3>3
  <2>15. \A n \in 1 .. z + 1 : Emitted(tokens, D[H[n].who], H[n].start, H[n].start + H[n].i)
    <3> TAKE n \in 1 .. z + 1
    <3>1. CASE n = z + 1
      <4>1. D[H[n].who] = <<>>
        BY <2>8, <2>9, <2>10, <2>11, <3>1
      <4> QED BY <4>1, EmittedNone
    <3>2. CASE n \in 1 .. z
      BY <2>6, <2>11, <3>2 DEF Entered
    <3> QED BY <2>11, <3>1, <3>2
  <2>16. ASSUME NEW w \in All_Names, D[w] # <<>> \/ \E n \in 1 .. z + 1 : H[n].who = w
         PROVE  \E k \in Definitions_Of(w) : \A n \in 1 .. z + 1 : ~To_Come(H[n], k)
    <3>1. CASE w = who
      <4>1. ~To_Come(a, o)
        BY <2>4, SMT DEF To_Come
      <4>2. \A n \in 1 .. z : ~To_Come(G[n], o)
        BY <2>13, SMT DEF To_Come
      <4>3. \A n \in 1 .. z + 1 : ~To_Come(H[n], o)
        BY <2>11, <4>1, <4>2
      <4> QED BY <3>1, <4>3
    <3>2. CASE w # who
      <4>1. B[w] # <<>> \/ \E n \in 1 .. z : F[n].who = w
        <5>1. CASE w = t.who
          BY <2>1, <2>2, <5>1, SMT
        <5>2. CASE w # t.who
          <6>1. D[w] = B[w]
            BY <2>10, <5>2
          <6>2. ASSUME NEW n \in 1 .. z + 1, H[n].who = w
                PROVE  \E m \in 1 .. z : F[m].who = w
            <7>1. n \in 1 .. z
              BY <2>11, <3>2, <6>2
            <7> QED BY <2>7, <2>11, <6>2, <7>1
          <6> QED BY <2>16, <6>1, <6>2
        <5> QED BY <5>1, <5>2
      <4>2. PICK k \in Definitions_Of(w) : \A n \in 1 .. z : ~To_Come(F[n], k)
        BY <2>1, <4>1 DEF Entered
      <4>3. k \in Nat
        BY SMT DEF Definitions_Of
      <4>4. \A n \in 1 .. z : ~To_Come(G[n], k)
        <5> TAKE n \in 1 .. z
        <5>1. G[n].start = F[n].start /\ G[n].i \in Int /\ G[n].i <= F[n].i
          <6>1. CASE n = z
            BY <2>2, <2>5, <2>7, <6>1
          <6>2. CASE n # z
            <7>1. G[n].i = F[n].i /\ F[n].i \in Int
              BY <2>3, <2>7, <6>2
            <7> QED BY <2>7, <7>1, SMT
          <6> QED BY <6>1, <6>2
        <5>2. ~To_Come(F[n], k) /\ F[n].start \in Nat /\ F[n].i \in Int
          BY <2>3, <4>2
        <5>3. PICK p \in Int, q \in Int, v \in Int : p = F[n].start /\ q = F[n].i /\ v = G[n].i
          <6>1. F[n].start \in Int
            BY <5>2, SMT
          <6> QED BY <5>1, <5>2, <6>1
        <5>4. ~(p <= k /\ k <= p + q) /\ v <= q
          BY <5>1, <5>2, <5>3 DEF To_Come
        <5>5. ~(p <= k /\ k <= p + v)
          BY <4>3, <5>4, SMT
        <5> QED BY <5>1, <5>3, <5>5 DEF To_Come
      <4>5. ~To_Come(a, k)
        <5>1. ~To_Come(t, k)
          BY <2>1, <2>2, <4>2, SMT
        <5> QED BY <2>4, <4>3, <5>1, SMT DEF To_Come
      <4>6. \A n \in 1 .. z + 1 : ~To_Come(H[n], k)
        BY <2>11, <4>4, <4>5
      <4> QED BY <4>6
    <3> QED BY <3>1, <3>2
  <2>17. H \in Seq(Frame) /\ Len(H) = z + 1
    BY <2>11
  <2>18. \A n \in 1 .. Len(H) : H[n].who \in IF n = 1 THEN {Main} ELSE All_Names
    BY <2>12, <2>17
  <2>19. \A m, n \in 1 .. Len(H) :
           m < n => H[m].who # H[n].who /\ H[m].start + H[m].i < H[n].start
    BY <2>14, <2>17
  <2>20. \A n \in 1 .. Len(H) : Emitted(tokens, D[H[n].who], H[n].start, H[n].start + H[n].i)
    BY <2>15, <2>17
  <2>21. \A w \in All_Names :
           D[w] # <<>> \/ (\E n \in 1 .. Len(H) : H[n].who = w) =>
             \E k \in Definitions_Of(w) : \A n \in 1 .. Len(H) : ~To_Come(H[n], k)
    BY <2>16, <2>17
  <2>22. Entered(H, D)
    BY <2>10, <2>17, <2>18, <2>19, <2>20, <2>21 DEF Entered
  <2> QED BY <2>0, <2>22

<1> SUFFICES ASSUME IInv, outcome = "translate", Entered(frames, bodies), ~Redefined,
                  f.i >= 0, Token(f.i).kind = "End", Block_Starts # {},
                  NEW who \in All_Names, f.start + Block_Start \in Definitions_Of(who),
                  NEW r \in Int, r < Block_Start, Enter(who, r),
                  NEW C \in Seq(Op), Emitted(tokens, C, f.start, f.start + r),
                  bodies' = [bodies EXCEPT ![f.who] = C]
             PROVE  Entered(frames', bodies')
  OBVIOUS
<1>1. /\ frames # <<>> /\ f = frames[Len(frames)]
      /\ f.start \in Nat /\ f.i \in Int
  BY TopEmitted
<1>2. Activations_Inv /\ tokens \in Sources
  BY DEF IInv, Table_Inv
<1>3. PICK b \in Nat, s \in Nat, q \in Nat : b = Block_Start /\ s = f.start /\ q = f.i /\ b <= q - 1
  <2>1. Block_Start \in 0 .. f.i - 1
    BY <1>2, BlockStart
  <2>2. Block_Start \in Nat /\ f.i \in Nat /\ Block_Start <= f.i - 1
    BY <1>1, <2>1, SMT
  <2> QED BY <1>1, <2>2
<1>4. PICK o \in Nat : o = s + b
  BY <1>3, SMT
<1>5. PICK a : a = Activation(who, f.start + Block_Start + 1, f.i - Block_Start - 1)
  OBVIOUS
<1>6. a \in Frame /\ a.who = who /\ a.start = o + 1 /\ a.i = q - b - 2
  <2>1. a = [who |-> who, start |-> o + 1, i |-> q - b - 2]
    <3>1. a = Activation(who, s + b + 1, q - b - 1)
      BY <1>3, <1>5
    <3>2. s + b + 1 = o + 1 /\ q - b - 1 - 1 = q - b - 2
      BY <1>4, SMT
    <3> QED BY <3>1, <3>2 DEF Activation
  <2>2. o + 1 \in Nat /\ q - b - 2 \in Int
    BY SMT
  <2>3. who \in Who
    BY DEF Who
  <2> QED BY <2>1, <2>2, <2>3 DEF Frame
<1>7. s <= o /\ o <= s + q /\ s + r < o /\ a.start + a.i <= s + q
  <2>1. r < b
    BY <1>3
  <2>2. s <= o /\ o <= s + q /\ s + r < o /\ o + 1 + (q - b - 2) <= s + q
    <3>1. b <= q - 1 /\ o = s + b
      BY <1>3, <1>4
    <3> QED BY ONLY <2>1, <3>1, s \in Nat, b \in Nat, q \in Nat, r \in Int, o \in Nat
  <2> QED BY <1>6, <2>2
<1>8. o \in Definitions_Of(who)
  BY <1>3, <1>4
<1>9. Entered(Append(Going_On(frames, r), a), Having(frames, bodies, C))
  <2>1. /\ frames[Len(frames)].start <= o
        /\ o <= frames[Len(frames)].start + frames[Len(frames)].i
        /\ frames[Len(frames)].start + r < o
        /\ a.start + a.i <= frames[Len(frames)].start + frames[Len(frames)].i
        /\ Emitted(tokens, C, frames[Len(frames)].start, frames[Len(frames)].start + r)
    BY <1>1, <1>3, <1>7
  <2> QED BY <1>1, <1>2, <1>6, <1>8, <2>1, <1>EnterKeeps
<1>10. frames' = Append(Going_On(frames, r), a)
  <2>1. frames' = Append(Back_To(r), a)
    BY <1>5 DEF Enter
  <2> QED BY <2>1 DEF Going_On, Back_To
<1>11. bodies' = Having(frames, bodies, C)
  BY <1>1 DEF Having
<1> QED BY <1>9, <1>10, <1>11

\* What the top activation has emitted when it leaves out the block it enters.
LEMMA OverBlock ==
  /\ IInv
  /\ outcome = "translate"
  /\ Entered(frames, bodies)
  /\ f.i >= 0
  /\ Token(f.i).kind = "End"
  /\ Block_Starts # {}
  => /\ Block_Start \in 0 .. f.i - 1
     /\ f.start + Block_Start \in 0 .. Len(tokens) - 1
     /\ Emitted(tokens, bodies[f.who], f.start, f.start + Block_Start)
\* A block that ends inside another one starts inside it.
<1>OpensInside.
    ASSUME NEW T, NEW p \in Nat, NEW e \in Nat, NEW b, NEW c, Opens(T, b, p), Opens(T, c, e),
           b < e, e < p, At(T, e).kind = "End"
    PROVE  b < c
  <2> USE <1>OpensInside
  <2>1. b \in Nat /\ c \in Nat /\ c < e
    BY DEF Opens
  <2>2. /\ Level(T, b) \in Int /\ Level(T, c) \in Int /\ Level(T, e) \in Int /\ Level(T, p) \in Int
        /\ Level(T, e + 1) = Level(T, e) - 1
    BY <2>1, LevelStep
  <2>3. Level(T, b) = Level(T, p) - 1 /\ Level(T, c) = Level(T, e) - 1
    BY DEF Opens
  <2>4. Level(T, e + 1) >= Level(T, p)
    <3>1. e + 1 \in b + 1 .. p
      BY <2>1, SMT
    <3> QED BY <3>1 DEF Opens
  <2>5. c # b
    BY <2>2, <2>3, <2>4, SMT
  <2>6. ~(c < b)
    <3> SUFFICES ASSUME c < b PROVE FALSE
      OBVIOUS
    <3>1. b \in c + 1 .. e
      BY <2>1, SMT
    <3>2. Level(T, b) >= Level(T, e)
      BY <3>1 DEF Opens
    <3> QED BY <2>2, <2>3, <2>4, <3>2, SMT
  <2> QED BY <2>1, <2>5, <2>6, SMT

\* The block that ends at q is left out: no `if` or `while` that is still to
\* come is inside it.
<1>EmittedOver.
    ASSUME NEW T, NEW B \in Seq(Op), NEW s \in Nat, NEW q \in Nat, Emitted(T, B, s, q),
           At(T, q).kind = "End", NEW o, Opens(T, o, q)
    PROVE  Emitted(T, B, s, o)
  <2> USE <1>EmittedOver
  <2>1. o \in Nat /\ o < q
    BY DEF Opens
  <2>2. \A n \in 1 .. Len(B) : B[n].pos > o
    <3> TAKE n \in 1 .. Len(B)
    <3>1. B[n].pos > q /\ B[n].pos \in Nat
      BY EmittedAt
    <3> QED BY <2>1, <3>1, SMT
  <2>3. ASSUME NEW n \in 1 .. Len(B), NEW c \in Nat, Closed_By(T, B, s, q, n, c)
        PROVE  Closed_By(T, B, s, o, n, c)
    <3>1. ASSUME c <= q PROVE c <= o
      <4>1. B[n].pos \in Nat /\ B[n].pos > q
        BY EmittedAt
      <4>2. PICK p \in Nat : p = B[n].pos
        BY <4>1
      <4>3. Opens(T, c, p) /\ At(T, c).kind \in Block_Kind
        BY <2>3, <4>2 DEF Closed_By
      <4>4. c # q
        BY <4>3 DEF Block_Kind
      <4>5. c < q /\ q < p
        BY <3>1, <4>1, <4>2, <4>4, SMT
      <4>6. c < o
        BY <4>3, <4>5, <1>OpensInside
      <4> QED BY <2>1, <4>6, SMT
    <3> QED BY <2>3, <3>1 DEF Closed_By
  <2> QED BY <2>2, <2>3 DEF Emitted

<1> SUFFICES ASSUME IInv, outcome = "translate", Entered(frames, bodies),
                  f.i >= 0, Token(f.i).kind = "End", Block_Starts # {}
             PROVE  /\ Block_Start \in 0 .. f.i - 1
                    /\ f.start + Block_Start \in 0 .. Len(tokens) - 1
                    /\ Emitted(tokens, bodies[f.who], f.start, f.start + Block_Start)
  OBVIOUS
<1>1. /\ f.start \in Nat /\ f.i \in Int /\ f.start + f.i < Len(tokens) /\ Len(tokens) \in Nat
      /\ bodies[f.who] \in Seq(Op)
      /\ Emitted(tokens, bodies[f.who], f.start, f.start + f.i)
  BY TopEmitted
<1>2. /\ Block_Start \in 0 .. f.i - 1
      /\ Opens(tokens, f.start + Block_Start, f.start + f.i)
  BY BlockStart, BlockStartOpens DEF IInv
<1> PICK B : B = bodies[f.who]
  OBVIOUS
<1> PICK s \in Nat, b \in Nat, r \in Nat : s = f.start /\ b = Block_Start /\ r = f.i /\ b <= r - 1
  <2>1. Block_Start \in Nat /\ f.i \in Nat /\ Block_Start <= f.i - 1
    BY <1>1, <1>2, SMT
  <2> QED BY <1>1, <2>1
<1>3. PICK q \in Nat, o \in Nat : q = s + r /\ o = s + b
  BY SMT
<1>4. At(tokens, q).kind = "End"
  BY <1>3 DEF Token
<1>5. B \in Seq(Op) /\ Emitted(tokens, B, s, q) /\ Opens(tokens, o, q)
  BY <1>1, <1>2, <1>3
<1>6. Emitted(tokens, B, s, o)
  BY <1>4, <1>5, <1>EmittedOver
<1>7. o \in 0 .. Len(tokens) - 1
  BY <1>1, <1>3, SMT
<1> QED BY <1>2, <1>3, <1>6, <1>7

-----------------------------------------------------------------------------
(* No End without its block.                                                *)

\* The `array` or `constant` at k has its name and its value before it.
Sized(k) ==
  At(tokens, k).kind \in {"Array", "Constant"} =>
    /\ k >= 2 /\ At(tokens, k - 2).kind = "Word"
    /\ At(tokens, k).kind = "Constant" => At(tokens, k - 1).kind = "Integer"

\* In a program without a redefinition and without an opener for a size, the
\* bodies are begun by the translation and no assertion fails.
Ends_Inv ==
  ~Redefined /\ ~Opener_As_Size =>
    /\ outcome # "assert"
    /\ outcome = "register" => bodies = [w \in All_Names \cup {Main} |-> <<>>]
    /\ outcome = "translate" => Entered(frames, bodies)

Blocks_Inv == (\A k \in 0 .. i - 1 : Sized(k)) /\ Ends_Inv

\* What is said of the activations and of the program does not depend on the
\* rest of the state.
LEMMA SaidOfTokens ==
  ASSUME tokens' = tokens
  PROVE  /\ Redefined' <=> Redefined
         /\ Opener_As_Size' <=> Opener_As_Size
         /\ Entered(frames, bodies)' <=> Entered(frames', bodies')
         /\ \A k : Sized(k)' <=> Sized(k)
<1>0. \A w : Definitions_Of(w)' = Definitions_Of(w)
  BY DEF Definitions_Of, Lambda_Name, At
<1>1. Redefined' <=> Redefined
  BY <1>0 DEF Redefined
<1>2. Opener_As_Size' <=> Opener_As_Size
  BY DEF Opener_As_Size, At
<1>3. Entered(frames, bodies)' <=> Entered(frames', bodies')
  BY <1>0 DEF Entered
<1>4. \A k : Sized(k)' <=> Sized(k)
  BY DEF Sized, At
<1> QED BY <1>1, <1>2, <1>3, <1>4

\* Registration lets no array or constant through without its name.
LEMMA SizedStep ==
  IInv /\ (\A k \in 0 .. i - 1 : Sized(k)) /\ [Next]_vars
  => tokens' = tokens /\ \A k \in 0 .. i' - 1 : Sized(k)'
\* The translation changes neither the tokens nor the table.
<1>TranslateReads.
    ASSUME IInv, Translate
    PROVE  tokens' = tokens /\ i' = i
  <2> USE <1>TranslateReads
  <2>1. ASSUME UNCHANGED <<tokens, table>> PROVE tokens' = tokens /\ i' = i
    BY <2>1 DEF table
  <2>2. ASSUME NEW how, Stop(how) PROVE UNCHANGED <<tokens, table>>
    BY <2>2 DEF Stop
  <2>3. ASSUME NEW kind, Emit(kind) PROVE UNCHANGED <<tokens, table>>
    BY <2>3 DEF Emit
  <2>4. CASE Translate_Literal \/ Translate_Address
    BY <2>1, <2>2, <2>3, <2>4 DEF Translate_Literal, Translate_Address
  <2>5. CASE Translate_Word
    <3>1. words[Token(f.i).text].kind \in Word_Kind
      BY <2>5, MetWord DEF Translate_Word
    <3> QED BY <2>1, <2>2, <2>3, <2>5, <3>1 DEF Translate_Word, Word_Kind
  <2>6. CASE Translate_Unhandled \/ Unexpected_End \/ End_Of_Block
    BY <2>1, <2>2, <2>3, <2>6 DEF Translate_Unhandled, Unexpected_End, End_Of_Block
  <2>7. CASE Skip_Definition \/ Reject_Definition \/ Enter_Lambda
    BY <2>1, <2>7 DEF Skip_Definition, Reject_Definition, Enter_Lambda
  <2>8. CASE Declare_Dynamic \/ Enter_Function
    BY <2>1, <2>2, <2>8 DEF Declare_Dynamic, Enter_Function
  <2>9. CASE Declare_Effect
    <3>1. UNCHANGED <<tokens, table>> \/ Stop("unreachable") \/ Stop("exit")
      BY <2>9 DEF Declare_Effect
    <3> QED BY <2>1, <2>2, <3>1
  <2>10. CASE Leave_Body
    <3>1. UNCHANGED <<tokens, table>> \/ Stop("assert") \/ Stop("exit")
      BY <2>10 DEF Leave_Body
    <3> QED BY <2>1, <2>2, <3>1
  <2> QED BY <2>4, <2>5, <2>6, <2>7, <2>8, <2>9, <2>10 DEF Translate

<1> SUFFICES ASSUME IInv, \A k \in 0 .. i - 1 : Sized(k), [Next]_vars
             PROVE  tokens' = tokens /\ \A k \in 0 .. i' - 1 : Sized(k)'
  OBVIOUS
<1>1. tokens' = tokens
  <2>1. CASE Register \/ Begin_Translation
    BY <2>1 DEF Register, Begin_Translation, Register_Nothing, Register_Function, Register_Lambda,
       Register_Constant, Register_Array, Define, Stop
  <2>2. CASE Translate
    BY <2>2, <1>TranslateReads
  <2>3. CASE UNCHANGED vars
    BY <2>3 DEF vars
  <2> QED BY <2>1, <2>2, <2>3 DEF Next
<1>2. i \in Nat
  BY SMT DEF IInv, Table_Inv
<1>3. ASSUME NEW k \in 0 .. i, Sized(i) \/ k # i PROVE Sized(k)'
  <2>1. Sized(k)
    BY <1>2, <1>3, SMT
  <2> QED BY <1>1, <2>1, SaidOfTokens
<1>4. CASE i' = i
  BY <1>1, <1>2, <1>4, SaidOfTokens
<1>5. CASE i' = i + 1 /\ Sized(i)
  <2>1. \A k \in 0 .. i' - 1 : k \in 0 .. i
    BY <1>2, <1>5, SMT
  <2> QED BY <1>1, <1>3, <1>5, <2>1
<1>6. i' = i \/ (i' = i + 1 /\ Sized(i))
  <2>1. CASE Register_Nothing
    BY <2>1 DEF Register_Nothing, Registering, Sized
  <2>2. CASE Register_Function \/ Register_Lambda
    BY <2>2 DEF Register_Function, Register_Lambda, Registering, Define, Stop, table, Sized
  <2>3. CASE Register_Constant
    BY <2>3 DEF Register_Constant, Registering, Define, Stop, table, Preceded, Sized
  <2>4. CASE Register_Array
    <3>1. At(tokens, i).kind = "Array"
      BY <2>4 DEF Register_Array, Registering
    <3>2. CASE Preceded(2, "Word")
      <4>1. i' = i + 1
        BY <2>4, <3>2 DEF Register_Array, Define
      <4>2. Sized(i)
        BY <3>1, <3>2 DEF Preceded, Sized
      <4> QED BY <4>1, <4>2
    <3>3. CASE ~Preceded(2, "Word")
      BY <2>4, <3>3 DEF Register_Array, Stop, table
    <3> QED BY <3>2, <3>3
  <2>5. CASE Begin_Translation \/ Translate \/ UNCHANGED vars
    BY <2>5, <1>TranslateReads DEF Begin_Translation, vars, table
  <2> QED BY <2>1, <2>2, <2>3, <2>4, <2>5 DEF Next, Register
<1> QED BY <1>1, <1>4, <1>5, <1>6

\* The parser gives up, but not on an assertion.
LEMMA StopEnds ==
  ASSUME Ends_Inv, NEW how \in {"exit", "unreachable", "thrown", "undefined"}, Stop(how)
  PROVE  Ends_Inv'
BY DEF Ends_Inv, Stop

\* Registration does not touch the bodies.
LEMMA RegisterEnds ==
  ASSUME IInv, Ends_Inv, Register \/ Begin_Translation
  PROVE  Ends_Inv'
<1>1. ASSUME tokens' = tokens, outcome = "register", outcome' = "register", bodies' = bodies
      PROVE  Ends_Inv'
  BY <1>1, SaidOfTokens DEF Ends_Inv
<1>2. CASE Register_Nothing
  BY <1>1, <1>2 DEF Register_Nothing, Registering, parsed
<1>3. ASSUME NEW name, NEW kind, NEW complain, Define(name, kind, complain), outcome = "register"
      PROVE  Ends_Inv'
  BY <1>1, <1>3 DEF Define, parsed
<1>4. CASE Register_Function
  BY <1>3, <1>4, StopEnds DEF Register_Function, Registering
<1>5. CASE Register_Lambda
  BY <1>3, <1>5 DEF Register_Lambda, Registering
<1>6. CASE Register_Constant
  BY <1>3, <1>6, StopEnds DEF Register_Constant, Registering
<1>7. CASE Register_Array
  BY <1>3, <1>7, StopEnds DEF Register_Array, Registering
<1>8. CASE Begin_Translation
  <2> DEFINE a == Activation(Main, 0, Len(tokens))
  <2>1. /\ frames' = <<a>> /\ outcome' = "translate" /\ outcome = "register"
        /\ tokens' = tokens /\ bodies' = bodies
    BY <1>8 DEF Begin_Translation, parsed
  <2> SUFFICES ASSUME ~Redefined, ~Opener_As_Size PROVE Entered(frames', bodies')
    BY <2>1, SaidOfTokens DEF Ends_Inv
  <2>2. Len(tokens) \in Nat
    BY TokensAreSeq DEF IInv
  <2>3. a \in Frame /\ a.who = Main
    BY <2>2, SMT DEF Activation, Frame, Who
  <2>4. bodies = [w \in All_Names \cup {Main} |-> <<>>]
    BY <2>1 DEF Ends_Inv
  <2>5. <<>> \in Seq(Op)
    BY SMT
  <2>6. /\ bodies \in [All_Names \cup {Main} -> Seq(Op)]
        /\ \A w \in All_Names \cup {Main} : bodies[w] = <<>>
    BY <2>4, <2>5
  <2> HIDE DEF a
  <2>7. PICK F : F = <<a>>
    OBVIOUS
  <2>8. F \in Seq(Frame) /\ Len(F) = 1 /\ F[1] = a /\ 1 .. 1 = {1}
    BY <2>3, <2>7, SMT
  <2>9. \A n \in 1 .. Len(F) : n = 1 /\ F[n] = a
    BY <2>8
  <2>10. \A n \in 1 .. Len(F) : F[n].who \in IF n = 1 THEN {Main} ELSE All_Names
    BY <2>3, <2>9
  <2>11. \A m, n \in 1 .. Len(F) : ~(m < n)
    BY <2>9, SMT
  <2>12. \A n \in 1 .. Len(F) : Emitted(tokens, bodies[F[n].who], F[n].start, F[n].start + F[n].i)
    BY <2>3, <2>6, <2>9, EmittedNone
  <2>13. \A w \in All_Names : ~(bodies[w] # <<>> \/ \E n \in 1 .. Len(F) : F[n].who = w)
    <3>1. Main \notin All_Names
      BY NamesAssumption
    <3> QED BY <2>3, <2>6, <2>9, <3>1
  <2>14. Entered(F, bodies)
    BY <2>6, <2>8, <2>10, <2>11, <2>12, <2>13 DEF Entered
  <2> QED BY <2>1, <2>7, <2>14
<1> QED BY <1>2, <1>4, <1>5, <1>6, <1>7, <1>8 DEF Register

\* The translation goes back, and its body is as it was.
LEMMA MoveEnds ==
  \A r \in Int :
    /\ IInv
    /\ Ends_Inv
    /\ outcome = "translate"
    /\ r <= f.i
    /\ frames' = Back_To(r)
    /\ tokens' = tokens
    /\ bodies' = bodies
    /\ outcome' = outcome
    /\ (~Redefined /\ ~Opener_As_Size => \A c \in Nat : f.start + r < c /\ c <= f.start + f.i
        /\ f.start <= c => At(tokens, c).kind \notin Block_Kind)
    => Ends_Inv'
\* The translation goes back over tokens that are no `if` or `while`.
<1>MoveEntered.
    ASSUME IInv, outcome = "translate", Entered(frames, bodies), NEW r \in Int, r <= f.i,
           \A c \in Nat : f.start + r < c /\ c <= f.start + f.i /\ f.start <= c =>
             At(tokens, c).kind \notin Block_Kind
    PROVE  Entered(Back_To(r), bodies)
  <2> USE <1>MoveEntered
  <2>1. /\ frames # <<>> /\ f = frames[Len(frames)]
        /\ f.start \in Nat /\ f.i \in Int
        /\ f.who \in All_Names \cup {Main} /\ bodies[f.who] \in Seq(Op)
        /\ Emitted(tokens, bodies[f.who], f.start, f.start + f.i)
    BY TopEmitted
  <2> PICK C : C = bodies[f.who]
    OBVIOUS
  <2> PICK s \in Nat, k \in Int : s = f.start /\ k = f.i
    BY <2>1
  <2>2. PICK q \in Int, p \in Int : q = s + k /\ p = s + r
    BY SMT
  <2>3. p <= q
    BY <2>1, <2>2, SMT
  <2>4. \A c \in Nat : p < c /\ c <= q /\ s <= c => At(tokens, c).kind \notin Block_Kind
    BY <2>2
  <2>5. Emitted(tokens, C, s, p)
    BY <2>1, <2>2, <2>3, <2>4, EmittedBack
  <2>6. Entered(Going_On(frames, r), Having(frames, bodies, C))
    BY <2>1, <2>2, <2>5, TopMoves
  <2>7. Going_On(frames, r) = Back_To(r)
    BY DEF Going_On, Back_To
  <2>8. Having(frames, bodies, C) = bodies
    <3>1. bodies \in [All_Names \cup {Main} -> Seq(Op)]
      BY DEF Entered
    <3>2. Having(frames, bodies, C) = [bodies EXCEPT ![f.who] = C]
      BY <2>1 DEF Having
    <3> QED BY <2>1, <2>2, <3>1, <3>2
  <2> QED BY <2>6, <2>7, <2>8

<1> SUFFICES ASSUME IInv, Ends_Inv, outcome = "translate",
                    NEW r \in Int, r <= f.i, frames' = Back_To(r),
                  tokens' = tokens, bodies' = bodies, outcome' = outcome,
                  ~Redefined /\ ~Opener_As_Size =>
                    \A c \in Nat : f.start + r < c /\ c <= f.start + f.i /\ f.start <= c =>
                      At(tokens, c).kind \notin Block_Kind
             PROVE  Ends_Inv'
  OBVIOUS
<1> SUFFICES ASSUME ~Redefined, ~Opener_As_Size PROVE Entered(frames', bodies')
  BY SaidOfTokens DEF Ends_Inv
<1>1. Entered(frames, bodies)
  BY DEF Ends_Inv
<1>2. Entered(Back_To(r), bodies)
  BY <1>1, <1>MoveEntered
<1> QED BY <1>2

\* The translation emits an operation.
LEMMA EmitEnds ==
  \A kind \in Operation_Kind :
    /\ IInv
    /\ Ends_Inv
    /\ outcome = "translate"
    /\ f.i >= 0
    /\ Emit(kind)
    /\ (Token(f.i).kind \in Block_Kind => kind = Token(f.i).kind)
    /\ (kind = "End" => Token(f.i).kind = "End" /\ Block_Starts # {}
        /\ Token(Block_Start).kind \in Block_Kind)
    => Ends_Inv'
\* The token that is met emits an operation.
<1>EmitEntered.
    ASSUME IInv, outcome = "translate", Entered(frames, bodies), f.i >= 0,
           NEW kind \in Operation_Kind, Emit(kind),
           Token(f.i).kind \in Block_Kind => kind = Token(f.i).kind,
           kind = "End" => Token(f.i).kind = "End" /\ Block_Starts # {}
           /\ Token(Block_Start).kind \in Block_Kind
    PROVE  Entered(frames', bodies')
  <2> USE <1>EmitEntered
  <2>1. /\ frames # <<>> /\ f = frames[Len(frames)]
        /\ f.start \in Nat /\ f.i \in Int
        /\ f.who \in All_Names \cup {Main} /\ bodies[f.who] \in Seq(Op)
        /\ Emitted(tokens, bodies[f.who], f.start, f.start + f.i)
    BY TopEmitted
  <2> PICK B : B = bodies[f.who]
    OBVIOUS
  <2> PICK s \in Nat, r \in Nat : s = f.start /\ r = f.i
    BY <2>1, SMT
  <2>2. PICK q \in Nat : q = s + r
    BY SMT
  <2>3. At(tokens, q) = Token(f.i)
    BY <2>2 DEF Token
  <2>4. ASSUME kind = "End"
        PROVE  /\ At(tokens, q).kind = "End"
               /\ \E c \in Nat : s <= c /\ Opens(tokens, c, q) /\ At(tokens, c).kind \in Block_Kind
    <3>1. Block_Starts # {} /\ Token(Block_Start).kind \in Block_Kind /\ Activations_Inv
      BY <2>4 DEF IInv
    <3>2. Opens(tokens, f.start + Block_Start, f.start + f.i)
      BY <3>1, BlockStartOpens
    <3>3. Block_Start \in 0 .. f.i - 1
      BY <3>1, BlockStart
    <3>4. PICK c \in Nat : c = f.start + Block_Start /\ s <= c
      BY <2>2, <3>3, SMT
    <3>5. At(tokens, c).kind \in Block_Kind
      BY <3>1, <3>4 DEF Token
    <3>6. Opens(tokens, c, q)
      BY <2>2, <3>2, <3>4
    <3> QED BY <2>3, <2>4, <3>4, <3>5, <3>6
  <2>5. PICK C : C = Append(B, [kind |-> kind, pos |-> q])
    OBVIOUS
  <2>6. C \in Seq(Op) /\ Emitted(tokens, C, s, q - 1)
    <3>1. Emitted(tokens, B, s, q) /\ B \in Seq(Op)
      BY <2>1, <2>2
    <3>2. At(tokens, q).kind \in Block_Kind => kind \in Block_Kind
      BY <2>3
    <3> QED BY <2>4, <2>5, <3>1, <3>2, EmittedMore
  <2>7. PICK p \in Int : p = f.i - 1 /\ p <= f.i /\ f.start + p = q - 1
    <3>1. r - 1 \in Int /\ r - 1 <= r /\ s + (r - 1) = q - 1
      BY <2>2, SMT
    <3> QED BY <2>2, <3>1
  <2>8. Entered(Going_On(frames, p), Having(frames, bodies, C))
    BY <2>1, <2>2, <2>6, <2>7, TopMoves
  <2>9. frames' = Going_On(frames, p)
    <3>1. frames' = Back_To(p)
      BY <2>7 DEF Emit
    <3> QED BY <3>1 DEF Going_On, Back_To
  <2>10. bodies' = Having(frames, bodies, C)
    <3>1. bodies' = [bodies EXCEPT ![f.who] = Append(@, [kind |-> kind, pos |-> f.start + f.i])]
      BY DEF Emit, Emitted_Body
    <3>2. bodies' = [bodies EXCEPT ![f.who] = C]
      BY <2>2, <2>5, <3>1
    <3> QED BY <2>1, <3>2 DEF Having
  <2> QED BY <2>8, <2>9, <2>10

<1> SUFFICES ASSUME IInv, Ends_Inv, outcome = "translate", f.i >= 0,
                  NEW kind \in Operation_Kind, Emit(kind),
                  Token(f.i).kind \in Block_Kind => kind = Token(f.i).kind,
                  kind = "End" => Token(f.i).kind = "End" /\ Block_Starts # {}
                  /\ Token(Block_Start).kind \in Block_Kind
             PROVE  Ends_Inv'
  OBVIOUS
<1>1. tokens' = tokens /\ outcome' = outcome
  BY DEF Emit
<1> SUFFICES ASSUME ~Redefined, ~Opener_As_Size PROVE Entered(frames', bodies')
  BY <1>1, SaidOfTokens DEF Ends_Inv
<1>2. Entered(frames, bodies)
  BY DEF Ends_Inv
<1> QED BY <1>2, <1>EmitEntered

\* The body of a `&fun` is entered.
LEMMA LambdaEnds == IInv /\ Ends_Inv /\ Enter_Lambda => Ends_Inv'
\* The names of the `&fun`s of a program are words.
<1>LambdaNamed.
    ASSUME tokens \in Sources, NEW k \in 0 .. Len(tokens) - 1, At(tokens, k).kind = "Lambda"
    PROVE  Lambda_Name(k) \in All_Names
  <2> USE <1>LambdaNamed
  <2> DEFINE L == {n \in 0 .. k : At(tokens, n).kind = "Lambda"}
             A == {n \in 0 .. Len(tokens) - 1 : At(tokens, n).kind = "Lambda"}
  <2>1. Len(tokens) \in Nat /\ k \in Nat
    BY SourcesAssumption, SMT
  <2>2. IsFiniteSet(0 .. Len(tokens) - 1)
    BY <2>1, FS_Interval, SMT
  <2>3. A \in SUBSET (0 .. Len(tokens) - 1) /\ L \subseteq A /\ k \in L
    BY <2>1, SMT
  <2>4. Cardinality(A) <= Len(Anonymous) /\ Anonymous \in Seq(STRING)
    BY NamesAssumption
  <2>5. Lambda_Name(k) = Anonymous[Cardinality(L)]
    BY DEF Lambda_Name
  <2> HIDE DEF A, L
  <2>6. IsFiniteSet(A) /\ IsFiniteSet(L) /\ Cardinality(L) <= Cardinality(A)
    BY <2>2, <2>3, FS_Subset
  <2>7. Cardinality(L) \in Nat /\ Cardinality(A) \in Nat /\ Cardinality(L) # 0
    <3>1. L # {}
      BY <2>3
    <3> QED BY <2>6, <3>1, FS_CardinalityType, FS_EmptySet
  <2>8. Cardinality(L) \in DOMAIN Anonymous
    <3>1. Len(Anonymous) \in Nat /\ DOMAIN Anonymous = 1 .. Len(Anonymous)
      BY <2>4, SMT
    <3>2. Cardinality(L) \in 1 .. Len(Anonymous)
      BY <2>4, <2>6, <2>7, <3>1, SMT
    <3> QED BY <3>1, <3>2
  <2> QED BY <2>5, <2>8 DEF All_Names

<1> SUFFICES ASSUME IInv, Ends_Inv, Enter_Lambda
             PROVE  Ends_Inv'
  OBVIOUS
<1>1. /\ outcome = "translate" /\ f.i >= 0 /\ Token(f.i).kind = "End"
      /\ Block_Starts # {} /\ Token(Block_Start).kind = "Lambda"
      /\ bodies' = Emitted_Body("Push_Symbol", Block_Start)
      /\ Enter(Lambda_Name(f.start + Block_Start), Block_Start - 1)
      /\ tokens' = tokens /\ outcome' = outcome
  BY DEF Enter_Lambda, End_Of, Translating
<1> SUFFICES ASSUME ~Redefined, ~Opener_As_Size PROVE Entered(frames', bodies')
  BY <1>1, SaidOfTokens DEF Ends_Inv
<1>2. Entered(frames, bodies)
  BY <1>1 DEF Ends_Inv
<1>3. /\ Block_Start \in 0 .. f.i - 1
      /\ f.start + Block_Start \in 0 .. Len(tokens) - 1
      /\ Emitted(tokens, bodies[f.who], f.start, f.start + Block_Start)
  BY <1>1, <1>2, OverBlock
<1>4. f.start \in Nat /\ f.i \in Int /\ bodies[f.who] \in Seq(Op) /\ Len(tokens) \in Nat
  BY <1>1, <1>2, TopEmitted
<1> PICK s \in Nat, b \in Nat : s = f.start /\ b = Block_Start
  BY <1>3, <1>4, SMT
<1>5. PICK o \in Nat : o = s + b /\ o \in 0 .. Len(tokens) - 1
  BY <1>3, SMT
<1>6. At(tokens, o).kind = "Lambda"
  BY <1>1, <1>5 DEF Token
<1>7. PICK who : who = Lambda_Name(o)
  OBVIOUS
<1>8. who \in All_Names
  <2>1. tokens \in Sources
    BY DEF IInv, Table_Inv
  <2> QED BY <1>5, <1>6, <1>7, <2>1, <1>LambdaNamed
<1>9. f.start + Block_Start \in Definitions_Of(who)
  <2>1. o \in Definitions_Of(who)
    BY <1>5, <1>6, <1>7 DEF Definitions_Of
  <2> QED BY <1>5, <2>1
<1>10. PICK C : C = Append(bodies[f.who], [kind |-> "Push_Symbol", pos |-> o])
  OBVIOUS
<1>11. C \in Seq(Op) /\ Emitted(tokens, C, s, o - 1)
  <2>1. "Push_Symbol" \in Operation_Kind
    BY DEF Operation_Kind
  <2>2. At(tokens, o).kind \notin Block_Kind
    BY <1>6 DEF Block_Kind
  <2>3. Emitted(tokens, bodies[f.who], s, o)
    BY <1>3, <1>5
  <2> QED BY <1>4, <1>10, <2>1, <2>2, <2>3, EmittedMore
<1>12. bodies' = [bodies EXCEPT ![f.who] = C]
  <2>1. bodies' = [bodies EXCEPT ![f.who] =
                     Append(@, [kind |-> "Push_Symbol", pos |-> f.start + Block_Start])]
    BY <1>1 DEF Emitted_Body
  <2> QED BY <1>5, <1>10, <2>1
<1>13. PICK r \in Int : r = Block_Start - 1 /\ r < Block_Start /\ f.start + r = o - 1
  <2>1. b - 1 \in Int /\ b - 1 < b /\ s + (b - 1) = o - 1
    BY <1>5, SMT
  <2> QED BY <2>1
<1>14. Enter(who, r) /\ Emitted(tokens, C, f.start, f.start + r)
  <2>1. Enter(who, r)
    BY <1>1, <1>5, <1>7, <1>13
  <2> QED BY <1>11, <1>13, <2>1
<1> QED BY <1>1, <1>2, <1>8, <1>9, <1>11, <1>12, <1>13, <1>14, EnterEntered

\* The body of a `fun` is entered.
LEMMA FunctionEnds ==
  ASSUME IInv, Ends_Inv, Enter_Function
  PROVE  Ends_Inv'
<1>1. /\ outcome = "translate" /\ f.i >= 0 /\ Token(f.i).kind = "End"
      /\ Block_Starts # {} /\ Token(Block_Start).kind = "Function"
  BY DEF Enter_Function, End_Of, Translating
<1>2. /\ Block_Start # 0 /\ Token(Block_Start - 1).kind = "Word"
      /\ Token(Block_Start - 1).text \in All_Names
      /\ words[Token(Block_Start - 1).text].kind # "None"
  BY <1>1, NameBefore
<1>3. /\ Enter(Token(Block_Start - 1).text, Block_Start - 2)
      /\ tokens' = tokens /\ bodies' = bodies /\ outcome' = outcome
  BY <1>2 DEF Enter_Function, parsed
<1> SUFFICES ASSUME ~Redefined, ~Opener_As_Size PROVE Entered(frames', bodies')
  BY <1>1, <1>3, SaidOfTokens DEF Ends_Inv
<1>4. Entered(frames, bodies)
  BY <1>1 DEF Ends_Inv
<1>5. /\ Block_Start \in 0 .. f.i - 1
      /\ f.start + Block_Start \in 0 .. Len(tokens) - 1
      /\ Emitted(tokens, bodies[f.who], f.start, f.start + Block_Start)
  BY <1>1, <1>4, OverBlock
<1>6. /\ f.start \in Nat /\ f.i \in Int /\ bodies[f.who] \in Seq(Op) /\ Len(tokens) \in Nat
      /\ f.who \in All_Names \cup {Main}
  BY <1>1, <1>4, TopEmitted
<1> PICK s \in Nat, b \in Nat : s = f.start /\ b = Block_Start
  BY <1>5, <1>6, SMT
<1> PICK C, who : C = bodies[f.who] /\ who = Token(Block_Start - 1).text
  OBVIOUS
<1>7. PICK o \in Nat : o = s + b /\ o \in 0 .. Len(tokens) - 1 /\ o >= 1 /\ s + (b - 1) = o - 1
  <2>0. b # 0
    BY <1>2
  <2>1. s + b \in Nat /\ s + b >= 1 /\ s + (b - 1) = (s + b) - 1
    BY ONLY <2>0, s \in Nat, b \in Nat
  <2> QED BY <1>5, <2>1
<1>8. At(tokens, o).kind = "Function" /\ At(tokens, o - 1) = Token(Block_Start - 1)
  BY <1>1, <1>7 DEF Token
<1>9. f.start + Block_Start \in Definitions_Of(who)
  <2>1. o \in Definitions_Of(who)
    BY <1>7, <1>8 DEF Definitions_Of
  <2> QED BY <1>7, <2>1
<1>10. PICK r \in Int : r = Block_Start - 2 /\ r < Block_Start /\ f.start + r = o - 2
  <2>0. o = s + b
    BY <1>7
  <2>1. b - 2 \in Int /\ b - 2 < b /\ s + (b - 2) = o - 2
    BY ONLY <2>0, s \in Nat, b \in Nat
  <2> QED BY <2>1
<1>11. Emitted(tokens, C, s, o - 2)
  <2>1. Emitted(tokens, C, s, o) /\ C \in Seq(Op)
    BY <1>5, <1>6, <1>7
  <2>2. ASSUME NEW c \in Nat, o - 2 < c, c <= o PROVE At(tokens, c).kind \notin Block_Kind
    <3>1. c = o \/ c = o - 1
      BY <2>2, SMT
    <3> QED BY <1>2, <1>8, <3>1 DEF Block_Kind
  <2>3. PICK p \in Int : p = o - 2 /\ p <= o
    BY SMT
  <2>4. Emitted(tokens, C, s, p)
    BY <2>1, <2>2, <2>3, EmittedBack, SMT
  <2> QED BY <2>3, <2>4
<1>12. bodies' = [bodies EXCEPT ![f.who] = C]
  <2>1. bodies \in [All_Names \cup {Main} -> Seq(Op)]
    BY <1>4 DEF Entered
  <2> QED BY <1>3, <1>6, <2>1
<1>13. Enter(who, r) /\ Emitted(tokens, C, f.start, f.start + r)
  <2>1. Enter(who, r)
    BY <1>3, <1>10
  <2> QED BY <1>10, <1>11, <2>1
<1> QED BY <1>1, <1>2, <1>4, <1>6, <1>9, <1>10, <1>12, <1>13, EnterEntered

\* A body is complete, and left.
LEMMA LeaveEnds == IInv /\ Ends_Inv /\ Leave_Body => Ends_Inv'
\* Two blocks that end at different tokens start at different tokens.
<1>OpensOne.
    ASSUME NEW T, NEW p \in Nat, NEW q \in Nat, NEW c, Opens(T, c, p), Opens(T, c, q),
           At(T, p).kind = "End", At(T, q).kind = "End"
    PROVE  p = q
  <2> USE <1>OpensOne
  <2>1. ASSUME NEW m \in Nat, NEW n \in Nat, Opens(T, c, m), Opens(T, c, n),
               At(T, m).kind = "End", m < n
        PROVE  FALSE
    <3>1. c \in Nat /\ c < m
      BY <2>1 DEF Opens
    <3>2. /\ Level(T, m) \in Int /\ Level(T, n) \in Int /\ Level(T, m + 1) \in Int
          /\ Level(T, m + 1) = Level(T, m) - 1 /\ Level(T, c) \in Int
      BY <2>1, <3>1, LevelStep
    <3>3. Level(T, c) = Level(T, m) - 1 /\ Level(T, c) = Level(T, n) - 1
      BY <2>1 DEF Opens
    <3>4. m + 1 \in c + 1 .. n
      BY <2>1, <3>1, SMT
    <3>5. Level(T, m + 1) >= Level(T, n)
      BY <2>1, <3>4 DEF Opens
    <3> QED BY <3>2, <3>3, <3>5, SMT
  <2> QED BY <2>1, SMT

\* The body is reversed, and its kinds are the kinds of its operations.
<1>ReversedKinds.
    ASSUME NEW B \in Seq(Op)
    PROVE  /\ Reversed(B) \in Seq(Op) /\ Len(Reversed(B)) = Len(B)
           /\ Len(Kinds_Of(Reversed(B))) = Len(B)
           /\ \A k \in 0 .. Len(B) - 1 : At(Kinds_Of(Reversed(B)), k) = B[Len(B) - k].kind
  <2> USE <1>ReversedKinds
  <2>1. PICK z \in Nat : z = Len(B)
    BY SMT
  <2> DEFINE R == [k \in 1 .. z |-> B[z + 1 - k]]
             K == [k \in 1 .. z |-> R[k].kind]
  <2>2. \A k \in 1 .. z : z + 1 - k \in 1 .. z
    BY SMT
  <2>3. \A k \in 1 .. z : B[z + 1 - k] \in Op
    BY <2>1, <2>2, SMT
  <2>4. R \in [1 .. z -> Op]
    BY <2>3
  <2>5. R \in Seq(Op) /\ Len(R) = z /\ DOMAIN R = 1 .. z
    <3>1. DOMAIN R = 1 .. z
      OBVIOUS
    <3> HIDE DEF R
    <3> QED BY <2>4, <3>1, SeqFunction
  <2>6. Reversed(B) = R
    BY <2>1 DEF Reversed
  <2>7. K \in Seq(Operation_Kind) /\ Len(K) = z
    <3>1. K \in [1 .. z -> Operation_Kind]
      BY <2>4 DEF Op
    <3> HIDE DEF K
    <3> QED BY <3>1, SeqFunction
  <2>8. Kinds_Of(R) = K
    <3>1. [k \in DOMAIN R |-> R[k].kind] = K
      BY <2>5
    <3>2. <<>> \o K = K
      <4> HIDE DEF K
      <4> QED BY <2>7, SMT
    <3> QED BY <3>1, <3>2 DEF Kinds_Of
  <2>9. ASSUME NEW k \in 0 .. z - 1 PROVE At(K, k) = B[z - k].kind
    <3>1. k + 1 \in 1 .. z /\ z + 1 - (k + 1) = z - k
      BY SMT
    <3>2. K[k + 1] = R[k + 1].kind /\ R[k + 1] = B[z + 1 - (k + 1)]
      BY <3>1
    <3> QED BY <3>1, <3>2 DEF At
  <2> HIDE DEF R, K
  <2> QED BY <2>1, <2>5, <2>6, <2>7, <2>8, <2>9

\* In a body that is complete, no End comes before the start of its block.
<1>NoStrayEnd.
    ASSUME NEW T, NEW B \in Seq(Op), NEW s \in Nat, NEW q \in Int, Emitted(T, B, s, q), q < s,
           NEW K, \A k \in 0 .. Len(B) - 1 : At(K, k) = B[Len(B) - k].kind,
           NEW x \in 0 .. Len(B) - 1
    PROVE  ~(Ended(K, 0, x) > Opened(K, 0, x))
  <2> USE <1>NoStrayEnd
  <2>1. PICK z \in Nat : z = Len(B)
    BY SMT
  <2> DEFINE E == {k \in 0 .. x : At(K, k) = "End"}
             O == {k \in 0 .. x : At(K, k) \in {"If", "While"}}
  <2>2. ASSUME NEW j \in E PROVE \E h \in O : Starts_Of(T, B, j, h)
    <3>1. j \in 0 .. z - 1 /\ z - j \in 1 .. z /\ At(K, j) = "End" /\ j <= x
      BY <2>1, SMT
    <3>2. PICK n \in 1 .. z : n = z - j
      BY <3>1
    <3>3. B[n].kind = "End"
      BY <2>1, <3>1, <3>2
    <3>4. PICK c \in Nat : Closed_By(T, B, s, q, n, c)
      BY <2>1, <3>3 DEF Emitted
    <3>5. PICK m \in n + 1 .. z : B[m].pos = c /\ B[m].kind \in Block_Kind
      BY <2>1, <3>4, SMT DEF Closed_By
    <3>6. z - m \in 0 .. x /\ z - m \in 0 .. z - 1 /\ z - (z - m) = m
      <4>1. /\ z \in Nat /\ m \in n + 1 .. z /\ n \in 1 .. z /\ n = z - j
            /\ j \in 0 .. z - 1 /\ j <= x /\ x \in 0 .. z - 1
        BY <2>1, <3>1, <3>2, <3>5
      <4> QED BY ONLY <4>1
    <3>7. At(K, z - m) = B[m].kind
      BY <2>1, <3>6
    <3>8. z - m \in O
      BY <3>5, <3>6, <3>7 DEF Block_Kind
    <3>9. Starts_Of(T, B, j, z - m)
      BY <2>1, <3>2, <3>4, <3>5, <3>6 DEF Starts_Of, Closed_By
    <3> QED BY <3>8, <3>9
  <2> DEFINE g == [j \in E |-> CHOOSE h \in O : Starts_Of(T, B, j, h)]
  <2>3. \A j \in E : g[j] \in O /\ Starts_Of(T, B, j, g[j])
    <3> TAKE j \in E
    <3>1. g[j] = CHOOSE h \in O : Starts_Of(T, B, j, h)
      OBVIOUS
    <3> HIDE DEF E, O, g
    <3> QED BY <2>2, <3>1
  <2>4. ASSUME NEW j \in E, NEW k \in E, NEW h, Starts_Of(T, B, j, h), Starts_Of(T, B, k, h)
        PROVE  j = k
    <3>1. /\ z - j \in 1 .. z /\ z - k \in 1 .. z /\ j \in 0 .. z - 1 /\ k \in 0 .. z - 1
          /\ At(K, j) = "End" /\ At(K, k) = "End"
      BY <2>1, SMT
    <3>2. PICK m \in 1 .. z, n \in 1 .. z : m = z - j /\ n = z - k
      BY <3>1
    <3>3. B[m].kind = "End" /\ B[n].kind = "End"
      BY <2>1, <3>1, <3>2
    <3>4. /\ At(T, B[m].pos).kind = "End" /\ At(T, B[n].pos).kind = "End"
          /\ B[m].pos \in Nat /\ B[n].pos \in Nat
      BY <2>1, <3>3, EmittedAt DEF Emitted
    <3>5. B[m].pos = B[n].pos
      BY <2>1, <2>4, <3>2, <3>4, <1>OpensOne DEF Starts_Of
    <3>6. m = n
      <4>1. m < n => B[n].pos < B[m].pos
        BY <2>1 DEF Emitted
      <4>2. n < m => B[m].pos < B[n].pos
        BY <2>1 DEF Emitted
      <4> QED BY <3>4, <3>5, <4>1, <4>2, SMT
    <3> QED BY <3>1, <3>2, <3>6, SMT
  <2>5. g \in Injection(E, O)
    <3>1. g \in [E -> O]
      <4>1. g = [j \in E |-> g[j]]
        BY SMT
      <4> HIDE DEF E, O, g
      <4> QED BY <2>3, <4>1
    <3>2. \A j, k \in E : g[j] = g[k] => j = k
      <4> HIDE DEF E, O, g
      <4> QED BY <2>3, <2>4
    <3> HIDE DEF E, O, g
    <3> QED BY <3>1, <3>2 DEF Injection, IsInjective
  <2>6. IsFiniteSet(0 .. x) /\ O \in SUBSET (0 .. x)
    <3>1. x \in Int
      BY <2>1, SMT
    <3>2. IsFiniteSet(0 .. x)
      BY <3>1, FS_Interval, SMT
    <3> QED BY <3>2
  <2>7. Ended(K, 0, x) = Cardinality(E) /\ Opened(K, 0, x) = Cardinality(O)
    BY DEF Ended, Opened
  <2> HIDE DEF E, O, g
  <2>8. IsFiniteSet(O)
    BY <2>6, FS_Subset
  <2>9. IsFiniteSet(E) /\ Cardinality(E) <= Cardinality(O)
    BY <2>5, <2>8, FS_Injection
  <2>10. Cardinality(E) \in Nat /\ Cardinality(O) \in Nat
    BY <2>8, <2>9, FS_CardinalityType
  <2> QED BY <2>7, <2>9, <2>10, SMT

\* The top activation ends, and may change its body: the others are as before.
<1>LeaveKeeps.
    ASSUME NEW F, NEW B, Entered(F, B), F # <<>>, NEW C \in Seq(Op)
    PROVE  Entered(Pop(F), Having(F, B, C))
  <2> USE <1>LeaveKeeps
  <2>0. PICK D : D = Having(F, B, C)
    OBVIOUS
  <2>1. PICK z \in Nat : z = Len(F) /\ z >= 1
    <3>1. F \in Seq(Frame) /\ Len(F) \in Nat
      BY SMT DEF Entered
    <3>2. Len(F) # 0
      BY <3>1, SMT
    <3> QED BY <3>1, <3>2, SMT
  <2>2. PICK P : P = Pop(F)
    OBVIOUS
  <2>3. P \in Seq(Frame) /\ Len(P) = z - 1 /\ \A n \in 1 .. z - 1 : P[n] = F[n] /\ n \in 1 .. z
    <3>1. F \in Seq(Frame)
      BY DEF Entered
    <3>2. Pop(F) \in Seq(Frame) /\ Len(Pop(F)) = z - 1 /\ \A n \in 1 .. z - 1 : Pop(F)[n] = F[n]
      BY <2>1, <3>1, StackPop
    <3> QED BY <2>1, <2>2, <3>2, SMT
  <2>4. PICK who : who = F[z].who
    OBVIOUS
  <2>5. who \in All_Names \cup {Main}
    <3>0. z \in 1 .. Len(F)
      BY <2>1, SMT
    <3>1. F[z].who \in IF z = 1 THEN {Main} ELSE All_Names
      BY <3>0 DEF Entered
    <3> QED BY <2>4, <3>1
  <2>6. /\ D \in [All_Names \cup {Main} -> Seq(Op)]
        /\ \A w \in All_Names \cup {Main} : w # who => D[w] = B[w]
    <3>1. B \in [All_Names \cup {Main} -> Seq(Op)]
      BY DEF Entered
    <3>2. D = [B EXCEPT ![who] = C]
      BY <2>0, <2>1, <2>4 DEF Having
    <3> QED BY <2>5, <3>1, <3>2
  <2>7. \A n \in 1 .. z - 1 : P[n].who \in IF n = 1 THEN {Main} ELSE All_Names
    BY <2>1, <2>3 DEF Entered
  <2>8. \A m, n \in 1 .. z - 1 : m < n => P[m].who # P[n].who /\ P[m].start + P[m].i < P[n].start
    BY <2>1, <2>3, SMT DEF Entered
  <2>9. \A n \in 1 .. z - 1 : Emitted(tokens, D[P[n].who], P[n].start, P[n].start + P[n].i)
    <3> TAKE n \in 1 .. z - 1
    <3>1. F[n].who # who
      <4>1. n < z /\ n \in 1 .. z /\ z \in 1 .. z
        BY <2>1, SMT
      <4> QED BY <2>1, <2>4, <4>1 DEF Entered
    <3>2. D[F[n].who] = B[F[n].who]
      BY <2>3, <2>6, <2>7, <3>1
    <3>3. Emitted(tokens, B[F[n].who], F[n].start, F[n].start + F[n].i)
      BY <2>1, <2>3 DEF Entered
    <3> QED BY <2>3, <3>2, <3>3
  <2>10. ASSUME NEW w \in All_Names, D[w] # <<>> \/ \E n \in 1 .. z - 1 : P[n].who = w
         PROVE  \E k \in Definitions_Of(w) : \A n \in 1 .. z - 1 : ~To_Come(P[n], k)
    <3>1. B[w] # <<>> \/ \E n \in 1 .. z : F[n].who = w
      <4>1. CASE w = who
        BY <2>1, <2>4, <4>1, SMT
      <4>2. CASE w # who
        BY <2>3, <2>6, <2>10, <4>2
      <4> QED BY <4>1, <4>2
    <3>2. PICK k \in Definitions_Of(w) : \A n \in 1 .. z : ~To_Come(F[n], k)
      BY <2>1, <3>1 DEF Entered
    <3>3. \A n \in 1 .. z - 1 : ~To_Come(P[n], k)
      BY <2>3, <3>2
    <3> QED BY <3>3
  <2>11. Entered(P, D)
    BY <2>3, <2>6, <2>7, <2>8, <2>9, <2>10 DEF Entered
  <2> QED BY <2>0, <2>2, <2>11

<1> SUFFICES ASSUME IInv, Ends_Inv, Leave_Body
             PROVE  Ends_Inv'
  OBVIOUS
<1> DEFINE body == Reversed(bodies[f.who])
           kinds == Kinds_Of(body)
<1>1. outcome = "translate" /\ f.i < 0
  BY DEF Leave_Body
<1>2. \/ /\ \E k \in 0 .. Len(kinds) - 1 : Ended(kinds, 0, k) > Opened(kinds, 0, k)
         /\ Stop("assert")
      \/ Stop("exit")
      \/ /\ bodies' = [bodies EXCEPT ![f.who] = body]
         /\ frames' = Pop(frames)
         /\ outcome' = IF Len(frames) = 1 THEN "done" ELSE outcome
         /\ UNCHANGED <<tokens, table, dynamic, effect>>
  BY DEF Leave_Body, Kinds_Of
<1>3. CASE Stop("exit")
  BY <1>3, StopEnds
<1>4. ASSUME Entered(frames, bodies)
      PROVE  /\ bodies[f.who] \in Seq(Op) /\ body \in Seq(Op)
             /\ \A k \in 0 .. Len(kinds) - 1 : ~(Ended(kinds, 0, k) > Opened(kinds, 0, k))
  <2>1. /\ f.start \in Nat /\ f.i \in Int /\ bodies[f.who] \in Seq(Op)
        /\ Emitted(tokens, bodies[f.who], f.start, f.start + f.i)
    BY <1>1, <1>4, TopEmitted
  <2> PICK B : B = bodies[f.who]
    OBVIOUS
  <2> PICK s \in Nat, q \in Int : s = f.start /\ q = f.start + f.i /\ q < s
    <3>1. f.start + f.i \in Int /\ f.start + f.i < f.start
      BY <1>1, <2>1, SMT
    <3> QED BY <2>1, <3>1
  <2>2. B \in Seq(Op) /\ Emitted(tokens, B, s, q)
    BY <2>1
  <2>3. /\ body \in Seq(Op) /\ Len(kinds) = Len(B)
        /\ \A k \in 0 .. Len(B) - 1 : At(kinds, k) = B[Len(B) - k].kind
    BY <2>2, <1>ReversedKinds
  <2> HIDE DEF kinds, body
  <2>4. \A k \in 0 .. Len(B) - 1 : ~(Ended(kinds, 0, k) > Opened(kinds, 0, k))
    BY <2>2, <2>3, <1>NoStrayEnd
  <2> QED BY <2>2, <2>3, <2>4
<1> HIDE DEF kinds, body
<1>5. CASE /\ \E k \in 0 .. Len(kinds) - 1 : Ended(kinds, 0, k) > Opened(kinds, 0, k)
           /\ Stop("assert")
  <2>1. tokens' = tokens
    BY <1>5 DEF Stop
  <2>2. Redefined \/ Opener_As_Size
    BY <1>1, <1>4, <1>5 DEF Ends_Inv
  <2> QED BY <2>1, <2>2, SaidOfTokens DEF Ends_Inv
<1>6. CASE /\ bodies' = [bodies EXCEPT ![f.who] = body]
           /\ frames' = Pop(frames)
           /\ outcome' = IF Len(frames) = 1 THEN "done" ELSE outcome
           /\ UNCHANGED <<tokens, table, dynamic, effect>>
  <2>1. tokens' = tokens /\ outcome' \in {"done", "translate"}
    BY <1>1, <1>6
  <2> SUFFICES ASSUME ~Redefined, ~Opener_As_Size PROVE Entered(frames', bodies')
    BY <2>1, SaidOfTokens DEF Ends_Inv
  <2>2. Entered(frames, bodies)
    BY <1>1 DEF Ends_Inv
  <2>3. body \in Seq(Op) /\ frames # <<>> /\ f = frames[Len(frames)]
    BY <1>1, <1>4, <2>2, TopEmitted
  <2>4. Entered(Pop(frames), Having(frames, bodies, body))
    BY <2>2, <2>3, <1>LeaveKeeps
  <2>5. bodies' = Having(frames, bodies, body)
    BY <1>6, <2>3 DEF Having
  <2> QED BY <1>6, <2>4, <2>5
<1> QED BY <1>2, <1>3, <1>5, <1>6

\* The translation keeps the bodies as they should be.
LEMMA TranslateEnds == IInv /\ Blocks_Inv /\ Translate => Ends_Inv'
\* Nothing but types and a `--` comes before the `is` of an effect.
<1>EffectTokens.
    ASSUME IInv, Declare_Effect, frames' # frames
    PROVE  /\ frames' = Back_To(-1) /\ UNCHANGED <<tokens, table, bodies, outcome>>
           /\ \A j \in 0 .. f.i - 1 : Token(j).kind \in {"Typename", "Divider"}
  <2> USE <1>EffectTokens
  <2> DEFINE Dividers == {j \in 0 .. f.i - 1 : Token(j).kind = "Divider"}
             Last == CHOOSE d \in Dividers \cup {-1} : \A e \in Dividers : e <= d
             Bad == {j \in 0 .. f.i - 1 : Token(j).kind # "Typename" /\ j # Last}
  <2>1. outcome = "translate" /\ f.i >= 0
    BY DEF Declare_Effect, Translating
  <2>2. f.i \in Nat
    <3>1. f.i \in Int
      BY <2>1, TopFrame DEF IInv, Frame
    <3> QED BY <2>1, <3>1, SMT
  <2>3. Bad = {} /\ frames' = Back_To(-1) /\ UNCHANGED <<tokens, table, bodies, outcome>>
    <3>1. \/ Bad = {} /\ frames' = Back_To(-1) /\ UNCHANGED <<tokens, table, bodies, outcome>>
          \/ Stop("unreachable")
          \/ Stop("exit")
      BY DEF Declare_Effect
    <3>2. ASSUME NEW how, Stop(how) PROVE FALSE
      BY <3>2 DEF Stop
    <3> HIDE DEF Bad
    <3> QED BY <3>1, <3>2
  <2>4. Last \in Dividers \cup {-1}
    <3>1. \E d \in Dividers \cup {-1} : \A e \in Dividers : e <= d
      <4>1. CASE Dividers = {}
        <5> HIDE DEF Dividers
        <5> QED BY <4>1
      <4>2. CASE Dividers # {}
        <5>1. Dividers \subseteq 0 .. f.i
          BY <2>2, SMT
        <5> HIDE DEF Dividers
        <5>2. \E d \in Dividers : \A e \in Dividers : e <= d
          BY <2>2, <4>2, <5>1, Largest
        <5> QED BY <5>2
      <4> QED BY <4>1, <4>2
    <3> HIDE DEF Dividers
    <3> QED BY <3>1
  <2>5. ASSUME NEW j \in 0 .. f.i - 1 PROVE Token(j).kind \in {"Typename", "Divider"}
    <3>1. j # -1
      BY <2>2, SMT
    <3>2. Token(j).kind = "Typename" \/ j = Last
      <4> HIDE DEF Last
      <4> QED BY <2>3
    <3>3. j = Last => j \in Dividers
      <4> HIDE DEF Last, Dividers
      <4> QED BY <2>4, <3>1
    <3> HIDE DEF Last
    <3> QED BY <3>2, <3>3
  <2> QED BY <2>3, <2>5

\* A definition that is skipped holds no opener.
<1>SkipTokens.
    ASSUME IInv, \A k \in 0 .. i - 1 : Sized(k), ~Opener_As_Size, Skip_Definition,
           NEW c \in Nat, f.start + (f.i - 3) < c, c <= f.start + f.i
    PROVE  At(tokens, c).kind \notin Block_Kind
  <2> USE <1>SkipTokens
  <2>1. /\ outcome = "translate" /\ f.i >= 0
        /\ Token(f.i).kind \in {"Array", "Constant"}
    BY DEF Skip_Definition, Translating
  <2>2. Activations_Inv /\ Table_Inv /\ i = Len(tokens) /\ Len(tokens) \in Nat
    BY <2>1, TokensAreSeq DEF IInv, Activations_Inv
  <2>3. f.start \in Nat /\ f.i \in Int /\ f.start + f.i < Len(tokens)
    BY <2>2, TopFrame DEF Frame, Inside
  <2>4. PICK q \in Nat : q = f.start + f.i /\ q \in 0 .. Len(tokens) - 1
    BY <2>1, <2>2, <2>3, SMT
  <2>5. At(tokens, q).kind \in {"Array", "Constant"}
    BY <2>1, <2>4 DEF Token
  <2>6. /\ q >= 2 /\ At(tokens, q - 2).kind = "Word"
        /\ At(tokens, q).kind = "Constant" => At(tokens, q - 1).kind = "Integer"
    BY <2>2, <2>4, <2>5 DEF Sized
  <2>7. At(tokens, q - 1).kind \notin Block_Kind
    <3>1. CASE At(tokens, q).kind = "Array"
      <4>1. q \in 1 .. Len(tokens) - 1
        BY <2>2, <2>4, <2>6, SMT
      <4> QED BY <3>1, <4>1 DEF Opener_As_Size, Block_Kind
    <3>2. CASE At(tokens, q).kind = "Constant"
      BY <2>6, <3>2 DEF Block_Kind
    <3> QED BY <2>5, <3>1, <3>2
  <2>8. c = q \/ c = q - 1 \/ c = q - 2
    <3>1. PICK s \in Int, k \in Int : s = f.start /\ k = f.i
      BY <2>3, SMT
    <3>2. s + (k - 3) < c /\ c <= s + k /\ q = s + k
      BY <2>4, <3>1
    <3> QED BY ONLY <3>2, s \in Int, k \in Int, c \in Nat, q \in Nat
  <2> QED BY <2>5, <2>6, <2>7, <2>8 DEF Block_Kind

<1> SUFFICES ASSUME IInv, Blocks_Inv, Translate
             PROVE  Ends_Inv'
  OBVIOUS
<1>0. outcome = "translate" /\ Ends_Inv
  BY DEF Blocks_Inv, Translate, Translate_Literal, Translate_Address, Translate_Word,
     Translate_Unhandled, Skip_Definition, Reject_Definition, Declare_Dynamic, Declare_Effect,
     Unexpected_End, End_Of_Block, Enter_Lambda, Enter_Function, Leave_Body, Translating, End_Of
<1>1. f.i \in Int /\ f.start \in Nat
  BY <1>0, TopFrame DEF IInv, Frame
<1>2. CASE Translate_Literal
  <2>1. f.i >= 0 /\ Token(f.i).kind \in Literal \cup Control
    BY <1>2 DEF Translate_Literal, Translating
  <2>2. PICK kind \in Operation_Kind \ {"End"} :
          Emit(kind) /\ (Token(f.i).kind \in Block_Kind => kind = Token(f.i).kind)
    BY <1>2, <2>1 DEF Translate_Literal, Literal, Control, Operation_Kind, Block_Kind
  <2> QED BY <1>0, <2>1, <2>2, EmitEnds
<1>3. CASE Translate_Address
  <2>1. f.i >= 0 /\ Token(f.i).kind = "Address_Of"
    BY <1>3 DEF Translate_Address, Translating
  <2>2. Token(f.i).kind \notin Block_Kind /\ "Push_Symbol" \in Operation_Kind
    BY <2>1 DEF Block_Kind, Operation_Kind
  <2>3. Emit("Push_Symbol") \/ Stop("thrown")
    BY <1>3 DEF Translate_Address
  <2> QED BY <1>0, <2>1, <2>2, <2>3, EmitEnds, StopEnds
<1>4. CASE Translate_Word
  <2>1. f.i >= 0 /\ Token(f.i).kind = "Word"
    BY <1>4 DEF Translate_Word, Translating
  <2>2. words[Token(f.i).text].kind \in Word_Kind
    BY <1>4, MetWord DEF Translate_Word
  <2>3. Stop("exit")
        \/ \E kind \in {"Intrinsic", "Push_Int", "Push_Symbol", "Call_Symbol"} : Emit(kind)
    BY <1>4, <2>2 DEF Translate_Word, Word_Kind
  <2>4. Token(f.i).kind \notin Block_Kind
    BY <2>1 DEF Block_Kind
  <2>5. \A kind \in {"Intrinsic", "Push_Int", "Push_Symbol", "Call_Symbol"} :
          kind \in Operation_Kind /\ kind # "End"
    BY DEF Operation_Kind
  <2> QED BY <1>0, <2>1, <2>3, <2>4, <2>5, EmitEnds, StopEnds
<1>5. CASE Translate_Unhandled
  BY <1>0, <1>5, StopEnds DEF Translate_Unhandled
<1>6. CASE Skip_Definition
  <2>1. PICK r \in Int : r = f.i - 3 /\ r <= f.i
    BY <1>1, SMT
  <2>2. frames' = Back_To(r) /\ tokens' = tokens /\ bodies' = bodies /\ outcome' = outcome
    BY <1>6, <2>1 DEF Skip_Definition, parsed
  <2>3. ASSUME ~Opener_As_Size, NEW c \in Nat, f.start + r < c, c <= f.start + f.i
        PROVE  At(tokens, c).kind \notin Block_Kind
    BY <1>6, <2>1, <2>3, <1>SkipTokens DEF Blocks_Inv
  <2> QED BY <1>0, <2>1, <2>2, <2>3, MoveEnds
<1>7. CASE Reject_Definition
  <2>1. PICK r \in Int : r = f.i - 1 /\ r <= f.i
    BY <1>1, SMT
  <2>2. frames' = Back_To(r) /\ tokens' = tokens /\ bodies' = bodies /\ outcome' = outcome
    BY <1>7, <2>1 DEF Reject_Definition, parsed
  <2>3. ASSUME NEW c \in Nat, f.start + r < c, c <= f.start + f.i
        PROVE  At(tokens, c).kind \notin Block_Kind
    <3>1. c = f.start + f.i
      BY <1>1, <2>1, <2>3, SMT
    <3> QED BY <1>7, <3>1 DEF Reject_Definition, Translating, Token, Block_Kind
  <2> QED BY <1>0, <2>1, <2>2, <2>3, MoveEnds
<1>8. CASE Declare_Dynamic
  <2>1. CASE f.i = 0
    <3>1. /\ frames' = Back_To(-1) /\ tokens' = tokens /\ bodies' = bodies /\ outcome' = outcome
          /\ Token(0).kind = "Dynamic"
      BY <1>8, <2>1 DEF Declare_Dynamic, Translating
    <3>2. ASSUME NEW c \in Nat, f.start <= c, c <= f.start + f.i
          PROVE  At(tokens, c).kind \notin Block_Kind
      <4>1. c = f.start + 0
        BY <1>1, <2>1, <3>2, SMT
      <4> QED BY <3>1, <4>1 DEF Token, Block_Kind
    <3> QED BY <1>0, <2>1, <3>1, <3>2, MoveEnds, SMT
  <2>2. CASE f.i # 0
    BY <1>0, <1>8, <2>2, StopEnds DEF Declare_Dynamic
  <2> QED BY <2>1, <2>2
<1>9. CASE Declare_Effect
  <2>1. CASE frames' = frames
    <3>1. \/ Stop("unreachable") \/ Stop("exit")
          \/ frames' = Back_To(-1)
      BY <1>9 DEF Declare_Effect
    <3>2. frames' # Back_To(-1)
      <4>1. /\ Len(frames) \in Nat \ {0} /\ f = frames[Len(frames)] /\ frames \in Seq(Frame)
            /\ f.i >= 0
        BY <1>0, <1>9, TopFrame DEF IInv, Activations_Inv, Declare_Effect, Translating
      <4>2. Back_To(-1)[Len(frames)].i = -1
        <5>1. f \in Frame /\ Len(frames) \in DOMAIN frames
          BY <4>1, SMT
        <5>2. Back_To(-1)[Len(frames)] = [f EXCEPT !.i = -1]
          BY <4>1, <5>1 DEF Back_To
        <5> QED BY <5>1, <5>2 DEF Frame
      <4> QED BY <1>1, <2>1, <4>1, <4>2, SMT
    <3> QED BY <1>0, <3>1, <3>2, StopEnds
  <2>2. CASE frames' # frames
    <3>1. /\ frames' = Back_To(-1) /\ UNCHANGED <<tokens, table, bodies, outcome>>
          /\ \A j \in 0 .. f.i - 1 : Token(j).kind \in {"Typename", "Divider"}
      BY <1>9, <2>2, <1>EffectTokens
    <3>2. f.i >= 0 /\ Token(f.i).kind = "Effect" /\ -1 \in Int /\ -1 <= f.i
      BY <1>1, <1>9, SMT DEF Declare_Effect, Translating
    <3>3. ASSUME NEW c \in Nat, f.start <= c, c <= f.start + f.i
          PROVE  At(tokens, c).kind \notin Block_Kind
      <4>1. PICK j \in Int : j = c - f.start /\ c = f.start + j /\ (j = f.i \/ j \in 0 .. f.i - 1)
        <5>1. PICK s \in Int, k \in Int : s = f.start /\ k = f.i
          BY <1>1, SMT
        <5>2. c - s \in Int /\ c = s + (c - s) /\ (c - s = k \/ c - s \in 0 .. k - 1)
          BY <3>3, <5>1, SMT
        <5> QED BY <5>1, <5>2
      <4>2. Token(j).kind \in {"Typename", "Divider", "Effect"}
        BY <3>1, <3>2, <4>1
      <4>3. At(tokens, c) = Token(j)
        BY <4>1 DEF Token
      <4> QED BY <4>2, <4>3 DEF Block_Kind
    <3> QED BY <1>0, <3>1, <3>2, <3>3, MoveEnds
  <2> QED BY <2>1, <2>2
<1>10. CASE Unexpected_End
  BY <1>0, <1>10, StopEnds DEF Unexpected_End
<1>11. CASE End_Of_Block
  <2>1. /\ f.i >= 0 /\ Token(f.i).kind = "End" /\ Block_Starts # {}
        /\ Token(Block_Start).kind \in Block_Kind /\ Emit("End")
    BY <1>11 DEF End_Of_Block, End_Of, Translating, Block_Kind
  <2>2. "End" \in Operation_Kind
    BY DEF Operation_Kind
  <2> QED BY <1>0, <2>1, <2>2, EmitEnds
<1>12. CASE Enter_Lambda
  BY <1>0, <1>12, LambdaEnds
<1>13. CASE Enter_Function
  BY <1>0, <1>13, FunctionEnds
<1>14. CASE Leave_Body
  BY <1>0, <1>14, LeaveEnds
<1> QED
  BY <1>2, <1>3, <1>4, <1>5, <1>6, <1>7, <1>8, <1>9, <1>10, <1>11, <1>12, <1>13, <1>14 DEF Translate

\* The assertion of crossreference, that an `end` has a block to close, fails
\* in no program that defines no function twice and gives no array an `if` or a
\* `while` for its size.
THEOREM EndsCloseTheirBlocks == Spec => []EndsCloseBlocks
<1>1. Init => Blocks_Inv
  BY SMT DEF Init, Blocks_Inv, Ends_Inv
<1>2. IInv /\ Blocks_Inv /\ [Next]_vars => Blocks_Inv'
  <2> SUFFICES ASSUME IInv, Blocks_Inv, [Next]_vars PROVE Blocks_Inv'
    OBVIOUS
  <2>1. tokens' = tokens /\ \A k \in 0 .. i' - 1 : Sized(k)'
    BY SizedStep DEF Blocks_Inv
  <2>2. Ends_Inv'
    <3>1. CASE Register \/ Begin_Translation
      BY <3>1, RegisterEnds DEF Blocks_Inv
    <3>2. CASE Translate
      BY <3>2, TranslateEnds
    <3>3. CASE UNCHANGED vars
      BY <2>1, <3>3, SaidOfTokens DEF Blocks_Inv, Ends_Inv, vars, parsed
    <3> QED BY <3>1, <3>2, <3>3 DEF Next
  <2> QED BY <2>1, <2>2 DEF Blocks_Inv
<1>3. Blocks_Inv => EndsCloseBlocks
  BY DEF Blocks_Inv, Ends_Inv, EndsCloseBlocks
<1> QED BY <1>1, <1>2, <1>3, Invariance, PTL DEF Spec
=============================================================================
