---------------------------- MODULE Definitions ----------------------------
(***************************************************************************)
(* The parser after the lexer: register_definitions enters the words that  *)
(* the tokens define into the table, and into_operations, with             *)
(* function_into_operations for the body of every `fun`, translates the    *)
(* tokens into operations.                                                 *)
(*                                                                         *)
(* Both translate backwards, from the last token to the first: on an `end` *)
(* they look for the token that opens its block, and call themselves on    *)
(* the tokens in between when that is a `fun`.  An operation is appended   *)
(* to its body when its token is met; the body is reversed and             *)
(* crossreferenced when the first token is done.  An operation is known by *)
(* its kind and the position of its token.                                 *)
(***************************************************************************)
EXTENDS Operations

CONSTANTS
  Sources,    \* the sequences of tokens the parser may be given
  Names,      \* the texts of words
  Intrinsics, \* those of the words register_intrinsics has entered
  Anonymous,  \* the names of the `&fun`s, in the order of the source
  Main        \* stands for main among the bodies

Literal == {"Integer", "Char", "Bool", "String", "Typename"}
Control == {"If", "Else", "While", "Do", "Return"}
Opening == {"If", "While", "Function", "Lambda"}

\* A token: its kind, or the kind of its keyword, and its text.  `&fun` is a
\* Lambda, `--` a Divider and `is` an Effect.
Token_Kind ==
  Literal \cup Control
  \cup {"Word", "Address_Of", "End", "Function", "Lambda", "Constant", "Array", "Dynamic",
        "Divider", "Effect"}

\* Any sequence of tokens may come from the lexer.
ASSUME SourcesAssumption ==
  /\ Sources \subseteq Seq([kind : Token_Kind, text : STRING])
  /\ \A s \in Sources : \A k \in DOMAIN s : s[k].kind = "Word" => s[k].text \in Names

VARIABLES
  tokens,      \* the tokens of the program
  words,       \* the table: what kind of word, and its id
  word_count,  \* Word::word_count: the next id
  i,           \* the loop variable of register_definitions
  frames,      \* the activations: whose body, its tokens, the loop variable
  bodies,      \* function_body of the words, and main
  dynamic,     \* is_dynamically_typed
  effect,      \* the declared effects, <<>> where there is none
  failed,      \* Compilation_Failed
  outcome      \* "register", "translate", "done"; "exit" after a message,
               \* "unreachable", "assert", "thrown", "undefined"

table == <<words, word_count, i>>
parsed == <<bodies, dynamic, effect>>
vars == <<tokens, table, frames, parsed, failed, outcome>>

All_Names == Names \cup {Anonymous[n] : n \in DOMAIN Anonymous}

\* There is a name for every `&fun` of a source, and main is no word.
ASSUME NamesAssumption ==
  /\ Anonymous \in Seq(STRING)
  /\ \A s \in Sources :
       Cardinality({k \in 0 .. Len(s) - 1 : At(s, k).kind = "Lambda"}) <= Len(Anonymous)
  /\ Main \notin All_Names

\* The name of the `&fun` at a position: lambda_count counts them.
Lambda_Name(k) == Anonymous[Cardinality({n \in 0 .. k : At(tokens, n).kind = "Lambda"})]

Stop(how) == outcome' = how /\ UNCHANGED <<tokens, table, frames, parsed, failed>>

Init ==
  /\ tokens \in Sources
  /\ words = [w \in All_Names |->
       [kind |-> IF w \in Intrinsics THEN "Intrinsic" ELSE "None", id |-> 0]]
  /\ word_count = 0
  /\ i = 0
  /\ frames = <<>>
  /\ bodies = [w \in All_Names \cup {Main} |-> <<>>]
  /\ dynamic = {}
  /\ effect = [w \in All_Names |-> <<>>]
  /\ failed = FALSE
  /\ outcome = "register"

-----------------------------------------------------------------------------
(* register_definitions.                                                    *)

Registering(kinds) == outcome = "register" /\ i < Len(tokens) /\ At(tokens, i).kind \in kinds
Preceded(n, kind) == i >= n /\ At(tokens, i - n).kind = kind
Before(n) == At(tokens, i - n).text

\* A plausible slip: a word that is defined again takes an id without counting.
Define_Uncounted(name, kind, complain) ==
  /\ words' = [words EXCEPT ![name] = [kind |-> kind, id |-> word_count]]
  /\ word_count' = IF words[name].kind = "None" THEN word_count + 1 ELSE word_count
  /\ i' = i + 1
  /\ failed' = (failed \/ complain)
  /\ UNCHANGED <<tokens, frames, parsed, outcome>>

\* words[name]: a word that exists is overwritten, its body excepted.
Define(name, kind, complain) ==
  /\ words' = [words EXCEPT ![name] = [kind |-> kind, id |-> word_count]]
  /\ word_count' = word_count + 1
  /\ i' = i + 1
  /\ failed' = (failed \/ complain)
  /\ UNCHANGED <<tokens, frames, parsed, outcome>>

Register_Nothing ==
  /\ Registering(Token_Kind \ {"Function", "Lambda", "Constant", "Array"})
  /\ i' = i + 1
  /\ UNCHANGED <<tokens, words, word_count, frames, parsed, failed, outcome>>

\* A plausible slip: what comes before `fun` is not asked to be a word.
Register_Function_Anything ==
  /\ Registering({"Function"})
  /\ IF i >= 1 THEN Define(Before(1), "Function", FALSE) ELSE Stop("exit")

Register_Function ==
  /\ Registering({"Function"})
  /\ IF Preceded(1, "Word") THEN Define(Before(1), "Function", FALSE) ELSE Stop("exit")

Register_Lambda == Registering({"Lambda"}) /\ Define(Lambda_Name(i), "Function", FALSE)

Register_Constant ==
  /\ Registering({"Constant"})
  /\ IF Preceded(2, "Word") /\ Preceded(1, "Integer") THEN Define(Before(2), "Integer", FALSE)
     ELSE Stop("exit")

\* A size that is no integer is reported, and the array is defined.
Register_Array ==
  /\ Registering({"Array"})
  /\ LET Sized == \/ Preceded(1, "Integer")
                  \/ Preceded(1, "Word") /\ words[Before(1)].kind = "Integer"
     IN IF Preceded(2, "Word") THEN Define(Before(2), "Array", ~Sized) ELSE Stop("exit")

\* An activation starts at the last token of its span.
Activation(who, start, size) == [who |-> who, start |-> start, i |-> size - 1]

Begin_Translation ==
  /\ outcome = "register" /\ i = Len(tokens)
  /\ frames' = <<Activation(Main, 0, Len(tokens))>>
  /\ outcome' = "translate"
  /\ UNCHANGED <<tokens, table, parsed, failed>>

-----------------------------------------------------------------------------
(* translate_operation, into_operations and function_into_operations.       *)

f == Top(frames)
Token(k) == At(tokens, f.start + k)
Translating(kinds) == outcome = "translate" /\ f.i >= 0 /\ Token(f.i).kind \in kinds
In_Main == f.who = Main

Back_To(n) == [frames EXCEPT ![Len(frames)].i = n]
Emitted_Body(kind, k) ==
  [bodies EXCEPT ![f.who] = Append(@, [kind |-> kind, pos |-> f.start + k])]

Emit(kind) ==
  /\ bodies' = Emitted_Body(kind, f.i)
  /\ frames' = Back_To(f.i - 1)
  /\ UNCHANGED <<tokens, table, dynamic, effect, failed, outcome>>

Translate_Literal ==
  /\ Translating(Literal \cup Control)
  /\ LET kind == Token(f.i).kind
     IN Emit(CASE kind \in {"Integer", "Char", "Bool"} -> "Push_Int"
               [] kind = "String" -> "Push_Symbol"
               [] kind = "Typename" -> "Cast"
               [] kind \in Control -> kind)

\* words.at throws when there is no such word.
Translate_Address ==
  /\ Translating({"Address_Of"})
  /\ IF words[Token(f.i).text].kind # "None" THEN Emit("Push_Symbol") ELSE Stop("thrown")

Translate_Word ==
  /\ Translating({"Word"})
  /\ LET kind == words[Token(f.i).text].kind
     IN CASE kind = "None" -> Stop("exit")
          [] kind = "Intrinsic" -> Emit("Intrinsic")
          [] kind = "Integer" -> Emit("Push_Int")
          [] kind = "Array" -> Emit("Push_Symbol")
          [] kind = "Function" -> Emit("Call_Symbol")

\* The keywords translate_operation leaves to its callers and they to it.
Translate_Unhandled ==
  /\ Translating({"Function", "Lambda", "Divider"} \cup (IF In_Main THEN {"Dynamic", "Effect"} ELSE {}))
  /\ Stop("unreachable")

Skip_Definition ==
  /\ Translating({"Array", "Constant"}) /\ In_Main
  /\ frames' = Back_To(f.i - 3)
  /\ UNCHANGED <<tokens, table, parsed, failed, outcome>>

\* A plausible slip: the definition is reported and met again.
Reject_Definition_Again ==
  /\ Translating({"Array", "Constant"}) /\ ~In_Main
  /\ failed' = TRUE
  /\ frames' = Back_To(f.i)
  /\ UNCHANGED <<tokens, table, parsed, outcome>>

Reject_Definition ==
  /\ Translating({"Array", "Constant"}) /\ ~In_Main
  /\ failed' = TRUE
  /\ frames' = Back_To(f.i - 1)
  /\ UNCHANGED <<tokens, table, parsed, outcome>>

Declare_Dynamic ==
  /\ Translating({"Dynamic"}) /\ ~In_Main
  /\ IF f.i = 0
     THEN /\ dynamic' = dynamic \cup {f.who}
          /\ frames' = Back_To(-1)
          /\ UNCHANGED <<tokens, table, bodies, effect, failed, outcome>>
     ELSE Stop("exit")

\* Everything before `is` is a type, or the one `--`: the types before it are
\* the input, and all are the output when it is missing.
Declare_Effect ==
  /\ Translating({"Effect"}) /\ ~In_Main
  /\ LET Dividers == {j \in 0 .. f.i - 1 : Token(j).kind = "Divider"}
         Last == CHOOSE d \in Dividers \cup {-1} : \A e \in Dividers : e <= d
         Bad == {j \in 0 .. f.i - 1 : Token(j).kind # "Typename" /\ j # Last}
         Types(a, b) == SelectSeq(SubSeq(tokens, f.start + a + 1, f.start + b),
                                  LAMBDA t : t.kind = "Typename")
     IN IF Bad = {}
        THEN /\ effect' = [effect EXCEPT ![f.who] =
                  [input |-> IF Last = -1 THEN <<>> ELSE Types(0, Last),
                   output |-> Types(Last + 1, f.i)]]
             /\ frames' = Back_To(-1)
             /\ UNCHANGED <<tokens, table, bodies, dynamic, failed, outcome>>
        ELSE LET first == CHOOSE j \in Bad : \A k \in Bad : k <= j
             IN Stop(IF Token(first).kind = "Integer" THEN "unreachable" ELSE "exit")

\* The token that opens the block of the `end` at f.i: the scan goes back
\* until as many blocks were opened as ended.
Number(kinds, a, b) == Cardinality({k \in a .. b : Token(k).kind \in kinds})
Block_Starts ==
  {b \in 0 .. f.i - 1 : Number(Opening, b, f.i - 1) = 1 + Number({"End"}, b, f.i - 1)}
Block_Start == CHOOSE b \in Block_Starts : \A c \in Block_Starts : c <= b

End_Of(kinds) ==
  Translating({"End"}) /\ Block_Starts # {} /\ Token(Block_Start).kind \in kinds

\* A plausible slip: the scan that finds no block is not noticed.
Unexpected_End_Emitted == Translating({"End"}) /\ Block_Starts = {} /\ Emit("End")

Unexpected_End == Translating({"End"}) /\ Block_Starts = {} /\ Stop("exit")

End_Of_Block == End_Of({"If", "While"}) /\ Emit("End")

\* The body between the block's tokens, of the word who; the caller goes on
\* at n.
Enter(who, n) ==
  frames' = Append(Back_To(n),
                   Activation(who, f.start + Block_Start + 1, f.i - Block_Start - 1))

Enter_Lambda ==
  /\ End_Of({"Lambda"})
  /\ bodies' = Emitted_Body("Push_Symbol", Block_Start)
  /\ Enter(Lambda_Name(f.start + Block_Start), Block_Start - 1)
  /\ UNCHANGED <<tokens, table, dynamic, effect, failed, outcome>>

Enter_Function ==
  /\ End_Of({"Function"})
  /\ IF Block_Start = 0 THEN Stop("undefined")
     ELSE IF Token(Block_Start - 1).kind # "Word" THEN Stop("undefined")
     ELSE IF words[Token(Block_Start - 1).text].kind = "None" THEN Stop("thrown")
     ELSE /\ Enter(Token(Block_Start - 1).text, Block_Start - 2)
          /\ UNCHANGED <<tokens, table, parsed, failed, outcome>>

\* A plausible slip: the body stays as it was emitted.
Unreversed(s) == s

\* reverse, and crossreference: see Crossreference for the bodies it accepts
\* and for its assertion.  An ill formed body is reported: some reports exit,
\* after the others, of an open block or of an `end` right after its `while`,
\* the caller goes on.
Reversed(s) == [k \in 1 .. Len(s) |-> s[Len(s) + 1 - k]]
Leave_Body ==
  /\ outcome = "translate" /\ f.i < 0
  /\ LET body == Reversed(bodies[f.who])
         kinds == <<>> \o [k \in DOMAIN body |-> body[k].kind]
         Stray_End == \E k \in 0 .. Len(kinds) - 1 : Ended(kinds, 0, k) > Opened(kinds, 0, k)
     IN \/ /\ Stray_End
           /\ Stop("assert")
        \/ /\ ~Well_Formed(kinds)
           /\ Stop("exit")
        \/ /\ bodies' = [bodies EXCEPT ![f.who] = body]
           /\ failed' = (failed \/ ~Well_Formed(kinds))
           /\ frames' = Pop(frames)
           /\ outcome' = IF Len(frames) = 1 THEN "done" ELSE outcome
           /\ UNCHANGED <<tokens, table, dynamic, effect>>

Register ==
  \/ Register_Nothing \/ Register_Function \/ Register_Lambda
  \/ Register_Constant \/ Register_Array
Translate ==
  \/ Translate_Literal \/ Translate_Address \/ Translate_Word \/ Translate_Unhandled
  \/ Skip_Definition \/ Reject_Definition \/ Declare_Dynamic \/ Declare_Effect
  \/ Unexpected_End \/ End_Of_Block \/ Enter_Lambda \/ Enter_Function \/ Leave_Body
Next == Register \/ Begin_Translation \/ Translate

Spec == Init /\ [][Next]_vars /\ WF_vars(Next)

-----------------------------------------------------------------------------
(* Properties.                                                              *)

\* The definitions of a word by `fun` or `&fun`: a program may use the name of
\* a `&fun`, too.
Definitions_Of(name) ==
  {k \in 0 .. Len(tokens) - 1 :
     \/ At(tokens, k).kind = "Function" /\ k >= 1 /\ At(tokens, k - 1).text = name
     \/ At(tokens, k).kind = "Lambda" /\ Lambda_Name(k) = name}
Redefined == \E w \in All_Names : Cardinality(Definitions_Of(w)) > 1

\* An array whose size would be the `if` or `while` of a block: registration
\* reports it, and the translation skips it with the rest of the definition.
Opener_As_Size ==
  \E k \in 1 .. Len(tokens) - 1 :
    At(tokens, k).kind = "Array" /\ At(tokens, k - 1).kind \in {"If", "While"}

\* `// TODO is this safe? dunno`: when the translation meets the end of a
\* function, the token before its `fun` is in the span and names a word that
\* registration has entered, for every sequence of tokens that registration
\* lets through.  Only the address of an unknown word throws.
FunctionNameFound ==
  /\ outcome # "undefined"
  /\ outcome = "thrown" => Token(f.i).kind = "Address_Of"

\* The `assert(!stack.empty())` of crossreference holds for every sequence of
\* tokens that defines no function twice and gives no array an `if` or a
\* `while` for its size: the backward scan emits an End only when it has seen
\* the `if` or `while` of its block in the same body, and does not skip that.
EndsCloseBlocks == outcome = "assert" => Redefined \/ Opener_As_Size

\* The words a program defines have different ids, so the labels of two
\* functions or arrays are never the same.
IdsDiffer ==
  \A v, w \in All_Names :
    v # w /\ {words[v].kind, words[w].kind} \cap {"None", "Intrinsic"} = {} =>
      words[v].id # words[w].id

\* Reference: the `end` of a block, found forwards.
Blocks(kinds, a, b) == Cardinality({k \in a .. b : At(tokens, k).kind \in kinds})
Closing(o) ==
  CHOOSE e \in o .. Len(tokens) - 1 :
    /\ Blocks(Opening, o, e) = Blocks({"End"}, o, e)
    /\ \A d \in o .. e - 1 : Blocks(Opening, o, d) > Blocks({"End"}, o, d)
Function_At(o) == At(tokens, o).kind \in {"Function", "Lambda"}
\* The functions around a token, and the word whose code it is part of.
Around(k) == {o \in 0 .. k - 1 : Function_At(o) /\ k < Closing(o)}
Owner(k) ==
  IF Around(k) = {} THEN Main
  ELSE LET o == CHOOSE n \in Around(k) : \A m \in Around(k) : m <= n
       IN IF At(tokens, o).kind = "Lambda" THEN Lambda_Name(o) ELSE At(tokens, o - 1).text
\* The tokens that are no part of a name, a definition or an effect.
Is_Code(k) ==
  LET kind == At(tokens, k).kind
      Followed(n, kinds) == k + n < Len(tokens) /\ At(tokens, k + n).kind \in kinds
  IN /\ kind \in Literal \cup Control \cup {"Word", "Address_Of", "Lambda", "End"}
     /\ kind = "End" => \E o \in 0 .. k - 1 :
                          At(tokens, o).kind \in {"If", "While"} /\ Closing(o) = k
     /\ ~Followed(1, {"Function", "Constant", "Array"}) /\ ~Followed(2, {"Constant", "Array"})
     /\ ~\E n \in k + 1 .. Len(tokens) - 1 :
           At(tokens, n).kind = "Effect" /\ Around(n) = Around(k)
Code_Of(who) == {k \in 0 .. Len(tokens) - 1 : Owner(k) = who /\ Is_Code(k)}
Positions(who) == <<>> \o [k \in DOMAIN bodies[who] |-> bodies[who][k].pos]

In_Order(who) ==
  LET p == Positions(who)
  IN /\ {p[k] : k \in DOMAIN p} = Code_Of(who)
     /\ \A k \in 1 .. Len(p) - 1 : p[k] < p[k + 1]

\* When a program is parsed without an error, the operations of main and of
\* every function, nested ones and `&fun`s too, are those of its own tokens,
\* each once and in the order of the source, although the translation goes
\* backwards and leaves a body for the functions inside it.
OpsInSourceOrder ==
  outcome = "done" /\ ~failed /\ ~Redefined => \A who \in All_Names \cup {Main} : In_Order(who)

\* The parser ends, though a body may be entered from a body that is entered
\* from it: each activation has fewer tokens than its caller.
ParserEnds == <>(outcome \notin {"register", "translate"})
=============================================================================
