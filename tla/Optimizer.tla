----------------------------- MODULE Optimizer -----------------------------
(***************************************************************************)
(* optimizer::optimize: the three passes, called in turn until none of     *)
(* them changes the program.  A pass that changes something starts the     *)
(* round again from the removal of unused words; the two passes over       *)
(* bodies are called for main and then for every function, in the order of *)
(* an unordered_map.                                                       *)
(*                                                                         *)
(* The passes over bodies are those of Conditions and Folding, step by     *)
(* step.  The removal of unused words is one step here: UnusedWords shows  *)
(* that it keeps exactly the words main needs.                             *)
(***************************************************************************)
EXTENDS Machine

CONSTANTS
  Names,     \* of the functions
  Main,      \* stands for main
  Programs,  \* the bodies of main and of the functions
  Nullopt,   \* foldable_start before an integer is met
  No_Body,   \* current between the bodies
  Randoms,   \* the sequences of words random32 may give
  Calls,     \* how many calls of a run are watched
  Fuel       \* after 2 ^ Fuel operations a body with fewer calls is silent

VARIABLES
  source,    \* history: the program given to the optimizer
  bodies,    \* geninfo.main and the function bodies
  words,     \* the functions still in the table
  pass,      \* "unused", "conditions", "folding" or "done"
  todo,      \* the bodies the pass has still to be called for
  result,    \* for_all_functions: some body has changed
  current,   \* whose body the pass works on
  given, body, branch_op, done_something, misread, i, foldable_start, stack, negative, outcome

round == <<source, bodies, words, pass, todo, result, current>>
local_conditions == <<branch_op, done_something, misread>>
local_folding == <<i, foldable_start, stack, negative>>
optimizerVars == <<round, given, body, local_conditions, local_folding, outcome>>

Known_Conditions == INSTANCE Conditions
Constant_Folding == INSTANCE Folding

-----------------------------------------------------------------------------
Called(b) ==
  LET calls == {k \in DOMAIN b : b[k].kind = "Call_Symbol"} IN {b[k].val : k \in calls} \cap Names
Closed(S) == Called(bodies[Main]) \subseteq S /\ \A w \in S : Called(bodies[w]) \subseteq S
\* A plausible slip: only what main calls itself is used.
Used_Directly == words \cap Called(bodies[Main])

Used == {w \in words : \A S \in SUBSET Names : Closed(S) => w \in S}

Init_Optimizer ==
  /\ source \in Programs
  /\ bodies = source
  /\ words = Names
  /\ pass = "unused"
  /\ todo = {}
  /\ result = FALSE
  /\ current = No_Body
  /\ given = <<>> /\ body = <<>>
  /\ branch_op = 1 /\ done_something = FALSE /\ misread = FALSE
  /\ i = 0 /\ foldable_start = Nullopt /\ stack = <<>> /\ negative = FALSE
  /\ outcome = "running"

\* A plausible slip: the passes are called once each.
After_Once(p, changed) ==
  CASE p = "unused" -> "conditions" [] p = "conditions" -> "folding" [] p = "folding" -> "done"

\* `while (remove || conditions || folding)`: the first pass that has changed
\* something ends the condition, and the loop evaluates it from the start.
After(p, changed) ==
  CASE changed -> "unused"
    [] ~changed /\ p = "unused" -> "conditions"
    [] ~changed /\ p = "conditions" -> "folding"
    [] ~changed /\ p = "folding" -> "done"

Begin(p, ws) ==
  /\ pass' = p
  /\ todo' = IF p \in {"conditions", "folding"} THEN {Main} \cup ws ELSE {}
  /\ result' = FALSE

Remove_Unused ==
  /\ pass = "unused"
  /\ words' = Used
  /\ Begin(After("unused", Used # words), Used)
  /\ UNCHANGED <<source, bodies, current, given, body, local_conditions, local_folding, outcome>>

\* for_all_functions: main first.
Call_Pass ==
  /\ current = No_Body
  /\ \E who \in todo :
       /\ Main \in todo => who = Main
       /\ current' = who
       /\ given' = bodies[who]
       /\ body' = bodies[who]
  /\ branch_op' = 1 /\ done_something' = FALSE
  /\ i' = 0 /\ foldable_start' = Nullopt /\ stack' = <<>> /\ negative' = FALSE
  /\ outcome' = "running"
  /\ UNCHANGED <<source, bodies, words, pass, todo, result, misread>>

Step_Conditions ==
  /\ pass = "conditions" /\ current # No_Body
  /\ Known_Conditions!Next
  /\ UNCHANGED <<round, local_folding>>

Step_Folding ==
  /\ pass = "folding" /\ current # No_Body
  /\ Constant_Folding!Next
  /\ UNCHANGED <<round, local_conditions>>

\* A plausible slip: that the pass was called counts as a change.
Return_Changed ==
  /\ current # No_Body /\ outcome \in {"returned", "unchanged", "folded"}
  /\ bodies' = [bodies EXCEPT ![current] = body]
  /\ result' = TRUE
  /\ todo' = todo \ {current}
  /\ current' = No_Body
  /\ UNCHANGED <<source, words, pass, given, body, local_conditions, local_folding, outcome>>

\* The pass returns from a body: `result |=` keeps what came before.
Return_From_Body ==
  /\ current # No_Body /\ outcome \in {"returned", "unchanged", "folded"}
  /\ bodies' = [bodies EXCEPT ![current] = body]
  /\ result' = (result \/ done_something \/ outcome = "folded")
  /\ todo' = todo \ {current}
  /\ current' = No_Body
  /\ UNCHANGED <<source, words, pass, given, body, local_conditions, local_folding, outcome>>

End_Pass ==
  /\ pass \in {"conditions", "folding"} /\ todo = {}
  /\ Begin(After(pass, result), words)
  /\ UNCHANGED <<source, bodies, words, current, given, body, local_conditions, local_folding,
                 outcome>>

optimize ==
  \/ Remove_Unused \/ Call_Pass \/ Step_Conditions \/ Step_Folding
  \/ Return_From_Body \/ End_Pass

-----------------------------------------------------------------------------
(* Properties.                                                              *)

Kept == {Main} \cup words

\* Between the passes, and while one works, no body that is kept calls a
\* function that has been erased: bodies change after words are removed, and
\* words are removed after bodies change.
CallsResolved == \A who \in Kept : Called(bodies[who]) \subseteq words

\* When optimize returns nothing is left for any pass: no condition is a known
\* integer, nothing can be folded and every function is needed, although each
\* pass may make work for the others.
Settled ==
  pass = "done" =>
    /\ \A who \in Kept :
         LET b == bodies[who] IN
         /\ \A n \in 1 .. Len(b) - 1 : ~Known_Conditions!Known(b, n)
         /\ \A k \in DOMAIN b :
              b[k].kind = "Intrinsic" /\ Constant_Folding!Foldable(b[k].val) =>
                \/ k <= Constant_Folding!Needs(b[k].val)
                \/ \E n \in 1 .. Constant_Folding!Needs(b[k].val) : b[k - n].kind # "Push_Int"
    /\ words = Used

\* Folding runs these signed, the generated code unsigned.
Sign_Sensitive == {"Greater", "Greater_Eq", "Less", "Less_Eq", "Max", "Min", "Div", "Mod"}
Sign_Matters ==
  negative /\ \E k \in DOMAIN given :
                given[k].kind = "Intrinsic" /\ given[k].val \in Sign_Sensitive

\* A pass over a body leaves a body that does what the body did: it makes the
\* same calls with the same stacks and leaves the same stack, whatever random32
\* gives.
Meaning_Kept ==
  current # No_Body /\ outcome \in {"returned", "folded"} /\ given # body =>
    Same_Meaning(given, body, Randoms, Calls, Fuel)

\* Every pass over a body, in every round, keeps what the body does.  This
\* covers the folding of a condition, the removal of the branch it decides and
\* the folding of what this brings together.  There are two exceptions: a
\* program with a block that optimize_comptime_known_conditions gets wrong
\* (Misread), and a word with the top bit set that meets an intrinsic which is
\* folded signed and runs unsigned.
PassesKeepMeaning == misread \/ Sign_Matters \/ Meaning_Kept

\* "Do `if` has else branch? If yes, remove it. Otherwise remove unnesesary end
\* operation" (optimizer.cc): the branch that a known condition selects is kept
\* as it is, whether or not the `if` has an else-branch.
KnownConditionsKeepMeaning == pass = "conditions" => Meaning_Kept

\* The body ends with a loop whose condition is a nonzero integer.
Ends_In_Infinite_Loop ==
  \E n \in 1 .. Len(given) - 1 :
    /\ Known_Conditions!Known(given, n)
    /\ At(given, n).kind = "Do" /\ At(given, n).jump = Len(given)
    /\ At(given, n - 1).val # 0

\* The passes do not bring the compiler down, whatever the passes before have
\* made of the body.  The pass over conditions reads and erases only operations
\* that exist, and its assertion holds, unless a block was misread; only the
\* warning for an infinite loop that ends the body reads past the end of the
\* vector.  A division that is folded makes the compiler crash only if the
\* program, when it has no jumps, would trap.
PassesSurvive ==
  /\ outcome = "assert" => misread
  /\ outcome = "undefined" => misread \/ Ends_In_Infinite_Loop
  /\ outcome = "crashed" /\ ~negative /\ (\A k \in DOMAIN given : given[k].jump = Empty_Jump) =>
       \A r \in Randoms : Meaning(given, r, Calls, Fuel).how \in {"trap", "underflow"}

\* optimize returns: no sequence of rounds goes on for ever, though constant
\* folding may lengthen a body.
OptimizeEnds == <>(pass = "done" \/ outcome \in {"undefined", "assert", "crashed"})
=============================================================================
