---------------------------- MODULE UnusedWords ----------------------------
(***************************************************************************)
(* optimizer::remove_unused_words_and_strings: a depth-first walk from     *)
(* main over the symbols the bodies refer to, and the removal of every     *)
(* function, array and string that the walk has not met.                   *)
(*                                                                         *)
(* The table of words is an unordered_map searched for an id: when two     *)
(* words have the same id, either may be found.  Intrinsics are registered *)
(* without an id and so have id 0, which is also the id of the first word  *)
(* the program defines.                                                    *)
(***************************************************************************)
EXTENDS Integers, Sequences, FiniteSets

CONSTANTS
  Names,     \* of words
  Main,      \* stands for main among the bodies
  Programs   \* the programs the pass may be called with

ASSUME MainAssumption == Main \notin Names

Word_Kind == {"Intrinsic", "Integer", "Array", "Function"}

\* A program: the words of its table, their kinds and ids, the references of
\* main and of the function bodies in their order, and the ids of its strings.
\* A reference is a push or a call of a symbol: a string's or a word's id.
Reference == [string : BOOLEAN, id : Nat]
Program ==
  [words : SUBSET Names, kind : [Names -> Word_Kind], id : [Names -> Nat],
   refs : [Names \cup {Main} -> Seq(Reference)], strings : SUBSET Nat]

Functions(p) == {w \in p.words : p.kind[w] = "Function"}
Word_Ids(p, who) == {p.refs[who][k].id : k \in {n \in DOMAIN p.refs[who] : ~p.refs[who][n].string}}
String_Ids(p, who) == {p.refs[who][k].id : k \in {n \in DOMAIN p.refs[who] : p.refs[who][n].string}}

\* The parser resolves a symbol when it reads it: every id is some word's.
Resolved(p) ==
  \A who \in {Main} \cup Functions(p) :
    \A n \in Word_Ids(p, who) : \E w \in p.words : p.id[w] = n

ASSUME ProgramsAssumption == Programs \subseteq {p \in Program : Resolved(p)}

VARIABLES
  geninfo,       \* the program
  words,         \* the words still in the table
  strings,       \* the strings still in the table
  used_words,    \* ids
  used_strings,  \* ids
  frames,        \* the activations of the walk: whose body, and how much of it
  removed,       \* whether the last call removed something: its result
  pc             \* "walk" or "returned"

vars == <<geninfo, words, strings, used_words, used_strings, frames, removed, pc>>

Frame(who, pos) == [who |-> who, pos |-> pos]
Refs(who) == geninfo.refs[who]

\* A plausible slip: only functions are looked at.
Function_With_Id(id) == {w \in words : geninfo.id[w] = id /\ geninfo.kind[w] = "Function"}

\* find_if over the words in an order nobody specifies.
With_Id(id) == {w \in words : geninfo.id[w] = id}

Top == frames[Len(frames)]
Walking == pc = "walk" /\ frames # <<>>
At_End == Top.pos = Len(Refs(Top.who))
Ref == Refs(Top.who)[Top.pos + 1]
Advanced == [frames EXCEPT ![Len(frames)] = Frame(Top.who, Top.pos + 1)]

Init ==
  /\ geninfo \in Programs
  /\ words = geninfo.words
  /\ strings = geninfo.strings
  /\ used_words = {}
  /\ used_strings = {}
  /\ frames = <<Frame(Main, 0)>>
  /\ removed = FALSE
  /\ pc = "walk"

Visit_String ==
  /\ Walking /\ ~At_End /\ Ref.string
  /\ used_strings' = used_strings \cup {Ref.id}
  /\ frames' = Advanced
  /\ UNCHANGED <<geninfo, words, strings, used_words, removed, pc>>

Visit_Known_Word ==
  /\ Walking /\ ~At_End /\ ~Ref.string /\ Ref.id \in used_words
  /\ frames' = Advanced
  /\ UNCHANGED <<geninfo, words, strings, used_words, used_strings, removed, pc>>

\* A plausible slip: the body of a word that is used is not walked.
Visit_New_Word_Only ==
  /\ Walking /\ ~At_End /\ ~Ref.string /\ Ref.id \notin used_words
  /\ used_words' = used_words \cup {Ref.id}
  /\ frames' = Advanced
  /\ UNCHANGED <<geninfo, words, strings, used_strings, removed, pc>>

\* The word is marked before its body is walked.
Visit_New_Word ==
  /\ Walking /\ ~At_End /\ ~Ref.string /\ Ref.id \notin used_words
  /\ used_words' = used_words \cup {Ref.id}
  /\ \E w \in With_Id(Ref.id) :
       frames' = IF geninfo.kind[w] = "Function" THEN Append(Advanced, Frame(w, 0))
                 ELSE Advanced
  /\ UNCHANGED <<geninfo, words, strings, used_strings, removed, pc>>

Leave_Body ==
  /\ Walking /\ At_End
  /\ frames' = SubSeq(frames, 1, Len(frames) - 1)
  /\ UNCHANGED <<geninfo, words, strings, used_words, used_strings, removed, pc>>

\* Plausible slips: arrays are not erased; what an earlier call erased is
\* counted again.
Erase_Functions ==
  /\ pc = "walk" /\ frames = <<>>
  /\ words' = {w \in words : geninfo.kind[w] = "Function" => geninfo.id[w] \in used_words}
  /\ strings' = strings \cap used_strings
  /\ removed' = (words' # words \/ strings' # strings)
  /\ pc' = "returned"
  /\ UNCHANGED <<geninfo, used_words, used_strings, frames>>
Erase_Counted_Again ==
  /\ pc = "walk" /\ frames = <<>>
  /\ words' = {w \in words : geninfo.kind[w] \in {"Function", "Array"} =>
                               geninfo.id[w] \in used_words}
  /\ strings' = strings \cap used_strings
  /\ removed' = (words' # geninfo.words \/ strings' # geninfo.strings)
  /\ pc' = "returned"
  /\ UNCHANGED <<geninfo, used_words, used_strings, frames>>

Erase_Unused ==
  /\ pc = "walk" /\ frames = <<>>
  /\ words' = {w \in words : geninfo.kind[w] \in {"Function", "Array"} =>
                               geninfo.id[w] \in used_words}
  /\ strings' = strings \cap used_strings
  /\ removed' = (words' # words \/ strings' # strings)
  /\ pc' = "returned"
  /\ UNCHANGED <<geninfo, used_words, used_strings, frames>>

\* optimize calls the pass again as long as it has removed something.
Call_Again ==
  /\ pc = "returned" /\ removed
  /\ used_words' = {}
  /\ used_strings' = {}
  /\ frames' = <<Frame(Main, 0)>>
  /\ pc' = "walk"
  /\ UNCHANGED <<geninfo, words, strings, removed>>

Next ==
  \/ Visit_String \/ Visit_Known_Word \/ Visit_New_Word \/ Leave_Body
  \/ Erase_Unused \/ Call_Again

Spec == Init /\ [][Next]_vars /\ WF_vars(Next)

-----------------------------------------------------------------------------
(* Properties.                                                              *)

TypeOK ==
  /\ geninfo \in Program
  /\ words \subseteq geninfo.words
  /\ strings \subseteq geninfo.strings
  /\ used_words \subseteq Nat
  /\ used_strings \subseteq Nat
  /\ frames \in Seq([who : Names \cup {Main}, pos : Nat])
  /\ \A k \in DOMAIN frames : frames[k].pos <= Len(Refs(frames[k].who))
  /\ removed \in BOOLEAN
  /\ pc \in {"walk", "returned"}

\* No function shares its id with another word: the first definition of the
\* program is not a function, or nothing but it is called.
Functions_Alone(p) ==
  \A w \in Functions(p) : \A v \in p.words : p.id[v] = p.id[w] => v = w

\* A set of ids that holds what main refers to, and what the functions it
\* holds refer to.
Closed(p, S) ==
  /\ Word_Ids(p, Main) \subseteq S
  /\ \A w \in Functions(p) : p.id[w] \in S => Word_Ids(p, w) \subseteq S

Kept_Bodies == {Main} \cup (Functions(geninfo) \cap words)

\* Whatever main and the functions kept refer to is kept: the assembly never
\* names a function, an array or a string that has been erased, and so the
\* assembler and the linker find every symbol.
NothingMissing ==
  \A who \in Kept_Bodies :
    /\ \A w \in geninfo.words : geninfo.id[w] \in Word_Ids(geninfo, who) => w \in words
    /\ String_Ids(geninfo, who) \cap geninfo.strings \subseteq strings

\* The same where no function shares its id with another word.
NothingUsedErased == Functions_Alone(geninfo) => NothingMissing

\* assert(word != std::cend(geninfo.words)): the walk finds a word for every
\* id it meets, in the calls that come after the first removal too, where no
\* function shares its id with another word.
WordFound ==
  Functions_Alone(geninfo) /\ Walking /\ ~At_End /\ ~Ref.string => With_Id(Ref.id) # {}

\* Nothing is kept without need: a function or an array that stays is in every
\* set of words that is closed under use, so a second call removes nothing.
OnlyReachableKept ==
  pc = "returned" =>
    \A S \in SUBSET {geninfo.id[w] : w \in geninfo.words} :
      Closed(geninfo, S) =>
        \A w \in words : geninfo.kind[w] \in {"Function", "Array"} => geninfo.id[w] \in S

\* The calls end: the walk does, on words that call themselves and each other
\* too, and a call that removes nothing comes.
CallsEnd == <>(pc = "returned" /\ ~removed)
=============================================================================
