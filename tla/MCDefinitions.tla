--------------------------- MODULE MCDefinitions ---------------------------
(* Small programs for the parser: every short sequence of tokens, and      *)
(* nested programs built from their grammar.                               *)
EXTENDS Definitions, SequencesExt

CONSTANT Max_Tokens  \* of the arbitrary sequences

MC_Names == {"f", "g", "h", "v", "dup"}
MC_Intrinsics == {"dup"}
MC_Anonymous == <<"&0", "&1", "&2", "&3", "&4", "&5">>

Symbol(s) ==
  LET T(kind) == [kind |-> kind, text |-> s]
  IN CASE s \in MC_Names -> T("Word")
       [] s = "5" -> T("Integer")
       [] s = "&f" -> [kind |-> "Address_Of", text |-> "f"]
       [] s = "fun" -> T("Function")
       [] s = "&fun" -> T("Lambda")
       [] OTHER -> T(s)
Code(syms) == <<>> \o [k \in DOMAIN syms |-> Symbol(syms[k])]

Any_Tokens == SeqOf({"f", "5", "fun", "&fun", "End", "If", "Constant"}, Max_Tokens)
       \cup SeqOf({"f", "&f", "fun", "End", "If", "Array"}, Max_Tokens)
Effects == {<<"f", "fun">> \o s \o <<"5", "End">> :
              s \in SeqOf({"Typename", "Divider", "Effect", "Dynamic", "5"}, 4)}

\* Blocks, functions and definitions in each other; every name defined once.
Fun(name, code) == <<name, "fun">> \o code \o <<"End">>
Lambda(code) == <<"&fun">> \o code \o <<"End">>
If_Else(t, e) == <<"Bool", "If">> \o t \o <<"Else">> \o e \o <<"End">>
Loop(c, t) == <<"While">> \o c \o <<"Do">> \o t \o <<"End">>
Leaves == {<<>>, <<"5">>, <<"h", "String">>}
Level1 == Leaves \cup {If_Else(a, b) : a \in Leaves, b \in Leaves}
          \cup {Lambda(a) \o <<"dup">> : a \in Leaves} \cup {Loop(a, b) : a \in Leaves, b \in Leaves}
          \cup {Fun("g", b) \o a : a \in Leaves, b \in Leaves}
Level2 == {a \o Fun("f", <<"Typename", "Divider", "Effect">> \o b) \o c : a \in Leaves, b \in Level1, c \in Leaves}
          \cup {If_Else(a, b) \o <<"v", "5", "Array", "v">> : a \in Level1, b \in Leaves}
          \cup {a \o Lambda(b) \o Lambda(c) : a \in Leaves, b \in Level1, c \in Leaves}
          \cup {Loop(a, b) \o <<"Return">> : a \in Leaves, b \in Level1}
Nested == {Fun("h", a) \o b : a \in Leaves \ {<<"h", "String">>}, b \in Level2}

MC_Sources == {Code(s) : s \in Any_Tokens \cup Effects \cup Nested}
=============================================================================
