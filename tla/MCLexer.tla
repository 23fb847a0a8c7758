------------------------------ MODULE MCLexer ------------------------------
(* Every short file of the characters that lay a file out, and the texts   *)
(* that are numbers, or nearly, in every base.                             *)
EXTENDS Lexer, SequencesExt

CONSTANTS Max_Layout, Max_Number

Layout_Files == SeqOf(Space \cup Quote \cup {"#", "backslash", "w"}, Max_Layout)

Number_Prefixes == {<<>>, <<"0", "b">>, <<"0", "s">>, <<"0", "o">>, <<"0", "x">>, <<"&">>}
Endings == {<<>>, <<"u", "8">>, <<"i", "1", "6">>, <<"u", "3", "2">>, <<"u", "6", "4">>,
             <<"u", "9">>, <<"i", "1", "8">>, <<"z">>}
Number_Files ==
  {p \o d \o x : p \in Number_Prefixes, d \in SeqOf({"0", "1", "9", "_"}, Max_Number), x \in Endings}

MC_Files == Layout_Files \cup Number_Files
MC_Keywords == {<<"u", "8">>, <<"i", "1", "6">>, <<"u", "3", "2">>, <<"u", "6", "4">>}
MC_Max_Digits == [b \in Bases |-> CASE b = 2 -> 4 [] b = 6 -> 2 [] b = 8 -> 2 [] b = 10 -> 2 [] b = 16 -> 1]
=============================================================================
