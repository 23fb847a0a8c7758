----------------------------- MODULE MCBackend -----------------------------
(* Small programs for the optimizer and the picture of what it leaves:     *)
(* conditions known from the start or decided by folding, functions that   *)
(* only an erased branch calls, stretches of integers in and around        *)
(* blocks, every folded intrinsic, and nested blocks.                      *)
EXTENDS Backend, SequencesExt

CONSTANTS
  Family,     \* which programs
  Max_Length  \* of the stretches of integers

Integer == [s \in {"0", "1", "3", "6", "9", "15"} |->
  CASE s = "0" -> 0 [] s = "1" -> 1 [] s = "3" -> 3 [] s = "6" -> 6 [] s = "9" -> 9 [] OTHER -> 15]

Symbol(s) ==
  CASE s \in DOMAIN Integer -> <<"Push_Int", Integer[s]>>
    [] s = "?" -> <<"Intrinsic", "Random32">>
    [] s \in {"a", "b", "c", "d", "e", "f", "g"} -> <<"Call_Symbol", s>>
    [] s \in Emitted_Math \cup Shuffles -> <<"Intrinsic", s>>
    [] OTHER -> <<s, s>>
Code(syms) == Linked(<<>> \o [k \in DOMAIN syms |-> Symbol(syms[k])])

If(c, t, e) == c \o <<"If">> \o t \o <<"Else">> \o e \o <<"End">>
If_Only(c, t) == c \o <<"If">> \o t \o <<"End">>
Loop(c, t) == <<"While">> \o c \o <<"Do">> \o t \o <<"End">>

MC_Names == {"f", "g"}

-----------------------------------------------------------------------------
(* Work that one pass makes for the others.                                 *)

\* Conditions: an integer, one that folding gives, a word to drop before one,
\* one that two rounds of folding are needed for, and one for the run.
Conds == {<<"0">>, <<"1", "0", "Less">>, <<"1", "1", "Equal">>, <<"1", "Dup", "Subtract">>,
          <<"0", "1", "Two_Dup", "Less">>, <<"?">>}
Parts == {<<"f">>, <<"1", "1", "Add">>, <<"a", "1", "Drop">>, <<"1", "f", "1", "Add">>}
Calling ==
  {x \o If(c, t, e) \o <<"1", "Add">> : x \in {<<>>, <<"1">>}, c \in Conds, t \in Parts, e \in Parts}
  \cup {Loop(c, t) \o <<"a">> : c \in Conds, t \in Parts}
Functions_F == {<<"g">>, <<"1", "f">> \o If(<<"1", "0", "Subtract">>, <<"a">>, <<"g">>)}

-----------------------------------------------------------------------------
(* Known conditions.                                                        *)

Integers01 == {<<"0">>, <<"1">>}
Bits == {<<>>, <<"a">>, <<"?">>, <<"b", "a">>}

\* Blocks whose condition only the run decides.
Unknown == {If(<<"?">>, <<"c">>, <<"d">>), If_Only(<<"?">>, <<"c">>), Loop(<<"?">>, <<"c">>)}

\* An `if` or a loop with blocks before it, in it and after it.
Known_Blocks ==
  {x \o If(c, t, e) \o z : c \in Integers01,
     x \in Bits \cup Unknown, t \in Bits \cup Unknown, e \in Bits, z \in {<<>>, <<"a">>}}
  \cup {x \o If(<<"1">>, If(c, t, <<"d">>), <<"e">>) \o z :
          x \in Bits, c \in Integers01, t \in Bits, z \in Bits}
  \cup {x \o Loop(d \o c, t) \o z :
          c \in Integers01, x \in Bits, d \in Bits, t \in Bits, z \in Bits}

\* An `if` without an else-branch.
Ifs_Without_Else(c) == {x \o If_Only(c, t) \o z : x \in Bits, t \in Bits, z \in Bits}

\* A block in the else-branch, in the condition of a loop, right after an `if`,
\* before and after a loop, and around them.
Crowded_Blocks ==
  {If(c, t, u) \o z : c \in Integers01, t \in Bits, u \in Unknown, z \in Bits}
  \cup {If(c, t, <<"b">>) \o z \o u : c \in Integers01, t \in Bits, u \in Unknown, z \in Bits}
  \cup {x \o Loop(d \o u \o c, t) : c \in Integers01, x \in Bits, u \in Unknown, t \in Bits,
          d \in {<<>>, <<"a">>}}
  \cup {u \o x \o Loop(c, t) \o z : c \in Integers01, x \in Bits, u \in Unknown, t \in Bits, z \in Bits}
  \cup {Loop(c, t) \o z \o u : c \in Integers01, u \in Unknown, t \in Bits, z \in Bits}
  \cup {If(<<"?">>, x \o b, e) : x \in {<<>>, <<"a">>}, e \in Bits,
          b \in {Loop(c, <<"b">>) : c \in Integers01} \cup {If(c, <<"b">>, <<"a">>) : c \in Integers01}}

-----------------------------------------------------------------------------
(* Stretches of integers.                                                   *)

\* One intrinsic, and two in a row.
Straight_Bodies ==
  {x \o <<o>> : x \in SeqOf({"0", "1", "6", "9", "15", "?"}, Max_Length),
                o \in Emitted_Math \cup Shuffles}
  \cup {x \o <<o, "a", p>> : x \in SeqOf({"1", "15", "?"}, Max_Length),
                        o \in Shuffles \cup {"Add"}, p \in Shuffles \cup {"Subtract"}}

\* Stretches that grow, shrink and vanish, before, in, between and after the
\* parts of a block.
Stretches == {<<>>, <<"1">>, <<"3", "1", "Add">>, <<"1", "3", "Two_Dup">>, <<"1", "Drop">>}
Block_Bodies ==
  {v \o <<"?", "If">> \o w \o <<"a", "Else">> \o x \o <<"b", "End">> \o y :
     v \in Stretches, w \in Stretches, x \in Stretches, y \in Stretches}
  \cup {v \o <<"While">> \o w \o <<"?", "Do">> \o x \o <<"a", "End">> \o y \o <<"b">> :
          v \in Stretches, w \in Stretches, x \in Stretches, y \in Stretches}

-----------------------------------------------------------------------------
(* Bodies to draw: nested blocks, and infinite loops.                       *)

Leaves == {<<>>, <<"a">>, <<"b", "Return">>}
Blocks == Leaves \cup {If(<<"?">>, t, e) : t \in Leaves, e \in Leaves}
          \cup {If_Only(<<"?">>, t) : t \in Leaves} \cup {Loop(<<"?">>, t) : t \in Leaves}
Nested_Blocks ==
  {x \o If(<<"?">>, t, e) \o <<"a">> : x \in Leaves \cup Unknown, t \in Blocks, e \in Leaves}
  \cup {x \o b \o z : x \in Leaves, z \in Leaves,
          b \in {Loop(<<"?">>, t) : t \in Blocks} \cup {If_Only(<<"?">>, t) : t \in Blocks}}

-----------------------------------------------------------------------------
Program(m, f) ==
  [w \in MC_Names \cup {Main} |->
     IF w = Main THEN Code(m) ELSE IF w = "f" THEN Code(f) ELSE Code(<<"a">>)]

Alone ==
  CASE Family = "all" ->
         UNION {Ifs_Without_Else(c) : c \in Integers01} \cup Known_Blocks \cup Crowded_Blocks
         \cup Straight_Bodies \cup Block_Bodies \cup Nested_Blocks
    [] Family = "without_else" -> Ifs_Without_Else(<<"1">>)

MC_Programs ==
  {Program(m, <<"g">>) : m \in Alone}
  \cup IF Family = "all" THEN {Program(m, f) : m \in Calling, f \in Functions_F} ELSE {}

MC_Randoms == {<<>>, <<1>>, <<9, 1>>, <<0, 3, 2>>, <<1, 0, 1>>}
=============================================================================
