--------------------------- MODULE MCUnusedWords ---------------------------
(* Small programs for the removal of unused words: two functions, an array *)
(* and an intrinsic, defined in some order, that refer to each other in    *)
(* every way.                                                              *)
EXTENDS UnusedWords, SequencesExt

CONSTANTS
  Orders,      \* the orders of definition, each the ids of f, g and v
  Max_Length   \* of a function's references

MC_Names == {"f", "g", "v", "dup"}

MC_Kind == [w \in MC_Names |->
  IF w \in {"f", "g"} THEN "Function" ELSE IF w = "v" THEN "Array" ELSE "Intrinsic"]

\* register_intrinsic leaves the id of an intrinsic 0.
MC_Id(order) == [w \in MC_Names |->
  CASE w = "f" -> order[1] [] w = "g" -> order[2] [] w = "v" -> order[3] [] OTHER -> 0]

\* A reference to a word, or to the text "t".
To(order, s) ==
  IF s = "t" THEN [string |-> TRUE, id |-> 0] ELSE [string |-> FALSE, id |-> MC_Id(order)[s]]
All(order, syms) == <<>> \o [k \in DOMAIN syms |-> To(order, syms[k])]

MC_Programs ==
  {[words |-> MC_Names, kind |-> MC_Kind, id |-> MC_Id(o), strings |-> {0},
    refs |-> [w \in MC_Names \cup {Main} |->
      CASE w = Main -> All(o, m) [] w = "f" -> All(o, f) [] w = "g" -> All(o, g)
        [] OTHER -> <<>>]] :
     o \in Orders, m \in SeqOf({"f", "g"}, 2), f \in SeqOf({"f", "g", "v", "t"}, Max_Length),
     g \in SeqOf({"f", "g", "v", "t"}, 1)}

\* The array is defined first: a function that is shares its id with the
\* intrinsics, and the properties say nothing of such a program.
Array_First == {<<1, 2, 0>>, <<2, 1, 0>>}
=============================================================================
