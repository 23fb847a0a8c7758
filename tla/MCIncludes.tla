----------------------------- MODULE MCIncludes -----------------------------
(* Small projects: a source file in cwd, a file of the same name in cwd and *)
(* in lib, a file in lib that a link in cwd leads to, and one that is gone. *)
EXTENDS Includes, SequencesExt

CONSTANT Keyword_Set  \* the keywords the files use

CWD_Main == <<"cwd", "main.stacky">>
CWD_A == <<"cwd", "a.stacky">>
LIB_A == <<"lib", "a.stacky">>
LIB_B == <<"lib", "b.stacky">>
CWD_B == <<"cwd", "b.stacky">>
LIB_Bad == <<"lib", "bad.stacky">>
MC_Files == {CWD_Main, CWD_A, LIB_A, LIB_B, CWD_B, LIB_Bad}

MC_Source == CWD_Main
MC_Search == <<"lib">>
MC_Broken == {LIB_Bad}
MC_Short == {CWD_A, CWD_B}
MC_Canonical == [f \in MC_Files |-> IF f = CWD_B THEN LIB_B ELSE f]
MC_Extension == [n \in {"main", "a", "b", "bad", "gone"} |->
                   CASE n = "main" -> "main.stacky" [] n = "a" -> "a.stacky"
                     [] n = "b" -> "b.stacky" [] n = "bad" -> "bad.stacky"
                     [] n = "gone" -> "gone.stacky"]

\* `"name" keyword`
Uses(names, locals) ==
  {<<Tok("String", Path(l, IF k = "Include" THEN MC_Extension[n] ELSE n)), Tok(k, "")>> :
     n \in names, l \in locals, k \in Keyword_Set}
Text(w) == <<Tok("Word", w)>>

MC_Projects ==
  LET Mains == {FlattenSeq(s) :
                  s \in SeqOf(Uses({"a", "b"}, BOOLEAN) \cup {Text("m")}, 2)}
               \cup {u \o Text("m") : u \in Uses({"bad", "gone", "main"}, {TRUE})}
               \cup {<<Tok(k, "")>> : k \in Keyword_Set}
      As == {<<>>, Text("a")} \cup {Text("a") \o u : u \in Uses({"b", "main"}, BOOLEAN)}
      Bs == {Text("b")} \cup {u \o Text("b") : u \in Uses({"a"}, BOOLEAN)}
  IN {[f \in MC_Files |->
         CASE f = CWD_Main -> m [] f = CWD_A -> a [] f = LIB_A -> Text("x")
           [] f \in {LIB_B, CWD_B} -> b [] f = LIB_Bad -> <<>>] :
        m \in Mains, a \in As, b \in Bs}
=============================================================================
