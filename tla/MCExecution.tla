----------------------------- MODULE MCExecution -----------------------------
(* Small programs for the typechecker and for the machine that runs them. *)
EXTENDS Execution, SequencesExt

\* The lengths of the bodies, or operands, enumerated in each family.
CONSTANTS Max_Control, Max_Operands, Max_Function

Control == {"If", "Else", "While", "Do", "End", "Return"}

Kind_Of(sym) ==
  CASE sym \in Control -> sym
    [] sym \in {"Int", "Bool"} -> "Push_Int"
    [] sym = "Pointer" -> "Push_Symbol"
    [] sym \in {"f", "g"} -> "Call_Symbol"
    [] sym = "as_any" -> "Cast"
    [] OTHER -> "Intrinsic"

\* The operations of a body, linked as crossreference links them.  (Joining
\* with <<>> makes TLC compute the sequence once.)
Compile(syms) ==
  LET kinds == <<>> \o [n \in 1 .. Len(syms) |-> Kind_Of(syms[n])]
  IN <<>> \o [n \in 1 .. Len(syms) |->
        Operation(kinds[n], IF syms[n] = "as_any" THEN "Any" ELSE syms[n],
                  Block_Jump(kinds, n - 1))]

Word(syms, effect) ==
  [body |-> Compile(syms), dynamic |-> FALSE, has_effect |-> TRUE, effect |-> effect]
Untyped(syms, is_dynamic) ==
  [body |-> Compile(syms), dynamic |-> is_dynamic, has_effect |-> FALSE,
   effect |-> Effect(<<>>, <<>>)]

No_Words == [w \in {} |-> <<>>]

\* Every well formed body: its shape, with any atoms in the open places.
Small_Bodies(atoms, max) ==
  LET Shapes == {s \in SeqOf({"", "If", "Else", "While", "Do", "End"}, max) :
                   Well_Formed(s)}
      Places(s) == {n \in 1 .. Len(s) : s[n] = ""}
  IN UNION {{[n \in 1 .. Len(s) |-> IF n \in Places(s) THEN a[n] ELSE s[n]] :
               a \in [Places(s) -> atoms]} : s \in Shapes}

\* Every control flow: main alone, over all small bodies and some with blocks
\* inside loops.
Control_Programs ==
  LET Loop(cond, body) == <<"While">> \o cond \o <<"Do">> \o body \o <<"End">>
      Bits == {<<>>, <<"Int", "Drop">>, <<"Drop", "Int">>, <<"Int">>, <<"Return">>}
      If(then, else) == <<"Bool", "If">> \o then \o <<"Else">> \o else \o <<"End">>
      Nested == {<<"Int">> \o Loop(<<"Bool">>, a \o Loop(<<"Bool">>, b) \o c) \o <<"Drop">> :
                   a \in Bits, b \in Bits, c \in Bits}
                \cup {<<"Int">> \o Loop(If(<<"Bool">> \o a, b \o <<"Bool">>), c) \o <<"Drop">> :
                        a \in Bits, b \in Bits, c \in Bits}
  IN [main : {Compile(b) : b \in Nested \cup Small_Bodies({"Int", "Bool", "Drop"}, Max_Control)},
      words : {No_Words}]

\* Every intrinsic on every choice of operands: f wraps it, and declares what
\* the typechecker itself infers.
Intrinsic_Programs ==
  LET Intrinsics ==
        Arithmetic \cup Comparisons \cup {"Syscall0", "Syscall1", "Syscall3"}
        \cup {"Drop", "Two_Drop", "Add", "Subtract", "Boolean_Negate", "Boolean_And",
              "Boolean_Or", "Div_Mod", "Dup", "Two_Dup", "Over", "Two_Over", "Swap",
              "Two_Swap", "Tuck", "Rot", "Argv", "Argc", "Random32", "Random64",
              "Load", "Store", "Top"}
      Out(intr, in) == IF Has_Match(in, Intrinsic_Effects(intr))
                       THEN Apply_First(in, Intrinsic_Effects(intr)) ELSE <<>>
      Drops(n) == [k \in 1 .. n |-> "Drop"]
  IN {[main |-> Compile(<<"Pointer">> \o in \o <<"f">> \o Drops(Len(Out(intr, in)) + 1)),
       words |-> [w \in {"f"} |-> Word(<<intr>>, Effect(in, Out(intr, in)))]] :
        intr \in Intrinsics, in \in SeqOf({"Int", "Bool", "Pointer"}, Max_Operands)}

\* Every small function f, under every kind of signature, called in several
\* ways; g calls f in turn.
Call_Programs ==
  LET Mains == {<<"f">>, <<"f", "Drop">>, <<"Int", "f", "Drop">>,
                <<"Int", "f", "Drop", "Drop">>, <<"Bool", "If", "Int", "Else", "f", "End", "Drop">>}
      Types1 == SeqOf({"Int", "Any"}, 1)
      Signatures == {Untyped(<<>>, TRUE), Untyped(<<>>, FALSE)}
                    \cup {Word(<<>>, Effect(i, o)) : i \in Types1, o \in Types1}
      Longer == {<<"Bool", "If", "Return", "End">>,
                 <<"Bool", "If", "Return", "End", "f">>,
                 <<"Bool", "If", "Drop", "Int", "Return", "End", "Bool", "Drop">>,
                 <<"Bool", "If", "f", "Else", "Drop", "Int", "End">>,
                 <<"While", "Bool", "Do", "Return", "End">>,
                 <<"While", "Bool", "Do", "f", "Drop", "End", "Int">>,
                 <<"While", "Bool", "Do", "Bool", "If", "f", "End", "End">>}
      Fs == {[sig EXCEPT !.body = Compile(b)] : sig \in Signatures,
               b \in Longer \cup Small_Bodies({"Int", "Bool", "Drop", "f", "Return"}, Max_Function)}
      Gs == {Untyped(<<"f">>, TRUE), Word(<<"f", "as_any">>, Effect(<<"Int">>, <<"Int">>))}
  IN [main : {Compile(m) : m \in Mains}, words : {[w \in {"f"} |-> f] : f \in Fs}]
     \cup [main : {Compile(<<"Int", "g", "Drop">>)},
           words : {[w \in {"f", "g"} |-> IF w = "f" THEN f ELSE g] : g \in Gs, f \in Fs}]

\* What only an unlinked body or the unimplemented `call` reaches.
Odd_Programs ==
  {[main |-> <<Operation("Push_Int", "Bool", Empty_Jump), Operation(k, k, Empty_Jump)>>,
    words |-> No_Words] : k \in Jumping_Kind}
  \cup {[main |-> Compile(<<"Pointer", "Call">>), words |-> No_Words]}

MC_Programs ==
  Control_Programs \cup Call_Programs \cup (Intrinsic_Programs \cup Odd_Programs)
=============================================================================
