------------------------------ MODULE Backend ------------------------------
(***************************************************************************)
(* What main does with the operations once they are typechecked: the       *)
(* optimizer rewrites them, and --control-flow then has the body of main   *)
(* or of a function drawn (ControlFlow), as the optimizer has left it.     *)
(***************************************************************************)
EXTENDS Optimizer

CONSTANT Steps  \* how many operations of a run are compared with the picture

VARIABLES
  drawn,  \* whose body is drawn
  node, pending, nodes, links,
  drawing  \* "none", "running", "done" or "fatal"

graphVars == <<drawn, node, pending, nodes, links, drawing>>
vars == <<optimizerVars, graphVars>>

Drawn_Body == IF drawn = No_Body THEN <<>> ELSE bodies[drawn]
Graph == INSTANCE ControlFlow WITH body <- Drawn_Body, i <- node, outcome <- drawing

Init ==
  /\ Init_Optimizer
  /\ drawn = No_Body
  /\ node = 0 /\ pending = <<>>
  /\ nodes = {} /\ links = {}
  /\ drawing = "none"

Optimize == optimize /\ UNCHANGED graphVars

\* --control-flow and --control-flow-function: main or a function that the
\* optimizer has kept, unless the file cannot be created or the word is not
\* known (any more) or is not a function.
Ask_For_Graph ==
  /\ pass = "done" /\ drawing = "none"
  /\ \/ \E who \in words \cup {Main} : drawn' = who /\ drawing' = "running"
     \/ drawn' = No_Body /\ drawing' = "fatal"
  /\ UNCHANGED <<optimizerVars, node, pending, nodes, links>>

Step_Graph == drawing = "running" /\ UNCHANGED <<optimizerVars, drawn>> /\ Graph!Next

Next == Optimize \/ Ask_For_Graph \/ Step_Graph

Spec == Init /\ [][Next]_vars /\ WF_vars(Next)

-----------------------------------------------------------------------------
(* Properties.                                                              *)

\* The operations that a run comes to, from the states m of the machine.
RECURSIVE Run(_, _)
Run(m, steps) ==
  IF steps = 0 \/ Top(m).how # "runs"
  THEN LET running == SelectSeq(m, LAMBDA s : s.how = "runs")
       IN <<>> \o [n \in DOMAIN running |-> running[n].ip]
  ELSE Run(Append(m, Step(Drawn_Body, Top(m), Calls)), steps - 1)

Shown(k) == k = Len(Drawn_Body) \/ At(Drawn_Body, k).kind \notin {"End", "Return"}

\* The picture shows what the generated code does: whenever the program goes
\* from one operation that is drawn to the next, by whatever jumps in between,
\* or to its end, the picture has both and a link from one to the other, unless
\* the optimizer has misread a block, and left jumps to nowhere.
GraphFollowsRuns ==
  drawing = "done" /\ ~misread =>
    \A r \in Randoms :
      LET run == SelectSeq(Run(<<Start(r)>>, Steps), Shown)
      IN \A n \in DOMAIN run :
           /\ run[n] \in nodes
           /\ n > 1 => [from |-> run[n - 1], to |-> run[n]] \in links

\* A loop without operations, which the optimizer makes of `while 1 do end`.
Empty_Loop(b) == \E k \in 0 .. Len(b) - 1 : At(b, k).kind = "End" /\ At(b, k).jump = k

\* "link_next will link past return and end jumps since they are
\* unconditional": the search for the operation past them comes to an end, and
\* so does the picture, unless the body has a loop without operations.
GraphEnds == (drawing = "running" /\ ~Empty_Loop(Drawn_Body)) ~> (drawing = "done")
=============================================================================
