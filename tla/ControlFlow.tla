---------------------------- MODULE ControlFlow ----------------------------
(***************************************************************************)
(* generate_control_flow_graph (debug.cc): the picture of a body that      *)
(* --control-flow asks for.  Every operation but End and Return is a node, *)
(* the end of the body is another, and a link that would lead to an End    *)
(* follows its jump to the first operation that is drawn.                  *)
(***************************************************************************)
EXTENDS Machine

VARIABLES
  body,     \* function_body
  i,        \* the loop variable
  pending,  \* the calls of link_next the operation before i has still to make
  nodes,    \* drawn so far
  links,    \* written so far
  outcome   \* "running" or "done"

Link(from, to) == [from |-> from, to |-> to]

\* A plausible slip: an `else` is linked with the operation after it.
Links_Of_Fallthrough(k) ==
  IF At(body, k).kind \in {"If", "Do"} THEN <<Link(k, k + 1), Link(k, At(body, k).jump)>>
  ELSE IF At(body, k).kind \in {"End", "Return"} THEN <<>>
  ELSE <<Link(k, k + 1)>>

\* The links an operation asks for.
Links_Of(k) ==
  LET op == At(body, k)
  IN CASE op.kind \in {"If", "Do"} -> <<Link(k, k + 1), Link(k, op.jump)>>
       [] op.kind = "Else" -> <<Link(k, op.jump)>>
       [] op.kind \in {"End", "Return"} -> <<>>
       [] OTHER -> <<Link(k, k + 1)>>

Draw_Node ==
  /\ outcome = "running" /\ pending = <<>> /\ i < Len(body)
  /\ pending' = Links_Of(i)
  /\ nodes' = IF At(body, i).kind \in {"End", "Return"} THEN nodes ELSE nodes \cup {i}
  /\ i' = i + 1
  /\ UNCHANGED <<body, links, outcome>>

To == Head(pending).to
To_Kind == IF To < Len(body) THEN At(body, To).kind ELSE "None"

\* A plausible slip: the jump back of a loop is not followed.
Follow_End_Forward ==
  /\ outcome = "running" /\ pending # <<>> /\ To_Kind = "End"
  /\ pending' = [pending EXCEPT ![1].to = IF At(body, To).jump > To THEN At(body, To).jump ELSE To]
  /\ UNCHANGED <<body, i, nodes, links, outcome>>

Follow_End ==
  /\ outcome = "running" /\ pending # <<>> /\ To_Kind = "End"
  /\ pending' = [pending EXCEPT ![1].to = At(body, To).jump]
  /\ UNCHANGED <<body, i, nodes, links, outcome>>

\* A Return is the end of the body; a target past the body is written as it is.
Write_Link ==
  /\ outcome = "running" /\ pending # <<>> /\ To_Kind # "End"
  /\ links' = links \cup {Link(Head(pending).from, IF To_Kind = "Return" THEN Len(body) ELSE To)}
  /\ pending' = Tail(pending)
  /\ UNCHANGED <<body, i, nodes, outcome>>

Draw_Return ==
  /\ outcome = "running" /\ pending = <<>> /\ i = Len(body)
  /\ nodes' = nodes \cup {Len(body)}
  /\ outcome' = "done"
  /\ UNCHANGED <<body, i, pending, links>>

Next == Draw_Node \/ Follow_End \/ Write_Link \/ Draw_Return
=============================================================================
