------------------------------ MODULE Typecheck ------------------------------
(***************************************************************************)
(* The typechecker (types.cc, and its driver in main): a depth first walk  *)
(* over the control flow of a body that carries a typestack along.  The    *)
(* paths still to walk are a vector used as a stack; a loop is entered     *)
(* once, and every later arrival at its `do` must bring the same types.  A *)
(* call of a dynamically typed function walks that function's body in a    *)
(* nested call of typecheck: frames is the stack of these calls.           *)
(***************************************************************************)
EXTENDS Operations, Types

CONSTANTS
  Programs,   \* the programs: [main |-> body, words |-> [names -> words]]
  Max_Frames  \* nested calls of typecheck the host stack has room for

ASSUME MaxFramesAssumption == Max_Frames \in Nat \ {0}

\* A body as the parser leaves it: crossreference has put the jumps into the
\* body or just past it, and what is called is a word of the program.
Is_Body(body, names) ==
  /\ body \in Seq([kind : Operation_Kind, arg : STRING,
                   jump : 0 .. Len(body) \cup {Empty_Jump}])
  /\ \A n \in 1 .. Len(body) :
       /\ body[n].kind = "Push_Int" => body[n].arg \in {"Int", "Bool"}
       /\ body[n].kind = "Cast" => body[n].arg \in Type
       /\ body[n].kind = "Intrinsic" => body[n].arg \in Intrinsic_Kind
       /\ body[n].kind = "Call_Symbol" => body[n].arg \in names

ASSUME ProgramsAssumption ==
  \A p \in Programs :
    /\ "main" \notin DOMAIN p.words
    /\ Is_Body(p.main, DOMAIN p.words)
    /\ \A w \in DOMAIN p.words :
         /\ Is_Body(p.words[w].body, DOMAIN p.words)
         /\ p.words[w].dynamic \in BOOLEAN /\ p.words[w].has_effect \in BOOLEAN
         /\ p.words[w].effect.input \in Seq(Type) /\ p.words[w].effect.output \in Seq(Type)

VARIABLES
  prog,     \* the program
  pending,  \* the words main still has to typecheck; "main" comes last
  frames,   \* the calls of typecheck, outermost first
  status    \* "checking"; "accepted": main went through; "rejected": exit(1) with
            \* a message; "assert": exit(1) in one; "crashed": outside a vector
            \* is read; "exhausted": the host stack

checkerVars == <<prog, pending, frames, status>>

\* An operation: arg is the type of a Push_Int or a Cast, the intrinsic, or
\* the name of the word called.
Operation(kind, arg, jump) == [kind |-> kind, arg |-> arg, jump |-> jump]

\* The words main typechecks on their own: the others are dynamically typed,
\* or have no effect and are skipped with a warning.
Checked_Words(p) ==
  {w \in DOMAIN p.words : p.words[w].has_effect /\ ~p.words[w].dynamic}

Body(w) == IF w = "main" THEN prog.main ELSE prog.words[w].body

State(stack, ip) == [stack |-> stack, ip |-> ip]

\* One call of typecheck.  known: the outputs to verify are known, as they are
\* from the start except for a dynamically typed function.
Frame(word, input, known, output) ==
  [word |-> word, states |-> <<State(input, 0)>>, visited |-> <<>>,
   known |-> known, output |-> output]

Init_Checker ==
  /\ prog \in Programs
  /\ pending = Checked_Words(prog) \cup {"main"}
  /\ frames = <<>>
  /\ status = "checking"

-----------------------------------------------------------------------------

Current == Top(frames)
S == Top(Current.states)                 \* the path being walked
Ops == Body(Current.word)
Op == At(Ops, S.ip)
At_End == IF S.ip >= Len(Ops) THEN TRUE ELSE Op.kind = "Return"

\* The effects an operation is checked against.
Effects ==
  CASE Op.kind = "Cast" -> <<Effect(<<"Any">>, <<Op.arg>>)>>
    [] Op.kind \in {"If", "Do"} -> <<Effect(<<"Bool">>, <<>>)>>
    [] Op.kind = "Call_Symbol" -> <<prog.words[Op.arg].effect>>
    [] Op.kind = "Intrinsic" -> Intrinsic_Effects(Op.arg)

Has_Effects ==
  CASE Op.kind = "Call_Symbol" ->
         ~prog.words[Op.arg].dynamic /\ prog.words[Op.arg].has_effect
    [] Op.kind = "Intrinsic" -> Op.arg # "Call"
    [] OTHER -> Op.kind \in {"Cast", "If", "Do"}

Walking == status = "checking" /\ frames # <<>> /\ Current.states # <<>>
Visit(kinds) == Walking /\ ~At_End /\ Op.kind \in kinds

Stop(how) == status' = how /\ UNCHANGED <<prog, pending, frames>>

\* Replace the states of the current call.
Set_States(states) ==
  /\ frames' = [frames EXCEPT ![Len(frames)].states = states]
  /\ UNCHANGED <<prog, pending, status>>

Goto(stack, ip) == Set_States(Append(Pop(Current.states), State(stack, ip)))

\* The loop over the words in main: an unordered_map, then main itself.
Typecheck_Word ==
  /\ status = "checking" /\ frames = <<>>
  /\ \E w \in pending :
       /\ w = "main" => pending = {"main"}
       /\ pending' = pending \ {w}
       /\ frames' = <<IF w = "main" THEN Frame(w, <<>>, TRUE, <<>>)
                      ELSE Frame(w, prog.words[w].effect.input, TRUE,
                                 prog.words[w].effect.output)>>
  /\ UNCHANGED <<prog, status>>

Push_Value ==
  /\ Visit({"Push_Int", "Push_Symbol"})
  /\ Goto(Append(S.stack, IF Op.kind = "Push_Int" THEN Op.arg ELSE "Pointer"), S.ip + 1)

Apply_Effect ==
  /\ Visit({"Cast", "Intrinsic", "Call_Symbol"})
  /\ Has_Effects
  /\ Has_Match(S.stack, Effects)
  /\ Goto(Apply_First(S.stack, Effects), S.ip + 1)

Reject_Effect ==
  /\ Visit(Operation_Kind)
  /\ Has_Effects
  /\ ~Has_Match(S.stack, Effects)
  /\ \E how \in Mismatch_Outcomes(S.stack, Effects) : Stop(how)

\* A plausible slip: any value will do as a condition.
Check_If_Untyped ==
  /\ Visit({"If"})
  /\ S.stack # <<>>
  /\ Op.jump # Empty_Jump
  /\ LET stack == Pop(S.stack)
     IN Set_States(Pop(Current.states)
                   \o <<State(stack, S.ip + 1), State(stack, Op.jump)>>)

\* Walk on into the then-branch later: the else-branch is now on top.
Check_If ==
  /\ Visit({"If"})
  /\ Has_Match(S.stack, Effects)
  /\ Op.jump # Empty_Jump
  /\ LET stack == Apply_First(S.stack, Effects)
     IN Set_States(Pop(Current.states)
                   \o <<State(stack, S.ip + 1), State(stack, Op.jump)>>)

Follow_Jump == Visit({"Else", "End"}) /\ Op.jump # Empty_Jump /\ Goto(S.stack, Op.jump)

\* assert(op.jump != Empty_Jump): the body was not linked.
Unlinked ==
  /\ Visit(Jumping_Kind)
  /\ Op.jump = Empty_Jump
  /\ Op.kind \in {"If", "Do"} => Has_Match(S.stack, Effects)
  /\ Op.kind = "Do" => S.ip \notin DOMAIN Current.visited
  /\ Stop("assert")

Check_While == Visit({"While"}) /\ Goto(S.stack, S.ip + 1)

\* First arrival at a `do`: remember the types, walk the body of the loop and
\* leave the way out of the loop for later.
First_Do ==
  /\ Visit({"Do"})
  /\ Has_Match(S.stack, Effects)
  /\ S.ip \notin DOMAIN Current.visited
  /\ Op.jump # Empty_Jump
  /\ LET stack == Apply_First(S.stack, Effects)
         ips == DOMAIN Current.visited \cup {S.ip}
     IN frames' = [frames EXCEPT
          ![Len(frames)].states =
             Pop(Current.states) \o <<State(stack, Op.jump), State(stack, S.ip + 1)>>,
          ![Len(frames)].visited =
             [ip \in ips |-> IF ip = S.ip THEN stack ELSE Current.visited[ip]]]
  /\ UNCHANGED <<prog, pending, status>>

\* A plausible slip: the types brought back to the `do` are not compared.
Do_Again_Unchecked ==
  /\ Visit({"Do"})
  /\ Has_Match(S.stack, Effects)
  /\ S.ip \in DOMAIN Current.visited
  /\ Set_States(Pop(Current.states))

\* A plausible slip: the walk goes round the loop again.
Do_Again_Walks_On ==
  /\ Visit({"Do"})
  /\ Has_Match(S.stack, Effects)
  /\ S.ip \in DOMAIN Current.visited
  /\ Same_Stack(Apply_First(S.stack, Effects), Current.visited[S.ip])
  /\ Goto(Apply_First(S.stack, Effects), S.ip + 1)

\* Any later arrival: the same types, and the path ends here.
Do_Again ==
  /\ Visit({"Do"})
  /\ Has_Match(S.stack, Effects)
  /\ S.ip \in DOMAIN Current.visited
  /\ Same_Stack(Apply_First(S.stack, Effects), Current.visited[S.ip])
  /\ Set_States(Pop(Current.states))

Loop_Differs ==
  /\ Visit({"Do"})
  /\ Has_Match(S.stack, Effects)
  /\ S.ip \in DOMAIN Current.visited
  /\ ~Same_Stack(Apply_First(S.stack, Effects), Current.visited[S.ip])
  /\ Stop("rejected")

Call_Dynamic ==
  /\ Visit({"Call_Symbol"})
  /\ prog.words[Op.arg].dynamic
  /\ Len(frames) < Max_Frames
  /\ frames' = Append(frames, Frame(Op.arg, S.stack, FALSE, <<>>))
  /\ UNCHANGED <<prog, pending, status>>

\* A dynamically typed function that calls itself is walked without end.
Exhaust_Stack ==
  /\ Visit({"Call_Symbol"})
  /\ prog.words[Op.arg].dynamic
  /\ Len(frames) = Max_Frames
  /\ Stop("exhausted")

Call_Without_Effect ==
  /\ Visit({"Call_Symbol"})
  /\ ~prog.words[Op.arg].dynamic /\ ~prog.words[Op.arg].has_effect
  /\ Stop("rejected")

Check_Call_Intrinsic == Visit({"Intrinsic"}) /\ Op.arg = "Call" /\ Stop("assert")

\* A plausible slip: the outputs are not compared.
Verify_Output_Unchecked ==
  Walking /\ At_End /\ Current.known /\ Set_States(Pop(Current.states))

\* ops_end.  The location handed to the verifier is that of the last
\* operation; the verifier of a dynamic call copies it, which an empty body
\* does not have.
Verify_Output ==
  /\ Walking /\ At_End
  /\ Current.known
  /\ Same_Stack(S.stack, Current.output)
  /\ Set_States(Pop(Current.states))

Wrong_Output ==
  /\ Walking /\ At_End
  /\ Current.known
  /\ ~Same_Stack(S.stack, Current.output)
  /\ Stop("rejected")

\* The first path of a dynamically typed function to end: its stack becomes
\* the caller's, and what the other paths must end with.
First_Output ==
  /\ Walking /\ At_End
  /\ ~Current.known /\ Ops # <<>>
  /\ LET caller == Len(frames) - 1
     IN frames' = [frames EXCEPT
          ![Len(frames)].known = TRUE,
          ![Len(frames)].output = S.stack,
          ![Len(frames)].states = Pop(Current.states),
          ![caller].states[Len(frames[caller].states)].stack = S.stack]
  /\ UNCHANGED <<prog, pending, status>>

Empty_Dynamic_Body == Walking /\ At_End /\ ~Current.known /\ Ops = <<>> /\ Stop("crashed")

\* The walk is over: back to the caller, behind the call, or to main.
Return_To_Caller ==
  /\ status = "checking" /\ Len(frames) > 1 /\ Current.states = <<>>
  /\ LET caller == Len(frames) - 1
     IN frames' = [Pop(frames) EXCEPT
          ![caller].states[Len(frames[caller].states)].ip = @ + 1]
  /\ UNCHANGED <<prog, pending, status>>

Word_Checked ==
  /\ status = "checking" /\ Len(frames) = 1 /\ Current.states = <<>>
  /\ frames' = <<>>
  /\ UNCHANGED <<prog, pending, status>>

Accept == status = "checking" /\ frames = <<>> /\ pending = {} /\ Stop("accepted")

Check ==
  \/ Typecheck_Word \/ Push_Value \/ Apply_Effect \/ Reject_Effect \/ Check_If
  \/ Follow_Jump \/ Unlinked \/ Check_While \/ First_Do \/ Do_Again
  \/ Loop_Differs \/ Call_Dynamic \/ Exhaust_Stack \/ Call_Without_Effect
  \/ Check_Call_Intrinsic \/ Verify_Output \/ Wrong_Output \/ First_Output
  \/ Empty_Dynamic_Body \/ Return_To_Caller \/ Word_Checked \/ Accept
=============================================================================
