-------------------------------- MODULE Calls --------------------------------
(***************************************************************************)
(* What a call promises the program: it comes back to where it was made,   *)
(* the last call first, and leaves the data stack to the callee and to the *)
(* caller.  Only more than Callstack_Size nested calls may fault.          *)
(***************************************************************************)
EXTENDS Operations

CONSTANTS
  Callstack_Size,  \* calls the call stack has room for
  Sites,           \* return addresses: the places behind the calls
  Functions,       \* addresses of functions
  Values           \* what the program puts on its data stack

VARIABLES
  rets,     \* where the calls in progress return to, outermost first
  data,     \* the data stack, bottom first
  at,       \* the address control was last transferred to; 0 at the start
  faulted   \* killed by a memory fault

callsVars == <<rets, data, at, faulted>>

Init ==
  /\ rets = <<>>
  /\ data = <<>>
  /\ at = 0
  /\ faulted = FALSE

\* A call by name, or through a function's address popped off the data stack.
Call ==
  /\ \E site \in Sites : rets' = Append(rets, site)
  /\ \/ at' \in Functions /\ UNCHANGED data
     \/ data # <<>> /\ at' = Top(data) /\ at' \in Functions /\ data' = Pop(data)
  /\ UNCHANGED faulted

Return ==
  /\ rets # <<>>
  /\ at' = Top(rets)
  /\ rets' = Pop(rets)
  /\ UNCHANGED <<data, faulted>>

Work ==
  /\ \/ \E v \in Values : data' = Append(data, v)
     \/ data # <<>> /\ data' = Pop(data)
  /\ UNCHANGED <<rets, at, faulted>>

Fault ==
  /\ Len(rets) > Callstack_Size
  /\ faulted' = TRUE
  /\ UNCHANGED <<rets, data, at>>

Next == ~faulted /\ (Call \/ Return \/ Work \/ Fault)

Spec == Init /\ [][Next]_callsVars
=============================================================================
