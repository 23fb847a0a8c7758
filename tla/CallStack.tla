------------------------------ MODULE CallStack ------------------------------
(***************************************************************************)
(* How the generated code calls and returns (linux-x86_64.cc).  rsp is the *)
(* data stack, so a function moves the return address that `call` pushed   *)
(* there into the array _stacky_callstack, and puts it back to return.     *)
(* There is no bounds check, and the word behind the array is              *)
(* _stacky_callptr itself: call number Callstack_Size + 1 overwrites it    *)
(* with a code address, far outside of what is mapped.                     *)
(***************************************************************************)
EXTENDS Operations

CONSTANTS
  Callstack_Size,  \* words reserved for _stacky_callstack
  Sites,           \* return addresses: the places behind the calls
  Functions,       \* addresses of functions
  Values,          \* what the program puts on its data stack
  Max_Depth,       \* nested calls that are followed
  Max_Data         \* slots of the data stack that are followed

\* A code address, taken for an index, is beyond the mapped words.
ASSUME CallStackAssumption ==
  /\ Callstack_Size \in Nat \ {0}
  /\ Max_Depth \in Nat
  /\ Max_Data \in Nat
  /\ Sites \subseteq Nat
  /\ \A site \in Sites : site > Callstack_Size
  /\ Functions \subseteq Values
  /\ Values \subseteq Nat

VARIABLES
  callstack,  \* _stacky_callstack
  callptr,    \* _stacky_callptr
  rsp,        \* the stack, bottom first
  pc,         \* see Pc
  at,         \* the address control was last transferred to; 0 at the start
  rets        \* history: the return addresses of the calls in progress

vars == <<callstack, callptr, rsp, pc, at, rets>>

\* In the code of a body; behind a call; before a ret; exited; killed.
Pc == {"body", "prologue", "ret", "exit", "fault"}

Init ==
  /\ callstack = [k \in 0 .. Callstack_Size - 1 |-> 0]   \* .bss
  /\ callptr = 0
  /\ rsp = <<>>
  /\ pc = "body"
  /\ at = 0
  /\ rets = <<>>

-----------------------------------------------------------------------------

Push ==
  /\ pc = "body" /\ Len(rsp) < Max_Data
  /\ \E v \in Values : rsp' = Append(rsp, v)
  /\ UNCHANGED <<callstack, callptr, pc, at, rets>>

Drop ==
  /\ pc = "body" /\ rsp # <<>>
  /\ rsp' = Pop(rsp)
  /\ UNCHANGED <<callstack, callptr, pc, at, rets>>

\* call _stacky_fun_N
Call_Symbol ==
  /\ pc = "body" /\ Len(rets) < Max_Depth
  /\ \E site \in Sites : rsp' = Append(rsp, site) /\ rets' = Append(rets, site)
  /\ at' \in Functions
  /\ pc' = "prologue"
  /\ UNCHANGED <<callstack, callptr>>

\* pop rax; call rax
Call_Intrinsic ==
  /\ pc = "body" /\ Len(rets) < Max_Depth
  /\ rsp # <<>> /\ Top(rsp) \in Functions
  /\ \E site \in Sites : rsp' = Append(Pop(rsp), site) /\ rets' = Append(rets, site)
  /\ at' = Top(rsp)
  /\ pc' = "prologue"
  /\ UNCHANGED <<callstack, callptr>>

\* pop rax; mov rbx, [callptr]; mov [callstack+rbx*8], rax; add [callptr], 1
Prologue ==
  /\ pc = "prologue" /\ callptr < Callstack_Size
  /\ rsp' = Pop(rsp)
  /\ callstack' = [callstack EXCEPT ![callptr] = Top(rsp)]
  /\ callptr' = callptr + 1
  /\ pc' = "body"
  /\ UNCHANGED <<at, rets>>

\* The same instructions when the store hits callptr itself, ...
Prologue_Overwrites_Callptr ==
  /\ pc = "prologue" /\ callptr = Callstack_Size
  /\ rsp' = Pop(rsp)
  /\ callptr' = Top(rsp) + 1
  /\ pc' = "body"
  /\ UNCHANGED <<callstack, at, rets>>

\* ... and when the index is a code address.
Prologue_Faults ==
  /\ pc = "prologue" /\ callptr > Callstack_Size
  /\ rsp' = Pop(rsp)
  /\ pc' = "fault"
  /\ UNCHANGED <<callstack, callptr, at, rets>>

\* A plausible slip: the load comes before callptr is moved.
Epilogue_Moves_Last ==
  /\ pc = "body" /\ rets # <<>>
  /\ callptr \in 1 .. Callstack_Size - 1
  /\ callptr' = callptr - 1
  /\ rsp' = Append(rsp, callstack[callptr])
  /\ pc' = "ret"
  /\ UNCHANGED <<callstack, at, rets>>

\* emit_return: sub [callptr], 1; mov rbx, [callptr];
\* mov rax, [callstack+rbx*8]; push rax
Epilogue ==
  /\ pc = "body" /\ rets # <<>>
  /\ callptr - 1 \in DOMAIN callstack
  /\ callptr' = callptr - 1
  /\ rsp' = Append(rsp, callstack[callptr - 1])
  /\ pc' = "ret"
  /\ UNCHANGED <<callstack, at, rets>>

Epilogue_Faults ==
  /\ pc = "body" /\ rets # <<>>
  /\ callptr - 1 \notin DOMAIN callstack
  /\ callptr' = callptr - 1
  /\ pc' = "fault"
  /\ UNCHANGED <<callstack, rsp, at, rets>>

Ret ==
  /\ pc = "ret"
  /\ at' = Top(rsp)
  /\ rsp' = Pop(rsp)
  /\ rets' = Pop(rets)
  /\ pc' = "body"
  /\ UNCHANGED <<callstack, callptr>>

\* The end of main.
Exit ==
  /\ pc = "body" /\ rets = <<>>
  /\ pc' = "exit"
  /\ UNCHANGED <<callstack, callptr, rsp, at, rets>>

Next ==
  \/ Push \/ Drop \/ Call_Symbol \/ Call_Intrinsic
  \/ Prologue \/ Prologue_Overwrites_Callptr \/ Prologue_Faults
  \/ Epilogue \/ Epilogue_Faults \/ Ret \/ Exit

Spec == Init /\ [][Next]_vars

-----------------------------------------------------------------------------
(* Properties *)

\* In the code of a body the data stack holds the program's values only: the
\* return address is there between call and prologue and before ret.
TypeOK ==
  /\ callstack \in [0 .. Callstack_Size - 1 -> Sites \cup {0}]
  /\ callptr \in Nat
  /\ pc \in Pc
  /\ at \in Functions \cup Sites \cup {0}
  /\ rets \in Seq(Sites)
  /\ pc \in {"prologue", "ret"} =>
       rsp # <<>> /\ Pop(rsp) \in Seq(Values) /\ Top(rsp) \in Sites
  /\ pc \notin {"prologue", "ret"} => rsp \in Seq(Values)

\* The address a function is about to return to is that of the call it was
\* entered by, however calls nest: a call too deep for the array may fault,
\* never return to another place.
ReturnsToCaller == pc = "ret" => rets # <<>> /\ Top(rsp) = Top(rets)

\* The data stack as the program sees it: without a return address in transit.
Abstract == INSTANCE Calls WITH
  data <- IF pc \in {"prologue", "ret"} THEN Pop(rsp) ELSE rsp,
  faulted <- pc = "fault"

\* The generated code implements calls as the program understands them, and
\* faults only in more than Callstack_Size nested calls.
ImplementsCalls == Abstract!Spec
=============================================================================
