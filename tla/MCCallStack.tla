----------------------------- MODULE MCCallStack -----------------------------
(* A call stack of two words, and programs that nest up to four calls. *)
EXTENDS CallStack
=============================================================================
