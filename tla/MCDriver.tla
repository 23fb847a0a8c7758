------------------------------ MODULE MCDriver ------------------------------
(* Two values of errno, three exit codes and one signal. *)
EXTENDS Driver
=============================================================================
