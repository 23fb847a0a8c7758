-------------------------- MODULE MCCrossreference --------------------------
(* crossreference on every body of at most Max_Length operations. *)
EXTENDS Crossreference, SequencesExt

CONSTANT Max_Length

\* All kinds the pass tells apart, and Push_Int for the others.
Alphabet == {"Push_Int", "If", "Else", "While", "Do", "End"}

AllBodies == SeqOf(Alphabet, Max_Length)
=============================================================================
