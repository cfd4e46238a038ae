------------------------- MODULE MCValidationGate -------------------------
(* A block and two transactions against close, with two workers. *)
EXTENDS ValidationGate

\* a contextual phase for both workers, and the push of a branch of two blocks
MCBlockPhases == <<2, 1, 1>>
\* connect
MCTxPhases == <<2>>
==========================================================================
