-------------------------- MODULE MCUploadPipeline --------------------------
(* Constants for the model checker. *)
EXTENDS UploadPipeline

CONSTANTS f1, f2

\* Nothing was uploaded before; or the first line of f1 was.
NoPrior  == [f \in Files |-> 0]
OnePrior == [f \in Files |-> IF f = f1 THEN 1 ELSE 0]
=============================================================================
