---------------------------- MODULE MCOcrOutbox ----------------------------
(***************************************************************************)
(* Instances of OcrOutbox for TLC.  Rows and workers are interchangeable,  *)
(* which the safety runs use; a run of a liveness property does not.       *)
(***************************************************************************)
EXTENDS OcrOutbox, TLC

Interchangeable == Permutations(Jobs) \cup Permutations(Workers) \cup Permutations(Requests)
=============================================================================
