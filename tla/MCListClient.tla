---------------------------- MODULE MCListClient ----------------------------
(***************************************************************************)
(* Instances of ListClient for TLC: one list with its lines.               *)
(***************************************************************************)
EXTENDS ListClient, TLC

CONSTANTS l, i

OneList == [r \in Lines |-> l]
=============================================================================
