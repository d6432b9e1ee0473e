------------------------------ MODULE MCRxCheck ------------------------------
(* Two flows for RxCheck: one in both directions and one in a single
   direction. *)
EXTENDS RxCheck, TLC

CONSTANTS f1, f2

TwoFlows == [f \in Handles |-> IF f = f1 THEN (0 :> 3 @@ 1 :> 1) ELSE (0 :> 2 @@ 1 :> 0)]
=============================================================================
