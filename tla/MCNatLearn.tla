----------------------------- MODULE MCNatLearn -----------------------------
(* Templates for NatLearn: a flow whose reply is its second packet, one where
   more packets come before and after it, and one without a reply. *)
EXTENDS NatLearn

SmallTemplates == {<<"i", "r">>, <<"i", "i", "r", "i">>, <<"i">>}
=============================================================================
