----------------------------- MODULE MCFlowStat -----------------------------
(***************************************************************************)
(* Instances of FlowStat.                                                  *)
(*                                                                         *)
(* Two ports share user id u1, so that it stays leased while one of them   *)
(* stops and the other starts; u2 competes for the second hardware id.     *)
(* The odd streams are what a careful client avoids: a disabled one, one   *)
(* of another protocol and one whose program the compiler rejects.         *)
(***************************************************************************)
EXTENDS FlowStat

Base(p, u) == [port |-> p, user |-> u, proto |-> "udp",
               enabled |-> TRUE, supported |-> TRUE, throws |-> FALSE]

MCStreams == {"a1", "a2", "b1", "odd", "bad"}
MCInfo ==
  [s \in MCStreams |->
     CASE s = "a1"  -> Base("p1", "u1")
       [] s = "a2"  -> Base("p1", "u2")
       [] s = "b1"  -> Base("p2", "u1")
       [] s = "odd" -> [Base("p2", "u1") EXCEPT !.enabled = FALSE]
       [] s = "bad" -> [Base("p2", "u2") EXCEPT !.proto = "tcp", !.throws = TRUE]]

OneStream == {"a1"}
OneInfo == [s \in OneStream |-> MCInfo[s]]
=============================================================================
