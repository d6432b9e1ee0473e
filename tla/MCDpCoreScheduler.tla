------------------------- MODULE MCDpCoreScheduler -------------------------
(***************************************************************************)
(* TLC instances of DpCoreScheduler: the shapes of stream chains.          *)
(***************************************************************************)
EXTENDS DpCoreScheduler, TLC

CONSTANTS p0, p1

Burst(self, next, pkts, bursts, action) ==
  [cont |-> FALSE, self |-> self, next |-> next, pkts |-> pkts, bursts |-> bursts,
   action |-> action]

Cont == [cont |-> TRUE, self |-> TRUE, next |-> 0, pkts |-> 0, bursts |-> 0, action |-> 0]

(* A continuous stream beside a multi burst. *)
Mixed == <<Cont, Burst(TRUE, 0, 2, 2, 0)>>

(* The same with less to send. *)
Short == <<Cont, Burst(TRUE, 0, 1, 2, 0)>>

(* Two continuous streams: the program that can be paused. *)
Steady == <<Cont, Cont>>

(* What load_pcap builds for two packets and a loop count of two. *)
Pcap == <<Burst(TRUE, 2, 1, 1, 0), Burst(FALSE, 1, 1, 1, 2)>>

(* Two chains that lead into the same stream. *)
Merge == <<Burst(TRUE, 3, 1, 1, 0), Burst(TRUE, 3, 1, 1, 0), Burst(FALSE, 0, 2, 1, 0)>>

(* A loop for ever. *)
Endless == <<Burst(TRUE, 2, 1, 1, 0), Burst(FALSE, 1, 1, 1, 0)>>

(* No stream of the core is self-started. *)
Inert == <<Burst(FALSE, 0, 1, 1, 0)>>

(* A second chain leads into a counted loop. *)
Reentered ==
  <<Burst(TRUE, 3, 1, 1, 0), Burst(TRUE, 3, 1, 1, 0), Burst(FALSE, 2, 1, 1, 2)>>

SafetyPrograms  == {Short, Steady, Pcap, Merge, Inert}
LivePrograms    == {Mixed, Pcap, Merge, Endless}
QuitPrograms    == {Mixed, Merge}
ReenterPrograms == {Reentered}

(* The two ports of a core are alike. *)
PortSymmetry == Permutations({p0, p1})
=============================================================================
