--------------------------- MODULE PortLifecycle ---------------------------
(***************************************************************************)
(* What a stateless port promises its client: the states of                *)
(* TrexStatelessPort, and the set of cores that still carry the run the    *)
(* port is in.  A run is left in two ways only: the client stops it, or    *)
(* every core has ended its share of it.                                   *)
(***************************************************************************)
CONSTANT Cores

VARIABLES
  state,    \* m_port_state
  active    \* the cores that have not ended the current run

pvars == <<state, active>>

PInit == state = "IDLE" /\ active = {}

(* add_stream and remove_stream never touch a run. *)
Configure ==
  /\ state \in {"IDLE", "STREAMS"}
  /\ state' \in {"IDLE", "STREAMS"}
  /\ UNCHANGED active

Start ==
  /\ state = "STREAMS"
  /\ state' = "TX"
  /\ active' \in (SUBSET Cores) \ {{}}

CoreEnds ==
  /\ state = "TX"
  /\ \E c \in active : active' = active \ {c}
  /\ UNCHANGED state

Finish ==
  /\ state = "TX"
  /\ active = {}
  /\ state' = "STREAMS"
  /\ UNCHANGED active

Stop ==
  /\ state \in {"TX", "PAUSE"}
  /\ state' = "STREAMS"
  /\ active' = {}

(* Pausing is for runs that cannot end: every core takes part in it. *)
Pause ==
  /\ state = "TX"
  /\ active = Cores
  /\ state' = "PAUSE"
  /\ UNCHANGED active

Resume ==
  /\ state = "PAUSE"
  /\ state' = "TX"
  /\ UNCHANGED active

PNext == Configure \/ Start \/ CoreEnds \/ Finish \/ Stop \/ Pause \/ Resume

PSpec == PInit /\ [][PNext]_pvars

(* The port notices the end of a run without being asked. *)
FairPSpec == PSpec /\ WF_pvars(Finish)
=============================================================================
