----------------------------- MODULE Deadlines -----------------------------
(***************************************************************************)
(* What a timer wheel promises to its user: every handle has at most one   *)
(* deadline, the last one asked for; a pass over the wheel fires exactly   *)
(* the handles that are due, the earliest deadline first, and does not end *)
(* before all of them have fired.  RxCheck relies on this promise, and     *)
(* TimerWheel is shown to keep it.                                         *)
(***************************************************************************)
EXTENDS Integers

CONSTANTS
  Handles,  \* the owners of timers (CFlowTimerHandle)
  Times     \* the points in time a deadline or a pass may have

ASSUME TimesAssumption == Times \subseteq Nat \ {0}

VARIABLES
  deadline,  \* the deadline of a handle, or Never
  phase,     \* "idle", or the kind of pass under way: "try" or "drain"
  now        \* the time of the last pass of kind "try"

dvars == <<deadline, phase, now>>

Never == 0

DInit ==
  /\ deadline = [h \in Handles |-> Never]
  /\ phase = "idle"
  /\ now = 0

(* In a pass, a handle is due when its deadline is past; when the wheel is
   drained every deadline counts as past. *)
Due(h) == deadline[h] # Never /\ (phase = "drain" \/ deadline[h] < now)

DRestart(h, t) ==
  /\ phase = "idle"
  /\ deadline' = [deadline EXCEPT ![h] = t]
  /\ UNCHANGED <<phase, now>>

DStop(h) ==
  /\ phase = "idle"
  /\ deadline' = [deadline EXCEPT ![h] = Never]
  /\ UNCHANGED <<phase, now>>

DTry(t) ==
  /\ phase = "idle"
  /\ phase' = "try"
  /\ now' = t
  /\ UNCHANGED deadline

DDrain ==
  /\ phase = "idle"
  /\ phase' = "drain"
  /\ UNCHANGED <<deadline, now>>

DFire(h) ==
  /\ phase # "idle"
  /\ Due(h)
  /\ \A k \in Handles : deadline[k] = Never \/ deadline[h] <= deadline[k]
  /\ deadline' = [deadline EXCEPT ![h] = Never]
  /\ UNCHANGED <<phase, now>>

DEnd ==
  /\ phase # "idle"
  /\ \A h \in Handles : ~Due(h)
  /\ phase' = "idle"
  /\ UNCHANGED <<deadline, now>>

DNext ==
  \/ \E h \in Handles, t \in Times : DRestart(h, t)
  \/ \E h \in Handles : DStop(h) \/ DFire(h)
  \/ \E t \in Times : DTry(t)
  \/ DDrain
  \/ DEnd

DSpec == DInit /\ [][DNext]_dvars
=============================================================================
