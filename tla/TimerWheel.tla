----------------------------- MODULE TimerWheel -----------------------------
(***************************************************************************)
(* CTimerWheel (timer_wheel_pq.cpp), a priority queue of timers with lazy  *)
(* updates.  A timer that is postponed keeps its place in the queue and    *)
(* only notes the later time; one that is stopped or moved forward stays   *)
(* in the queue without an owner.  Both are put right when they come to    *)
(* the top.                                                                *)
(*                                                                         *)
(* A pass (try_handle_events, drain_all) is a loop of small steps, since   *)
(* the queue orders timers of equal time arbitrarily.  Nothing else runs   *)
(* during a pass: its callbacks do not touch the wheel.                    *)
(***************************************************************************)
EXTENDS Integers

CONSTANTS
  Handles,  \* CFlowTimerHandle
  Timers,   \* addresses for CFlowTimer objects; bounds the queue for TLC
  Times,    \* the values of m_time
  NULL

ASSUME WheelAssumption ==
  /\ Times \subseteq Nat \ {0}
  /\ NULL \notin Handles \cup Timers

VARIABLES
  pq,     \* m_pq: the timers in the queue
  time,   \* m_time, the key of a timer in the queue
  upd,    \* m_updated_time
  flow,   \* m_flow: the handle a timer belongs to, or NULL
  timer,  \* CFlowTimerHandle::m_timer: the timer of a handle, or NULL
  phase,  \* "idle", or the pass under way: "try" or "drain"
  now     \* the argument of try_handle_events

vars == <<pq, time, upd, flow, timer, phase, now>>

NoUpdate == -1

Init ==
  /\ pq = {}
  /\ time = [t \in Timers |-> 0]
  /\ upd = [t \in Timers |-> NoUpdate]
  /\ flow = [t \in Timers |-> NULL]
  /\ timer = [h \in Handles |-> NULL]
  /\ phase = "idle"
  /\ now = 0

(* A new timer t of handle h, pushed with key at; old loses its owner. *)
Push(t, h, at, old) ==
  /\ pq' = pq \cup {t}
  /\ time' = [time EXCEPT ![t] = at]
  /\ upd' = [upd EXCEPT ![t] = NoUpdate]
  /\ flow' = [u \in Timers |-> IF u = t THEN h ELSE IF u = old THEN NULL ELSE flow[u]]
  /\ timer' = [timer EXCEPT ![h] = t]

Later(h, at) == timer[h] # NULL /\ at > time[timer[h]]

(* restart_timer of a handle whose timer only has to run longer. *)
Postpone(h, at) ==
  /\ phase = "idle"
  /\ Later(h, at)
  /\ upd' = [upd EXCEPT ![timer[h]] = at]
  /\ UNCHANGED <<pq, time, flow, timer, phase, now>>

(* restart_timer of a handle that has no timer, or one that is too late:
   the old one is left in the queue without an owner. *)
Restart(h, at) ==
  /\ phase = "idle"
  /\ ~Later(h, at)
  /\ \E t \in Timers \ pq : Push(t, h, at, timer[h])
  /\ UNCHANGED <<phase, now>>

(* Mutant: the timer still points at the handle. *)
StopOneSided(h) ==
  /\ phase = "idle"
  /\ timer[h] # NULL
  /\ timer' = [timer EXCEPT ![h] = NULL]
  /\ UNCHANGED <<pq, time, upd, flow, phase, now>>

stop_timer(h) ==
  /\ phase = "idle"
  /\ timer[h] # NULL
  /\ flow' = [flow EXCEPT ![timer[h]] = NULL]
  /\ timer' = [timer EXCEPT ![h] = NULL]
  /\ UNCHANGED <<pq, time, upd, phase, now>>

try_handle_events(at) ==
  /\ phase = "idle"
  /\ phase' = "try"
  /\ now' = at
  /\ UNCHANGED <<pq, time, upd, flow, timer>>

drain_all ==
  /\ phase = "idle"
  /\ phase' = "drain"
  /\ UNCHANGED <<pq, time, upd, flow, timer, now>>

(* m_pq.top(): any timer with the least key. *)
IsTop(t) == t \in pq /\ \A u \in pq : time[t] <= time[u]

(* Mutant: a postponed timer fires at its old time. *)
SettledAlways(t) == TRUE

Settled(t) == ~(upd[t] > 0 /\ upd[t] > time[t])

(* A timer whose memory is freed; its fields are cleared to keep the states
   of the model few. *)
Delete(t) ==
  /\ pq' = pq \ {t}
  /\ time' = [time EXCEPT ![t] = 0]
  /\ upd' = [upd EXCEPT ![t] = NoUpdate]

PopDead(t) ==
  /\ phase # "idle"
  /\ IsTop(t)
  /\ flow[t] = NULL
  /\ Delete(t)
  /\ UNCHANGED <<flow, timer, phase, now>>

(* Mutant: the timer is pushed back with its old key. *)
PushBackSameKey(t) ==
  /\ phase # "idle"
  /\ IsTop(t)
  /\ flow[t] # NULL
  /\ ~Settled(t)
  /\ UNCHANGED vars

PushBack(t) ==
  /\ phase # "idle"
  /\ IsTop(t)
  /\ flow[t] # NULL
  /\ ~Settled(t)
  /\ time' = [time EXCEPT ![t] = upd[t]]
  /\ UNCHANGED <<pq, upd, flow, timer, phase, now>>

(* handle(): the timer on top fires.  peek_top_time has settled the top, and
   handle, which repeats the loop, finds the same timer there. *)
Handle(t) ==
  /\ phase # "idle"
  /\ IsTop(t)
  /\ flow[t] # NULL
  /\ Settled(t)
  /\ phase = "drain" \/ time[t] < now
  /\ flow' = [flow EXCEPT ![t] = NULL]
  /\ timer' = [timer EXCEPT ![flow[t]] = NULL]
  /\ Delete(t)
  /\ UNCHANGED <<phase, now>>

(* The loop ends: the queue is empty, or the timer on top is not due. *)
EndPass ==
  /\ phase # "idle"
  /\ \/ pq = {}
     \/ /\ phase = "try"
        /\ \E t \in Timers : IsTop(t) /\ flow[t] # NULL /\ Settled(t) /\ time[t] >= now
  /\ phase' = "idle"
  /\ UNCHANGED <<pq, time, upd, flow, timer, now>>

Loop == (\E t \in Timers : PopDead(t) \/ PushBack(t) \/ Handle(t)) \/ EndPass

Next ==
  \/ \E h \in Handles, at \in Times : Postpone(h, at) \/ Restart(h, at)
  \/ \E h \in Handles : stop_timer(h)
  \/ \E at \in Times : try_handle_events(at)
  \/ drain_all
  \/ Loop

(* A pass runs in one thread that does nothing else, so its steps are taken. *)
Spec == Init /\ [][Next]_vars /\ WF_vars(Loop)
-----------------------------------------------------------------------------
TypeOK ==
  /\ pq \subseteq Timers
  /\ time \in [Timers -> Times \cup {0}]
  /\ upd \in [Timers -> Times \cup {NoUpdate}]
  /\ flow \in [Timers -> Handles \cup {NULL}]
  /\ timer \in [Handles -> Timers \cup {NULL}]
  /\ phase \in {"idle", "try", "drain"}
  /\ now \in Times \cup {0}

(* The two pointers of CFlowTimer and CFlowTimerHandle always agree: the timer
   of a handle is in the queue and points back, and a timer with an owner is
   that owner's.  A handle without a timer may be deleted (rx_check deletes
   the flow that contains it): no timer in the queue points at it. *)
PointersAgree ==
  /\ \A h \in Handles : timer[h] # NULL => timer[h] \in pq /\ flow[timer[h]] = h
  /\ \A t \in Timers : flow[t] # NULL => timer[flow[t]] = t

(* The deadline a handle has asked for last. *)
DeadlineOf(h) ==
  IF timer[h] = NULL THEN 0
  ELSE IF upd[timer[h]] > time[timer[h]] THEN upd[timer[h]] ELSE time[timer[h]]

Abstract == INSTANCE Deadlines WITH deadline <- [h \in Handles |-> DeadlineOf(h)]

(* The wheel keeps the promise of Deadlines: lazy updates and dead timers are
   invisible, timers fire in the order of their deadlines, and a pass ends
   only when nothing is due (peek_top_time, try_handle_events, handle). *)
RefinesDeadlines == Abstract!DSpec

(* Every pass ends: re-pushing a postponed timer cannot go on for ever. *)
PassesEnd == phase # "idle" ~> phase = "idle"
=============================================================================
