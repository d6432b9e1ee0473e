-------------------------- MODULE TimerWheel_proofs --------------------------
(***************************************************************************)
(* The timer wheel keeps the promise of Deadlines, for any number of       *)
(* handles, timers and times.  The argument: the key of a timer is never   *)
(* later than the deadline of its owner (DeadlineOf is the larger of key   *)
(* and noted time), so a settled timer on top has the least deadline, and  *)
(* a top that is not due means that nothing is.                            *)
(***************************************************************************)
EXTENDS TimerWheel, TLAPS

(* The strengthening: timers in the queue have a key that is a time, and   *)
(* timers out of it have no owner.                                         *)
Queued ==
  /\ \A t \in pq : time[t] \in Times
  /\ \A t \in Timers : t \notin pq => flow[t] = NULL

Inv == TypeOK /\ PointersAgree /\ Queued

LEMMA InitInv == Init => Inv
BY WheelAssumption DEF Init, Inv, TypeOK, PointersAgree, Queued, NoUpdate

LEMMA RestartInv ==
  ASSUME Inv, NEW h \in Handles, NEW at \in Times, Restart(h, at)
  PROVE  Inv'
<1> USE DEF Inv
<1>1. PICK t \in Timers \ pq : Push(t, h, at, timer[h])
  BY DEF Restart
<1>2. flow[t] = NULL /\ t # timer[h]
  BY <1>1, WheelAssumption DEF TypeOK, Queued, PointersAgree
<1>3. TypeOK'
  BY <1>1, WheelAssumption DEF TypeOK, Push, Restart, NoUpdate
<1>4. PointersAgree'
  BY <1>1, <1>2, WheelAssumption DEF TypeOK, PointersAgree, Push, Queued
<1>5. Queued'
  BY <1>1, WheelAssumption DEF TypeOK, Queued, Push
<1> QED BY <1>3, <1>4, <1>5

LEMMA NextInv == Inv /\ [Next]_vars => Inv'
<1> SUFFICES ASSUME Inv, [Next]_vars PROVE Inv'
  OBVIOUS
<1> USE WheelAssumption DEF Inv
<1>1. CASE UNCHANGED vars
  BY <1>1 DEF vars, TypeOK, PointersAgree, Queued
<1>2. ASSUME NEW h \in Handles, NEW at \in Times, Postpone(h, at) PROVE Inv'
  BY <1>2 DEF Postpone, Later, TypeOK, PointersAgree, Queued
<1>3. ASSUME NEW h \in Handles, NEW at \in Times, Restart(h, at) PROVE Inv'
  BY <1>3, RestartInv
<1>4. ASSUME NEW h \in Handles, stop_timer(h) PROVE Inv'
  BY <1>4 DEF stop_timer, TypeOK, PointersAgree, Queued
<1>5. ASSUME NEW at \in Times, try_handle_events(at) PROVE Inv'
  BY <1>5 DEF try_handle_events, TypeOK, PointersAgree, Queued
<1>6. CASE drain_all
  BY <1>6 DEF drain_all, TypeOK, PointersAgree, Queued
<1>7. ASSUME NEW t \in Timers, PopDead(t) PROVE Inv'
  BY <1>7 DEF PopDead, Delete, IsTop, TypeOK, PointersAgree, Queued, NoUpdate
<1>8. ASSUME NEW t \in Timers, PushBack(t) PROVE Inv'
  BY <1>8 DEF PushBack, IsTop, Settled, TypeOK, PointersAgree, Queued, NoUpdate
<1>9. ASSUME NEW t \in Timers, Handle(t) PROVE Inv'
  BY <1>9 DEF Handle, Delete, IsTop, TypeOK, PointersAgree, Queued, NoUpdate
<1>10. CASE EndPass
  BY <1>10 DEF EndPass, TypeOK, PointersAgree, Queued
<1> QED BY <1>1, <1>2, <1>3, <1>4, <1>5, <1>6, <1>7, <1>8, <1>9, <1>10 DEF Next, Loop

(* Types, pointers and keys are right in every reachable state of          *)
(* CTimerWheel, whatever its user does between two passes.                 *)
THEOREM WheelInvariant == Spec => []Inv
BY InitInv, NextInv, PTL DEF Spec

(* Every reachable state of the wheel is well typed: a key or a noted time *)
(* is one that restart_timer was called with.                              *)
THEOREM WheelTypeCorrect == Spec => []TypeOK
<1>1. Inv => TypeOK
  BY DEF Inv
<1> QED BY <1>1, WheelInvariant, PTL

(* The back pointers of timers and handles always agree, so that a handle  *)
(* without a timer can be deleted safely (stop_timer, handle).             *)
THEOREM WheelPointersAgree == Spec => []PointersAgree
<1>1. Inv => PointersAgree
  BY DEF Inv
<1> QED BY <1>1, WheelInvariant, PTL
-----------------------------------------------------------------------------
Deadline == [h \in Handles |-> DeadlineOf(h)]

LEMMA TimesPositive ==
  ASSUME NEW at \in Times
  PROVE  at \in Int /\ at > 0
BY WheelAssumption

LEMMA FieldTypes ==
  ASSUME Inv, NEW t \in Timers
  PROVE  /\ time[t] \in Int
         /\ upd[t] \in Int
         /\ upd[t] \in Times \/ upd[t] = -1
         /\ t \in pq => time[t] \in Times
<1>1. time[t] \in Times \/ time[t] = 0
  BY DEF Inv, TypeOK
<1>2. upd[t] \in Times \/ upd[t] = -1
  BY DEF Inv, TypeOK, NoUpdate
<1>3. t \in pq => time[t] \in Times
  BY DEF Inv, Queued
<1> QED BY <1>1, <1>2, <1>3, TimesPositive

(* A handle that is not disturbed keeps its deadline. *)
LEMMA SameDeadline ==
  ASSUME NEW h \in Handles, timer'[h] = timer[h],
         timer[h] # NULL => upd'[timer[h]] = upd[timer[h]] /\ time'[timer[h]] = time[timer[h]]
  PROVE  DeadlineOf(h)' = DeadlineOf(h)
BY DEF DeadlineOf

(* The key of a timer is a lower bound of the deadline of its owner. *)
LEMMA KeyBeforeDeadline ==
  ASSUME Inv, NEW h \in Handles, DeadlineOf(h) # 0
  PROVE  /\ timer[h] \in pq
         /\ time[timer[h]] <= DeadlineOf(h)
<1>1. timer[h] # NULL
  BY DEF DeadlineOf
<1>2. timer[h] \in pq /\ timer[h] \in Timers
  BY <1>1 DEF Inv, TypeOK, PointersAgree
<1>3. time[timer[h]] \in Int /\ upd[timer[h]] \in Int
  BY <1>2, FieldTypes
<1> QED BY <1>1, <1>2, <1>3 DEF DeadlineOf

LEMMA DeadlineSet ==
  ASSUME Inv, NEW h \in Handles, timer[h] # NULL
  PROVE  DeadlineOf(h) \in Times /\ DeadlineOf(h) # 0
<1>1. timer[h] \in pq /\ timer[h] \in Timers
  BY DEF Inv, TypeOK, PointersAgree
<1>2. time[timer[h]] \in Times
  BY <1>1 DEF Inv, Queued
<1>3. upd[timer[h]] > time[timer[h]] => upd[timer[h]] \in Times
  BY <1>1, <1>2, FieldTypes, TimesPositive
<1> QED BY <1>2, <1>3, TimesPositive DEF DeadlineOf

LEMMA RestartRefines ==
  ASSUME Inv, NEW h \in Handles, NEW at \in Times, Restart(h, at)
  PROVE  Abstract!DRestart(h, at)
<1> USE DEF Inv
<1>1. PICK t \in Timers \ pq : Push(t, h, at, timer[h])
  BY DEF Restart
<1>2. DeadlineOf(h)' = at
  BY <1>1, WheelAssumption DEF Push, DeadlineOf, TypeOK, NoUpdate
<1>3. ASSUME NEW k \in Handles, k # h PROVE DeadlineOf(k)' = DeadlineOf(k)
  BY <1>1, <1>3, SameDeadline DEF Push, TypeOK, PointersAgree
<1>4. Deadline' = [Deadline EXCEPT ![h] = at]
  BY <1>2, <1>3 DEF Deadline
<1> QED BY <1>4 DEF Restart, Abstract!DRestart, Deadline

LEMMA PostponeRefines ==
  ASSUME Inv, NEW h \in Handles, NEW at \in Times, Postpone(h, at)
  PROVE  Abstract!DRestart(h, at)
<1> USE DEF Inv
<1>2. DeadlineOf(h)' = at
  BY WheelAssumption DEF Postpone, Later, DeadlineOf, TypeOK
<1>3. ASSUME NEW k \in Handles, k # h PROVE DeadlineOf(k)' = DeadlineOf(k)
  BY <1>3, SameDeadline DEF Postpone, Later, TypeOK, PointersAgree
<1>4. Deadline' = [Deadline EXCEPT ![h] = at]
  BY <1>2, <1>3 DEF Deadline
<1> QED BY <1>4 DEF Postpone, Abstract!DRestart, Deadline

LEMMA StopRefines ==
  ASSUME Inv, NEW h \in Handles, stop_timer(h)
  PROVE  Abstract!DStop(h)
<1> USE DEF Inv
<1>2. DeadlineOf(h)' = 0
  BY DEF stop_timer, DeadlineOf, TypeOK
<1>3. ASSUME NEW k \in Handles, k # h PROVE DeadlineOf(k)' = DeadlineOf(k)
  BY <1>3, SameDeadline DEF stop_timer, TypeOK
<1>4. Deadline' = [Deadline EXCEPT ![h] = 0]
  BY <1>2, <1>3 DEF Deadline
<1> QED BY <1>4 DEF stop_timer, Abstract!DStop, Abstract!Never, Deadline

LEMMA HandleRefines ==
  ASSUME Inv, NEW t \in Timers, Handle(t)
  PROVE  \E h \in Handles : Abstract!DFire(h)
<1>1. PICK h \in Handles : h = flow[t] /\ timer[h] = t /\ t # NULL
  BY WheelAssumption DEF Handle, Inv, TypeOK, PointersAgree
<1>2. time[t] \in Int /\ time[t] > 0 /\ upd[t] \in Int
  BY FieldTypes, TimesPositive DEF Handle, IsTop
<1>3. DeadlineOf(h) = time[t]
  BY <1>1, <1>2 DEF Handle, Settled, DeadlineOf
<1>4. ASSUME NEW k \in Handles, DeadlineOf(k) # 0 PROVE time[t] <= DeadlineOf(k)
  <2>1. timer[k] \in pq /\ time[timer[k]] <= DeadlineOf(k)
    BY <1>4, KeyBeforeDeadline
  <2>2. timer[k] \in Timers /\ timer[k] # NULL
    BY <2>1, WheelAssumption DEF Inv, TypeOK
  <2>3. time[timer[k]] \in Int /\ DeadlineOf(k) \in Int
    BY <2>2, FieldTypes, DeadlineSet, TimesPositive
  <2>4. time[t] <= time[timer[k]]
    BY <2>1 DEF Handle, IsTop
  <2> QED BY <1>2, <2>1, <2>3, <2>4
<1>5. DeadlineOf(h)' = 0
  BY <1>1 DEF Handle, DeadlineOf, Inv, TypeOK
<1>6. ASSUME NEW k \in Handles, k # h PROVE DeadlineOf(k)' = DeadlineOf(k)
  <2>1. timer'[k] = timer[k] /\ (timer[k] # NULL => timer[k] # t)
    BY <1>1, <1>6 DEF Handle, Inv, TypeOK, PointersAgree
  <2> QED BY <2>1, SameDeadline DEF Handle, Delete, Inv, TypeOK
<1>7. Deadline' = [Deadline EXCEPT ![h] = 0]
  BY <1>5, <1>6 DEF Deadline
<1>8. Abstract!DFire(h)
  BY <1>2, <1>3, <1>4, <1>7
     DEF Handle, Deadline, Abstract!DFire, Abstract!Due, Abstract!Never
<1> QED BY <1>8

LEMMA EndRefines ==
  ASSUME Inv, EndPass
  PROVE  Abstract!DEnd
<1> USE DEF Inv
<1>1. ASSUME NEW h \in Handles PROVE ~Abstract!Due(h)
  <2>1. CASE DeadlineOf(h) = 0
    BY <2>1 DEF Abstract!Due, Abstract!Never
  <2>2. CASE DeadlineOf(h) # 0
    <3>1. timer[h] \in pq /\ time[timer[h]] <= DeadlineOf(h)
      BY <2>2, KeyBeforeDeadline
    <3>2. PICK t \in Timers : phase = "try" /\ IsTop(t) /\ time[t] >= now
      BY <3>1 DEF EndPass
    <3>3. time[t] <= time[timer[h]]
      BY <3>1, <3>2 DEF IsTop
    <3>4. timer[h] \in Timers /\ timer[h] # NULL /\ now \in Int
      BY <3>1, WheelAssumption, TimesPositive DEF TypeOK
    <3>5. time[t] \in Int /\ time[timer[h]] \in Int /\ DeadlineOf(h) \in Int
      BY <3>4, FieldTypes, DeadlineSet, TimesPositive
    <3>6. ~(DeadlineOf(h) < now)
      BY <3>1, <3>2, <3>3, <3>4, <3>5
    <3> QED BY <3>2, <3>6 DEF Abstract!Due
  <2> QED BY <2>1, <2>2
<1>2. Deadline' = Deadline
  BY SameDeadline DEF EndPass, Deadline
<1> QED BY <1>1, <1>2 DEF EndPass, Abstract!DEnd, Deadline

(* Popping a dead timer and re-pushing a postponed one change no deadline. *)
LEMMA Invisible ==
  ASSUME Inv, NEW t \in Timers, PopDead(t) \/ PushBack(t)
  PROVE  UNCHANGED <<Deadline, phase, now>>
<1> USE DEF Inv
<1>1. CASE PopDead(t)
  <2>1. ASSUME NEW h \in Handles PROVE DeadlineOf(h)' = DeadlineOf(h)
    <3>1. timer[h] # NULL => timer[h] # t
      BY <1>1, WheelAssumption DEF PopDead, TypeOK, PointersAgree
    <3> QED BY <1>1, <3>1, SameDeadline DEF PopDead, Delete, TypeOK
  <2> QED BY <1>1, <2>1 DEF PopDead, Deadline
<1>2. CASE PushBack(t)
  <2>1. ASSUME NEW h \in Handles PROVE DeadlineOf(h)' = DeadlineOf(h)
    <3>1. CASE timer[h] = t
      BY <1>2, <3>1, WheelAssumption DEF PushBack, Settled, DeadlineOf, TypeOK, NoUpdate
    <3>2. CASE timer[h] # t
      BY <1>2, <3>2, SameDeadline DEF PushBack, TypeOK
    <3> QED BY <3>1, <3>2
  <2> QED BY <1>2, <2>1 DEF PushBack, Deadline
<1> QED BY <1>1, <1>2

LEMMA StepRefines ==
  ASSUME Inv, [Next]_vars
  PROVE  [Abstract!DNext]_(Abstract!dvars)
<1> USE DEF Abstract!DNext, Abstract!dvars
<1>1. CASE UNCHANGED vars
  BY <1>1, SameDeadline DEF vars
<1>2. ASSUME NEW h \in Handles, NEW at \in Times, Postpone(h, at) \/ Restart(h, at)
      PROVE  Abstract!DRestart(h, at)
  BY <1>2, PostponeRefines, RestartRefines
<1>3. ASSUME NEW h \in Handles, stop_timer(h) PROVE Abstract!DStop(h)
  BY <1>3, StopRefines
<1>4. ASSUME NEW at \in Times, try_handle_events(at) PROVE Abstract!DTry(at)
  BY <1>4, SameDeadline DEF try_handle_events, Abstract!DTry
<1>5. CASE drain_all
  <2>1. Abstract!DDrain
    BY <1>5, SameDeadline DEF drain_all, Abstract!DDrain
  <2> QED BY <2>1
<1>6. ASSUME NEW t \in Timers, PopDead(t) \/ PushBack(t)
      PROVE  UNCHANGED Abstract!dvars
  BY <1>6, Invisible DEF Deadline
<1>7. ASSUME NEW t \in Timers, Handle(t) PROVE Abstract!DNext
  BY <1>7, HandleRefines
<1>8. CASE EndPass
  BY <1>8, EndRefines
<1> QED BY <1>1, <1>2, <1>3, <1>4, <1>5, <1>6, <1>7, <1>8 DEF Next, Loop

(* CTimerWheel implements Deadlines: its lazy queue fires what is due, in  *)
(* the order of the deadlines, and leaves nothing that is due behind.      *)
THEOREM WheelRefines == Spec => RefinesDeadlines
<1>1. Init => Abstract!DInit
  BY DEF Init, Abstract!DInit, Abstract!Never, DeadlineOf
<1>2. Inv /\ [Next]_vars => [Abstract!DNext]_(Abstract!dvars)
  BY StepRefines
<1> QED BY <1>1, <1>2, WheelInvariant, PTL DEF Spec, RefinesDeadlines, Abstract!DSpec
=============================================================================
