------------------------ MODULE StatelessPort_proofs ------------------------
(***************************************************************************)
(* Proofs about StatelessPort for any number of cores, any workloads and   *)
(* any bounds.                                                             *)
(***************************************************************************)
EXTENDS StatelessPort, FiniteSetTheorems, SequenceTheorems, TLAPS

(* The values of the states, the messages and the rings keep their types,  *)
(* whatever the RPC thread, the master and the cores do.                   *)
LEMMA PlainMsgType ==
  ASSUME NEW t \in {"stop", "pause", "resume", "update"}
  PROVE  PlainMsg(t) \in Msg /\ PlainMsg(t).type = t
BY DEF PlainMsg, Msg, Kind

LEMMA StartMsgType ==
  ASSUME NEW id \in Nat, NEW k \in Kind, NEW d \in BOOLEAN
  PROVE  /\ StartMsg(id, k, d) \in Msg
         /\ StartMsg(id, k, d).type = "start" /\ StartMsg(id, k, d).id = id
         /\ StartMsg(id, k, d).kind = k /\ StartMsg(id, k, d).dur = d
BY DEF StartMsg, Msg

LEMMA SendType ==
  ASSUME TypeOK, NEW t \in {"stop", "pause", "resume", "update"}, SendToAll(PlainMsg(t))
  PROVE  toDp' \in [Cores -> Seq(Msg)]
<1>1. \A c \in Cores : Append(toDp[c], PlainMsg(t)) \in Seq(Msg)
  BY PlainMsgType DEF TypeOK
<1> QED BY <1>1 DEF SendToAll

LEMMA HeadType ==
  ASSUME NEW S, NEW s \in Seq(S), s # << >>
  PROVE  Head(s) \in S /\ Tail(s) \in Seq(S)
OBVIOUS

LEMMA RpcType == TypeOK /\ RpcStep => TypeOK'
<1> SUFFICES ASSUME TypeOK, RpcStep PROVE TypeOK'
  OBVIOUS
<1>1. CASE AddStream \/ RemoveStream \/ RemoveAllStreams \/ StartEmpty
  BY <1>1 DEF AddStream, RemoveStream, RemoveAllStreams, StartEmpty, TypeOK, portVars, eventVars,
              dpVars, PortState
<1>2. ASSUME NEW w \in Workloads, StartTraffic(w) PROVE TypeOK'
  <2>1. w \in Workload /\ counter + 1 \in Nat /\ counter' = counter + 1 
    BY <1>2, WorkloadsAssumption DEF StartTraffic, TypeOK, EventIds, Invalid
  <2>2. \A c \in Cores : w.kind[c] \in Kind /\ w.dur \in BOOLEAN
    BY <2>1 DEF Workload
  <2>3. toDp' \in [Cores -> Seq(Msg)]
    BY <1>2, <2>1, <2>2, StartMsgType DEF StartTraffic, TypeOK
  <2>4. pending' \in Int
    <3>1. IsFiniteSet({c \in Cores : w.kind[c] # "none"})
      BY CoresAssumption, FS_Subset
    <3> QED BY <1>2, <3>1, FS_CardinalityType DEF StartTraffic
  <2>5. signal' \in [Cores -> BOOLEAN]
    BY <1>2 DEF StartTraffic
  <2>6. counter' \in EventIds /\ eventId' \in EventIds
    BY <1>2, <2>1 DEF StartTraffic, EventIds
  <2> QED BY <1>2, <2>1, <2>3, <2>4, <2>5, <2>6 DEF StartTraffic, TypeOK, dpVars, PortState
<1>3. CASE StopTraffic
  BY <1>3, SendType DEF StopTraffic, TypeOK, dpVars, PortState, EventIds
<1>4. CASE PauseTraffic
  BY <1>4, SendType DEF PauseTraffic, TypeOK, dpVars, eventVars, PortState
<1>5. CASE ResumeTraffic
  BY <1>5, SendType DEF ResumeTraffic, TypeOK, dpVars, eventVars, PortState
<1>6. CASE UpdateTraffic
  BY <1>6, SendType DEF UpdateTraffic, TypeOK, dpVars, eventVars, PortState
<1> QED BY <1>1, <1>2, <1>3, <1>4, <1>5, <1>6 DEF RpcStep

LEMMA MasterType == TypeOK /\ MasterStep => TypeOK'
<1> SUFFICES ASSUME TypeOK, MasterStep PROVE TypeOK'
  OBVIOUS
<1>1. ASSUME NEW c \in Cores, HandleEvent(c) PROVE TypeOK'
  <2>1. toCp' \in [Cores -> Seq(EventIds)]
    BY <1>1, HeadType DEF HandleEvent, TypeOK
  <2>2. master' \in [pc : MasterPc, core : Cores \cup {NoCore}]
        /\ (master'.pc = "mark" => master'.core \in Cores)
    BY <1>1 DEF HandleEvent, Poll, MasterPc
  <2> QED BY <1>1, <2>1, <2>2 DEF HandleEvent, TypeOK, portVars, eventVars, dpVars
<1>2. CASE MarkSignal
  BY <1>2 DEF MarkSignal, TypeOK, portVars, dpVars, MasterPc
<1>3. CASE TestPending
  BY <1>3 DEF TestPending, TypeOK, portVars, eventVars, dpVars, MasterPc, Poll
<1>4. CASE EventOccurred
  BY <1>4 DEF EventOccurred, TypeOK, eventVars, dpVars, MasterPc, PortState
<1>5. CASE DisableEvent
  BY <1>5 DEF DisableEvent, TypeOK, portVars, dpVars, MasterPc, Poll, EventIds
<1> QED BY <1>1, <1>2, <1>3, <1>4, <1>5 DEF MasterStep

(* stop_traffic on a core either does nothing or ends the core's run; it   *)
(* does nothing only on an idle core or for a stale duration command.      *)
LEMMA StopCoreCases ==
  ASSUME NEW c \in Cores, NEW b \in BOOLEAN, NEW id, StopCore(c, b, id)
  PROVE  \/ /\ UNCHANGED <<dpState, toCp>>
            /\ dpState[c] = "IDLE" \/ (b = TRUE /\ id # dpEvent[c])
         \/ /\ dpState[c] # "IDLE"
            /\ b = TRUE => id = dpEvent[c]
            /\ dpState' = [dpState EXCEPT ![c] = "IDLE"]
            /\ toCp' = [toCp EXCEPT ![c] = Append(@, dpEvent[c])]
<1>1. CASE b = TRUE
  BY <1>1, Zenon DEF StopCore
<1>2. CASE b = FALSE
  BY <1>2, Zenon DEF StopCore
<1> QED BY <1>1, <1>2

LEMMA StopCoreType ==
  ASSUME TypeOK, NEW c \in Cores, NEW b \in BOOLEAN, NEW id, StopCore(c, b, id)
  PROVE  dpState' \in [Cores -> DpState] /\ toCp' \in [Cores -> Seq(EventIds)]
<1>1. Append(toCp[c], dpEvent[c]) \in Seq(EventIds)
  BY DEF TypeOK
<1>2. CASE UNCHANGED <<dpState, toCp>>
  BY <1>2 DEF TypeOK
<1>3. CASE /\ dpState' = [dpState EXCEPT ![c] = "IDLE"]
           /\ toCp' = [toCp EXCEPT ![c] = Append(@, dpEvent[c])]
  BY <1>1, <1>3 DEF TypeOK, DpState
<1> QED BY <1>2, <1>3, StopCoreCases

LEMMA ReceiveType ==
  ASSUME TypeOK, NEW c \in Cores, NEW t, Receive(c, t)
  PROVE  /\ toDp' \in [Cores -> Seq(Msg)]
         /\ Head(toDp[c]) \in Msg
BY HeadType DEF Receive, Polling, TypeOK

LEMMA DpType == \A c \in Cores : TypeOK /\ DpStep(c) => TypeOK'
<1> SUFFICES ASSUME NEW c \in Cores, TypeOK, DpStep(c) PROVE TypeOK'
  OBVIOUS
<1>1. CASE DpAssertFails(c)
  <2>1. Head(toDp[c]) \in Msg
    BY <1>1, HeadType DEF DpAssertFails, Polling, TypeOK
  <2> QED BY <1>1, <2>1 DEF DpAssertFails, TypeOK, Msg, portVars, eventVars, dpVars
<1>2. CASE DpStart(c)
  <2>1. Head(toDp[c]) \in Msg /\ toDp' \in [Cores -> Seq(Msg)]
    BY <1>2, ReceiveType DEF DpStart
  <2>2. /\ Head(toDp[c]).id \in EventIds /\ Head(toDp[c]).kind \in Kind
        /\ Head(toDp[c]).dur \in BOOLEAN
    BY <2>1 DEF Msg, EventIds
  <2>3. dpState' \in [Cores -> DpState] /\ dpEvent' \in [Cores -> EventIds]
        /\ dpKind' \in [Cores -> Kind] /\ dpFactor' \in [Cores -> Nat]
    BY <1>2, <2>2 DEF DpStart, TypeOK, DpState
  <2>4. timers' \in [Cores -> SUBSET EventIds]
    BY <1>2, <2>2 DEF DpStart, TypeOK
  <2>5. loop' \in [Cores -> Loop]
    BY <1>2 DEF DpStart, TypeOK, Loop
  <2> QED BY <1>2, <2>1, <2>3, <2>4, <2>5 DEF DpStart, TypeOK, portVars, eventVars
<1>3. CASE DpStop(c)
  BY <1>3, ReceiveType, StopCoreType DEF DpStop, TypeOK, portVars, eventVars
<1>4. CASE DpPause(c) \/ DpResume(c)
  BY <1>4, ReceiveType DEF DpPause, DpResume, TypeOK, DpState, portVars, eventVars
<1>5. CASE DpUpdate(c)
  BY <1>5, ReceiveType DEF DpUpdate, TypeOK, portVars, eventVars
<1>6. CASE StartScheduler(c) \/ FlowSync(c) \/ SyncContinue(c)
  BY <1>6 DEF StartScheduler, FlowSync, SyncContinue, TypeOK, Loop, portVars, eventVars, dpVars
<1>7. CASE SyncExit(c)
  BY <1>7 DEF SyncExit, TypeOK, Loop, portVars, eventVars, dpVars
<1>8. CASE StreamsEnd(c)
  BY <1>8, StopCoreType DEF StreamsEnd, TypeOK, portVars, eventVars
<1>9. CASE DurationElapses(c)
  <2>1. PICK id \in timers[c] : /\ timers' = [timers EXCEPT ![c] = @ \ {id}]
                                /\ StopCore(c, TRUE, id)
    BY <1>9 DEF DurationElapses
  <2> QED BY <1>9, <2>1, StopCoreType DEF DurationElapses, TypeOK, portVars, eventVars
<1> QED BY <1>1, <1>2, <1>3, <1>4, <1>5, <1>6, <1>7, <1>8, <1>9 DEF DpStep

(* Every reachable state of the protocol is well typed, for every number   *)
(* of cores and every workload, with or without overlapping threads.       *)
THEOREM TypeCorrect == Spec => []TypeOK
<1>1. Init => TypeOK
  BY CoresAssumption DEF Init, TypeOK, PortState, Workload, Kind, EventIds, DpState, Loop, Poll,
                         MasterPc
<1>2. TypeOK /\ [Next]_vars => TypeOK'
  <2> SUFFICES ASSUME TypeOK, [Next]_vars PROVE TypeOK'
    OBVIOUS
  <2>1. CASE UNCHANGED vars
    BY <2>1 DEF vars, portVars, eventVars, dpVars, TypeOK
  <2> QED BY <2>1, RpcType, MasterType, DpType DEF Next
<1> QED BY <1>1, <1>2, PTL DEF Spec

-----------------------------------------------------------------------------
(***************************************************************************)
(* Queues: what a core finds when it comes to a message.                   *)
(***************************************************************************)
LEMMA TailFacts ==
  ASSUME NEW S, NEW s \in Seq(S), s # << >>
  PROVE  /\ Tail(s) \in Seq(S) /\ Len(Tail(s)) = Len(s) - 1 /\ Len(s) >= 1
         /\ Head(s) = s[1]
         /\ \A i \in 1 .. Len(Tail(s)) : Tail(s)[i] = s[i + 1]
OBVIOUS

LEMMA AppendFacts ==
  ASSUME NEW S, NEW s \in Seq(S), NEW m \in S
  PROVE  /\ Append(s, m) \in Seq(S) /\ Len(Append(s, m)) = Len(s) + 1
         /\ \A i \in 1 .. Len(s) : Append(s, m)[i] = s[i]
         /\ Append(s, m)[Len(s) + 1] = m
OBVIOUS

(* Taking the head off a ring keeps the core idle at every later place. *)
LEMMA IdleBeforeTail ==
  ASSUME NEW s \in Seq(Msg), s # << >>, NEW st, NEW st2, NEW i \in 2 .. Len(s) + 1,
         IdleBefore(st, s, i),
         \/ Head(s).type = "stop" /\ st2 = "IDLE"
         \/ Head(s).type = "start"
         \/ Head(s).type # "stop" /\ (st = "IDLE" => st2 = "IDLE")
  PROVE  IdleBefore(st2, Tail(s), i - 1)
<1>1. /\ Tail(s) \in Seq(Msg) /\ Len(Tail(s)) = Len(s) - 1 /\ Head(s) = s[1]
      /\ \A k \in 1 .. Len(s) - 1 : Tail(s)[k] = s[k + 1]
  BY TailFacts
<1>2. CASE st = "IDLE" /\ \A k \in 1 .. i - 1 : s[k].type # "start"
  BY <1>1, <1>2 DEF IdleBefore
<1>3. CASE \E j \in 1 .. i - 1 :
             s[j].type = "stop" /\ \A k \in j + 1 .. i - 1 : s[k].type # "start"
  <2>1. PICK j \in 1 .. i - 1 :
               s[j].type = "stop" /\ \A k \in j + 1 .. i - 1 : s[k].type # "start"
    BY <1>3
  <2>2. CASE j = 1
    <3>1. st2 = "IDLE"
      BY <1>1, <2>1, <2>2
    <3> QED BY <1>1, <2>1, <2>2, <3>1 DEF IdleBefore
  <2>3. CASE j > 1
    <3>1. j - 1 \in 1 .. (i - 1) - 1 /\ Tail(s)[j - 1].type = "stop"
      BY <1>1, <2>1, <2>3
    <3>2. \A k \in (j - 1) + 1 .. (i - 1) - 1 : Tail(s)[k].type # "start"
      BY <1>1, <2>1, <2>3
    <3> QED BY <3>1, <3>2 DEF IdleBefore
  <2> QED BY <2>2, <2>3
<1> QED BY <1>2, <1>3 DEF IdleBefore

LEMMA IdleBeforeAppend ==
  ASSUME NEW s \in Seq(Msg), NEW m \in Msg, NEW st, NEW i \in 1 .. Len(s) + 1,
         IdleBefore(st, s, i)
  PROVE  IdleBefore(st, Append(s, m), i)
BY AppendFacts DEF IdleBefore

LEMMA IdleBeforeAppendLast ==
  ASSUME NEW s \in Seq(Msg), NEW m \in Msg, NEW st,
         \/ m.type = "stop"
         \/ m.type # "start" /\ IdleBefore(st, s, Len(s) + 1)
  PROVE  IdleBefore(st, Append(s, m), Len(Append(s, m)) + 1)
BY AppendFacts DEF IdleBefore

LEMMA IdleBeforeIdle ==
  ASSUME NEW s, NEW st, NEW i, IdleBefore(st, s, i)
  PROVE  IdleBefore("IDLE", s, i)
BY DEF IdleBefore

-----------------------------------------------------------------------------
(***************************************************************************)
(* Steps of the cores.                                                     *)
(***************************************************************************)
CpUnchanged == UNCHANGED <<port, run, eventVars, master>>

(* A core that a step leaves alone keeps its part of the invariant. *)
LEMMA CoreFrame ==
  ASSUME NEW d \in Cores, CoreInv(d), CpUnchanged,
         toDp'[d] = toDp[d], toCp'[d] = toCp[d], dpState'[d] = dpState[d],
         dpEvent'[d] = dpEvent[d], dpKind'[d] = dpKind[d], timers'[d] \subseteq timers[d]
  PROVE  CoreInv(d)' /\ (Outstanding(d)' <=> Outstanding(d))
<1> USE DEF CpUnchanged, eventVars, Live
<1>1. Outstanding(d)' <=> Outstanding(d)
  BY DEF Outstanding
<1>2. EndInFlight(d)' <=> EndInFlight(d)
  BY DEF EndInFlight
<1>3. IdsGrow(d)'
  BY DEF CoreInv, IdsGrow
<1>4. StartsGuarded(d)'
  BY DEF CoreInv, StartsGuarded, IdleBefore
<1>5. CarriesRun(d)'
  BY <1>1 DEF CoreInv, CarriesRun, CanEnd
<1>6. EndsAreTrue(d)'
  BY <1>2 DEF CoreInv, EndsAreTrue
<1>7. EndNotLost(d)'
  BY <1>1, <1>2 DEF CoreInv, EndNotLost
<1> QED BY <1>1, <1>3, <1>4, <1>5, <1>6, <1>7 DEF CoreInv

LEMMA IdTypes ==
  ASSUME TypeOK, NEW c \in Cores
  PROVE  /\ counter \in Int /\ dpEvent[c] \in Int
         /\ toDp[c] \in Seq(Msg) /\ Len(toDp[c]) \in Nat
         /\ \A i \in 1 .. Len(toDp[c]) : toDp[c][i] \in Msg /\ toDp[c][i].id \in Int
         /\ toCp[c] \in Seq(EventIds) /\ Len(toCp[c]) \in Nat
         /\ \A i \in 1 .. Len(toCp[c]) : toCp[c][i] \in Int
         /\ \A id \in timers[c] : id \in Int
<1>1. \A i \in 1 .. Len(toDp[c]) : toDp[c][i] \in Msg
  BY DEF TypeOK
<1>2. \A m \in Msg : m.id \in Int
  BY DEF Msg, Invalid
<1>3. \A e \in EventIds : e \in Int
  BY DEF EventIds, Invalid
<1>4. \A i \in 1 .. Len(toCp[c]) : toCp[c][i] \in EventIds
  BY DEF TypeOK
<1> QED BY <1>1, <1>2, <1>3, <1>4 DEF TypeOK

(* The ring of a core that has got the latest start holds no start. *)
LEMMA NoStart ==
  ASSUME TypeOK, NEW c \in Cores, IdsGrow(c), dpEvent[c] = counter
  PROVE  \A i \in 1 .. Len(toDp[c]) : toDp[c][i].type # "start"
<1> SUFFICES ASSUME NEW i \in 1 .. Len(toDp[c]), toDp[c][i].type = "start" PROVE FALSE
  OBVIOUS
<1>1. dpEvent[c] < toDp[c][i].id /\ toDp[c][i].id <= counter
  BY DEF IdsGrow
<1>2. toDp[c][i].id \in Int /\ counter \in Int
  BY IdTypes
<1> QED BY <1>1, <1>2

(* A core that transmits the run the port is in has no stop in its ring.   *)
LEMMA NoStop ==
  ASSUME TypeOK, NEW c \in Cores, CoreInv(c), Live, dpEvent[c] = counter
  PROVE  ~Holds(c, "stop")
<1>1. \A i \in 1 .. Len(toDp[c]) : toDp[c][i].type # "start"
  BY NoStart DEF CoreInv
<1>2. run.kind[c] # "none"
  BY DEF CoreInv, CarriesRun
<1>3. Len(toDp[c]) \in Nat
  BY DEF TypeOK
<1>4. ASSUME NEW i \in 1 .. Len(toDp[c]), toDp[c][i].type = "stop" PROVE FALSE
  <2>1. PICK j \in i + 1 .. Len(toDp[c]) : toDp[c][j].type = "start"
    BY <1>2, <1>4 DEF CoreInv, CarriesRun
  <2> QED BY <1>1, <1>3, <2>1
<1> QED BY <1>4 DEF Holds

(* Stop, pause, resume and update messages: the head leaves the ring, and  *)
(* only an effective stop changes whether the core is idle.                *)
LEMMA ConsumeCore ==
  ASSUME TypeOK, NEW c \in Cores, CoreInv(c), CpUnchanged,
         toDp[c] # << >>, Head(toDp[c]).type # "start",
         toDp'[c] = Tail(toDp[c]),
         dpEvent'[c] = dpEvent[c], dpKind'[c] = dpKind[c], timers'[c] = timers[c],
         \/ /\ dpState[c] = "IDLE" /\ dpState'[c] = "IDLE"
            /\ toCp'[c] = toCp[c]
         \/ /\ dpState[c] # "IDLE" /\ dpState'[c] # "IDLE" /\ Head(toDp[c]).type # "stop"
            /\ toCp'[c] = toCp[c]
         \/ /\ dpState[c] # "IDLE" /\ dpState'[c] = "IDLE" /\ Head(toDp[c]).type = "stop"
            /\ toCp'[c] = Append(toCp[c], dpEvent[c])
  PROVE  CoreInv(c)' /\ (Outstanding(c)' => Outstanding(c))
<1> DEFINE s == toDp[c]
           Ends == dpState[c] # "IDLE" /\ dpState'[c] = "IDLE"
<1> USE DEF CpUnchanged, eventVars, Live
<1>1. /\ s \in Seq(Msg) /\ Tail(s) \in Seq(Msg) /\ Len(Tail(s)) = Len(s) - 1
      /\ Len(s) \in Nat /\ Len(s) >= 1 /\ Head(s) = s[1]
      /\ \A i \in 1 .. Len(s) - 1 : Tail(s)[i] = s[i + 1]
  BY TailFacts DEF TypeOK
<1>2. /\ counter \in Int /\ dpEvent[c] \in Int /\ toCp[c] \in Seq(EventIds)
      /\ dpEvent[c] \in EventIds
  BY DEF TypeOK, EventIds, Invalid
<1>3. Ends /\ Live => dpEvent[c] # counter
  <2> SUFFICES ASSUME Ends, Live, dpEvent[c] = counter PROVE FALSE
    OBVIOUS
  <2>1. Holds(c, "stop")
    BY <1>1 DEF Holds
  <2> QED BY <2>1, NoStop
<1>4. Ends => /\ Len(toCp'[c]) = Len(toCp[c]) + 1
              /\ toCp'[c][Len(toCp[c]) + 1] = dpEvent[c]
              /\ \A i \in 1 .. Len(toCp[c]) : toCp'[c][i] = toCp[c][i]
  BY <1>2, AppendFacts
<1>5. ~Ends => toCp'[c] = toCp[c] /\ (dpState'[c] = "IDLE" <=> dpState[c] = "IDLE")
  OBVIOUS
<1>6. (\E i \in 1 .. Len(toDp'[c]) : toDp'[c][i].type = "start" /\ toDp'[c][i].id = counter)
      <=> (\E i \in 1 .. Len(s) : s[i].type = "start" /\ s[i].id = counter)
  <2>1. ASSUME NEW i \in 1 .. Len(s), s[i].type = "start", s[i].id = counter
        PROVE  i - 1 \in 1 .. Len(Tail(s)) /\ Tail(s)[i - 1] = s[i]
    BY <1>1, <2>1
  <2> QED BY <1>1, <2>1
<1>7. Outstanding(c)' => Outstanding(c)
  BY <1>5, <1>6 DEF Outstanding
<1>8. Live => (Outstanding(c)' <=> Outstanding(c))
  BY <1>3, <1>5, <1>6 DEF Outstanding
<1>9. IdsGrow(c)'
  <2>1. /\ \A i \in 1 .. Len(Tail(s)) :
             Tail(s)[i].type = "start"
               => dpEvent[c] < Tail(s)[i].id /\ Tail(s)[i].id <= counter
        /\ \A i, j \in 1 .. Len(Tail(s)) :
             i < j /\ Tail(s)[i].type = "start" /\ Tail(s)[j].type = "start"
               => Tail(s)[i].id < Tail(s)[j].id
    <3>1. \A i \in 1 .. Len(Tail(s)) : i + 1 \in 1 .. Len(s) /\ Tail(s)[i] = s[i + 1]
      BY <1>1
    <3>2. \A i, j \in 1 .. Len(Tail(s)) : i < j => i + 1 < j + 1
      BY <1>1
    <3> QED BY <3>1, <3>2 DEF CoreInv, IdsGrow
  <2>2. \A i \in 1 .. Len(toCp'[c]) : toCp'[c][i] <= counter
    <3>1. /\ dpEvent[c] <= counter
          /\ \A i \in 1 .. Len(toCp[c]) : toCp[c][i] <= counter
      BY DEF CoreInv, IdsGrow
    <3>2. CASE ~Ends
      BY <1>5, <3>1, <3>2
    <3>3. CASE Ends
      <4>1. \A i \in 1 .. Len(toCp'[c]) : i \in 1 .. Len(toCp[c]) \/ i = Len(toCp[c]) + 1
        BY <1>2, <1>4, <3>3
      <4> QED BY <1>4, <3>1, <3>3, <4>1
    <3> QED BY <3>2, <3>3
  <2> QED BY <2>1, <2>2 DEF CoreInv, IdsGrow
<1>10. StartsGuarded(c)'
  <2>1. ASSUME NEW i \in 2 .. Len(s) + 1, IdleBefore(dpState[c], s, i)
        PROVE  IdleBefore(dpState'[c], Tail(s), i - 1)
    BY <1>1, <2>1, IdleBeforeTail
  <2>2. ASSUME NEW i \in 1 .. Len(Tail(s)), Tail(s)[i].type = "start"
        PROVE  IdleBefore(dpState'[c], Tail(s), i)
    <3>1. i + 1 \in 2 .. Len(s) + 1 /\ i + 1 \in 1 .. Len(s) /\ (i + 1) - 1 = i
          /\ s[i + 1].type = "start"
      BY <1>1, <2>2
    <3>2. IdleBefore(dpState[c], s, i + 1)
      BY <3>1 DEF CoreInv, StartsGuarded
    <3> QED BY <2>1, <3>1, <3>2
  <2>3. ASSUME ~Live \/ run.kind[c] = "none"
        PROVE  IdleBefore(dpState'[c], Tail(s), Len(Tail(s)) + 1)
    <3>1. IdleBefore(dpState[c], s, Len(s) + 1)
      BY <2>3 DEF CoreInv, StartsGuarded
    <3>2. Len(s) + 1 \in 2 .. Len(s) + 1 /\ (Len(s) + 1) - 1 = Len(Tail(s)) + 1
      BY <1>1
    <3> QED BY <2>1, <3>1, <3>2
  <2> QED BY <2>2, <2>3 DEF StartsGuarded
<1>11. CarriesRun(c)'
  <2> SUFFICES ASSUME Live PROVE CarriesRun(c)'
    BY DEF CarriesRun
  <2>1. \A i \in 1 .. Len(Tail(s)) :
          Tail(s)[i].type = "start" /\ Tail(s)[i].id = counter
            => Tail(s)[i].kind = run.kind[c] /\ Tail(s)[i].dur = run.dur
    BY <1>1 DEF CoreInv, CarriesRun
  <2>2. run.kind[c] # "none" =>
          \A i \in 1 .. Len(Tail(s)) : Tail(s)[i].type = "stop" =>
            \E j \in i + 1 .. Len(Tail(s)) : Tail(s)[j].type = "start"
    <3> SUFFICES ASSUME run.kind[c] # "none", NEW i \in 1 .. Len(Tail(s)),
                        Tail(s)[i].type = "stop"
                 PROVE  \E j \in i + 1 .. Len(Tail(s)) : Tail(s)[j].type = "start"
      OBVIOUS
    <3>1. i + 1 \in 1 .. Len(s) /\ s[i + 1].type = "stop"
      BY <1>1
    <3>2. PICK j \in (i + 1) + 1 .. Len(s) : s[j].type = "start"
      BY <3>1 DEF CoreInv, CarriesRun
    <3>3. j - 1 \in i + 1 .. Len(Tail(s)) /\ j \in 1 .. Len(s) /\ j = (j - 1) + 1
          /\ j - 1 \in 1 .. Len(s) - 1
      BY <1>1, <3>2
    <3>4. Tail(s)[j - 1].type = "start"
      BY <1>1, <3>2, <3>3
    <3> QED BY <3>3, <3>4
  <2>3. dpEvent'[c] = counter' /\ dpState'[c] = "IDLE" => CanEnd(run)'
    BY <1>3, <1>5 DEF CoreInv, CarriesRun, CanEnd
  <2> QED BY <1>8, <2>1, <2>2, <2>3 DEF CoreInv, CarriesRun
<1>12. EndInFlight(c)' => dpEvent'[c] = counter' /\ dpState'[c] = "IDLE"
  <2>1. CASE ~Ends
    BY <1>5, <2>1 DEF CoreInv, EndsAreTrue, EndInFlight
  <2>2. CASE Ends
    <3>1. ~EndInFlight(c)
      BY <2>2 DEF CoreInv, EndsAreTrue
    <3>2. /\ counter' = counter /\ master' = master /\ Len(toCp[c]) \in Nat
          /\ Len(toCp'[c]) = Len(toCp[c]) + 1
          /\ toCp'[c][Len(toCp[c]) + 1] = dpEvent[c]
          /\ \A i \in 1 .. Len(toCp[c]) : toCp'[c][i] = toCp[c][i]
      BY <1>2, <1>4, <2>2
    <3>3. ASSUME NEW i \in 1 .. Len(toCp'[c]), toCp'[c][i] = counter
          PROVE  dpEvent[c] = counter
      <4>1. i \in 1 .. Len(toCp[c]) \/ i = Len(toCp[c]) + 1
        BY <3>2
      <4>2. i \notin 1 .. Len(toCp[c])
        BY <3>1, <3>2, <3>3 DEF EndInFlight
      <4> QED BY <3>2, <3>3, <4>1, <4>2
    <3>4. EndInFlight(c)' => dpEvent[c] = counter
      BY <3>1, <3>2, <3>3 DEF EndInFlight
    <3> QED BY <2>2, <3>4
  <2> QED BY <2>1, <2>2
<1>13. EndInFlight(c) => EndInFlight(c)'
  BY <1>2, <1>4, <1>5 DEF EndInFlight
<1>14. EndsAreTrue(c)'
  BY <1>5, <1>12 DEF CoreInv, EndsAreTrue
<1>15. EndNotLost(c)'
  BY <1>8, <1>13 DEF CoreInv, EndNotLost
<1> QED BY <1>7, <1>9, <1>10, <1>11, <1>14, <1>15 DEF CoreInv

(* The streams or the duration of a core end its run.                      *)
LEMMA EndCore ==
  ASSUME TypeOK, NEW c \in Cores, CoreInv(c), CpUnchanged,
         Live /\ dpEvent[c] = counter => CanEnd(run),
         toDp'[c] = toDp[c], dpEvent'[c] = dpEvent[c], dpKind'[c] = dpKind[c],
         timers'[c] \subseteq timers[c],
         dpState[c] # "IDLE", dpState'[c] = "IDLE",
         toCp'[c] = Append(toCp[c], dpEvent[c])
  PROVE  CoreInv(c)' /\ (Outstanding(c)' => Outstanding(c))
<1> USE DEF CpUnchanged, eventVars, Live
<1>1. /\ counter \in Int /\ dpEvent[c] \in Int /\ Len(toCp[c]) \in Nat
      /\ \A i \in 1 .. Len(toCp[c]) : toCp[c][i] \in Int
  BY IdTypes
<1>2. /\ Len(toCp'[c]) = Len(toCp[c]) + 1 /\ toCp'[c][Len(toCp[c]) + 1] = dpEvent[c]
      /\ \A i \in 1 .. Len(toCp[c]) : toCp'[c][i] = toCp[c][i]
  BY AppendFacts DEF TypeOK
<1>3. Outstanding(c)' => Outstanding(c)
  BY DEF Outstanding
<1>4. IdsGrow(c)'
  <2>1. \A i \in 1 .. Len(toCp'[c]) : toCp'[c][i] <= counter
    BY <1>1, <1>2 DEF CoreInv, IdsGrow
  <2> QED BY <2>1 DEF CoreInv, IdsGrow
<1>5. StartsGuarded(c)'
  <2>1. \A i : IdleBefore(dpState[c], toDp[c], i) => IdleBefore(dpState'[c], toDp[c], i)
    BY IdleBeforeIdle
  <2> QED BY <2>1 DEF CoreInv, StartsGuarded
<1>6. CarriesRun(c)'
  BY <1>3 DEF CoreInv, CarriesRun, CanEnd
<1>7. ~EndInFlight(c)
  BY DEF CoreInv, EndsAreTrue
<1>8. EndInFlight(c)' <=> dpEvent[c] = counter
  BY <1>1, <1>2, <1>7 DEF EndInFlight
<1>9. EndsAreTrue(c)'
  BY <1>8 DEF CoreInv, EndsAreTrue
<1>10. EndNotLost(c)'
  BY <1>7, <1>8 DEF CoreInv, EndNotLost, Outstanding
<1> QED BY <1>3, <1>4, <1>5, <1>6, <1>9, <1>10 DEF CoreInv

(* A start message on an idle core.                                        *)
LEMMA StartCore ==
  ASSUME TypeOK, NEW c \in Cores, CoreInv(c), CpUnchanged,
         toDp[c] # << >>, Head(toDp[c]).type = "start", toDp'[c] = Tail(toDp[c]),
         toCp'[c] = toCp[c], dpState'[c] = "TRANSMITTING",
         dpEvent'[c] = Head(toDp[c]).id, dpKind'[c] = Head(toDp[c]).kind,
         timers'[c] = IF Head(toDp[c]).dur THEN timers[c] \cup {Head(toDp[c]).id} ELSE timers[c]
  PROVE  CoreInv(c)' /\ (Outstanding(c)' <=> Outstanding(c))
<1> DEFINE s == toDp[c]
           m == Head(s)
<1> USE DEF CpUnchanged, eventVars, Live
<1>1. /\ s \in Seq(Msg) /\ Tail(s) \in Seq(Msg) /\ Len(Tail(s)) = Len(s) - 1
      /\ Len(s) \in Nat /\ Len(s) >= 1 /\ m = s[1]
      /\ \A i \in 1 .. Len(s) - 1 : Tail(s)[i] = s[i + 1]
  BY TailFacts DEF TypeOK
<1>2. /\ counter \in Int /\ dpEvent[c] \in Int /\ Len(toCp[c]) \in Nat
      /\ \A i \in 1 .. Len(s) : s[i].id \in Int
      /\ \A id \in timers[c] : id \in Int
      /\ m.id \in Int
  BY <1>1, IdTypes
<1>3. m.type = "start" /\ dpEvent[c] < m.id /\ m.id <= counter
  BY <1>1 DEF CoreInv, IdsGrow
<1>4. dpEvent[c] # counter /\ ~EndInFlight(c) /\ ~EndInFlight(c)'
  <2>1. dpEvent[c] # counter
    BY <1>2, <1>3
  <2> QED BY <2>1 DEF CoreInv, EndsAreTrue, EndInFlight
<1>5. \A i \in 1 .. Len(Tail(s)) : i + 1 \in 1 .. Len(s) /\ Tail(s)[i] = s[i + 1] /\ 1 < i + 1
  BY <1>1
<1>6. Outstanding(c)' <=> Outstanding(c)
  <2>1. ASSUME Outstanding(c) PROVE Outstanding(c)'
    <3>1. PICK i \in 1 .. Len(s) : s[i].type = "start" /\ s[i].id = counter
      BY <1>4, <2>1 DEF Outstanding
    <3>2. CASE i = 1
      BY <1>1, <3>1, <3>2 DEF Outstanding
    <3>3. CASE i # 1
      <4>1. i - 1 \in 1 .. Len(Tail(s)) /\ Tail(s)[i - 1] = s[i]
        BY <1>1, <3>3
      <4> QED BY <3>1, <4>1 DEF Outstanding
    <3> QED BY <3>2, <3>3
  <2>2. ASSUME Outstanding(c)' PROVE Outstanding(c)
    BY <1>1, <1>5, <2>2 DEF Outstanding
  <2> QED BY <2>1, <2>2
<1>7. IdsGrow(c)'
  <2>1. \A i \in 1 .. Len(Tail(s)) :
          Tail(s)[i].type = "start" => m.id < Tail(s)[i].id /\ Tail(s)[i].id <= counter
    <3> SUFFICES ASSUME NEW i \in 1 .. Len(Tail(s)), Tail(s)[i].type = "start"
                 PROVE  m.id < Tail(s)[i].id /\ Tail(s)[i].id <= counter
      OBVIOUS
    <3>1. i + 1 \in 1 .. Len(s) /\ 1 \in 1 .. Len(s) /\ 1 < i + 1 /\ s[i + 1].type = "start"
      BY <1>1, <1>5
    <3>2. s[1].id < s[i + 1].id /\ s[i + 1].id <= counter
      BY <1>1, <1>3, <3>1 DEF CoreInv, IdsGrow
    <3> QED BY <1>1, <1>5, <3>2
  <2>2. \A i, j \in 1 .. Len(Tail(s)) :
          i < j /\ Tail(s)[i].type = "start" /\ Tail(s)[j].type = "start"
            => Tail(s)[i].id < Tail(s)[j].id
    <3>1. \A i, j \in 1 .. Len(Tail(s)) : i < j => i + 1 < j + 1
      BY <1>1
    <3> QED BY <1>5, <3>1 DEF CoreInv, IdsGrow
  <2>3. \A id \in timers'[c] : id <= m.id
    <3>1. \A id \in timers[c] : id <= m.id
      BY <1>2, <1>3 DEF CoreInv, IdsGrow
    <3> QED BY <1>2, <3>1
  <2> QED BY <1>3, <2>1, <2>2, <2>3 DEF CoreInv, IdsGrow
<1>8. StartsGuarded(c)'
  <2>1. ASSUME NEW i \in 2 .. Len(s) + 1, IdleBefore(dpState[c], s, i)
        PROVE  IdleBefore(dpState'[c], Tail(s), i - 1)
    BY <1>1, <2>1, IdleBeforeTail
  <2>2. ASSUME NEW i \in 1 .. Len(Tail(s)), Tail(s)[i].type = "start"
        PROVE  IdleBefore(dpState'[c], Tail(s), i)
    <3>1. i + 1 \in 2 .. Len(s) + 1 /\ i + 1 \in 1 .. Len(s) /\ (i + 1) - 1 = i
          /\ s[i + 1].type = "start"
      BY <1>1, <2>2
    <3>2. IdleBefore(dpState[c], s, i + 1)
      BY <3>1 DEF CoreInv, StartsGuarded
    <3> QED BY <2>1, <3>1, <3>2
  <2>3. ASSUME ~Live \/ run.kind[c] = "none"
        PROVE  IdleBefore(dpState'[c], Tail(s), Len(Tail(s)) + 1)
    <3>1. IdleBefore(dpState[c], s, Len(s) + 1)
      BY <2>3 DEF CoreInv, StartsGuarded
    <3>2. Len(s) + 1 \in 2 .. Len(s) + 1 /\ (Len(s) + 1) - 1 = Len(Tail(s)) + 1
      BY <1>1
    <3> QED BY <2>1, <3>1, <3>2
  <2> QED BY <2>2, <2>3 DEF StartsGuarded
<1>9. CarriesRun(c)'
  <2> SUFFICES ASSUME Live PROVE CarriesRun(c)'
    BY DEF CarriesRun
  <2>1. \A i \in 1 .. Len(Tail(s)) :
          Tail(s)[i].type = "start" /\ Tail(s)[i].id = counter
            => Tail(s)[i].kind = run.kind[c] /\ Tail(s)[i].dur = run.dur
    BY <1>5 DEF CoreInv, CarriesRun
  <2>2. ASSUME m.id = counter
        PROVE  m.kind = run.kind[c] /\ (counter \in timers'[c] => run.dur)
               /\ run.kind[c] # "none"
    <3>1. m.kind = run.kind[c] /\ m.dur = run.dur
      BY <1>1, <1>3, <2>2 DEF CoreInv, CarriesRun
    <3>2. counter \notin timers[c]
      BY <1>2, <1>3 DEF CoreInv, IdsGrow
    <3>3. Outstanding(c)
      BY <1>1, <1>3, <2>2 DEF Outstanding
    <3> QED BY <3>1, <3>2, <3>3 DEF CoreInv, CarriesRun
  <2>3. run.kind[c] # "none" =>
          \A i \in 1 .. Len(Tail(s)) : Tail(s)[i].type = "stop" =>
            \E j \in i + 1 .. Len(Tail(s)) : Tail(s)[j].type = "start"
    <3> SUFFICES ASSUME run.kind[c] # "none", NEW i \in 1 .. Len(Tail(s)),
                        Tail(s)[i].type = "stop"
                 PROVE  \E j \in i + 1 .. Len(Tail(s)) : Tail(s)[j].type = "start"
      OBVIOUS
    <3>1. i + 1 \in 1 .. Len(s) /\ s[i + 1].type = "stop"
      BY <1>5
    <3>2. PICK j \in (i + 1) + 1 .. Len(s) : s[j].type = "start"
      BY <3>1 DEF CoreInv, CarriesRun
    <3>3. j - 1 \in i + 1 .. Len(Tail(s)) /\ j = (j - 1) + 1 /\ j - 1 \in 1 .. Len(s) - 1
      BY <1>1, <3>2
    <3>4. Tail(s)[j - 1].type = "start"
      BY <1>1, <3>2, <3>3
    <3> QED BY <3>3, <3>4
  <2> QED BY <1>6, <2>1, <2>2, <2>3 DEF CoreInv, CarriesRun
<1>10. EndsAreTrue(c)'
  BY <1>4 DEF CoreInv, EndsAreTrue
<1>11. EndNotLost(c)'
  BY <1>4, <1>6 DEF CoreInv, EndNotLost
<1> QED BY <1>6, <1>7, <1>8, <1>9, <1>10, <1>11 DEF CoreInv

(* A step of the cores alone leaves the rest of the invariant as it is.    *)
LEMMA CpFrame ==
  ASSUME IndInv, CpUnchanged, failed' # "start",
         \A c \in Cores : CoreInv(c)' /\ (Outstanding(c)' => Outstanding(c))
  PROVE  IndInv'
<1> USE DEF CpUnchanged, eventVars, Live
<1>1. EventFollowsPort'
  BY DEF IndInv, EventFollowsPort
<1>2. MasterFollowsPort'
  BY DEF IndInv, MasterFollowsPort
<1>3. PendingCounts'
  BY DEF IndInv, PendingCounts
<1> QED BY <1>1, <1>2, <1>3 DEF IndInv, StartAssertHolds

(* Of the outstanding shares of a run, a step of core c can only end its own. *)
OnlyEnds(c) ==
  \A d \in Cores : /\ Outstanding(d)' => Outstanding(d)
                   /\ d # c => (Outstanding(d)' <=> Outstanding(d))

(* One core moves, the others keep their part of the invariant.            *)
LEMMA OneCore ==
  ASSUME TypeOK, IndInv, CpUnchanged, failed' # "start", NEW c \in Cores,
         CoreInv(c)' /\ (Outstanding(c)' => Outstanding(c)),
         \A d \in Cores \ {c} :
           /\ toDp'[d] = toDp[d] /\ toCp'[d] = toCp[d] /\ dpState'[d] = dpState[d]
           /\ dpEvent'[d] = dpEvent[d] /\ dpKind'[d] = dpKind[d] /\ timers'[d] = timers[d]
  PROVE  IndInv' /\ OnlyEnds(c)
<1>1. ASSUME NEW d \in Cores \ {c} PROVE CoreInv(d)' /\ (Outstanding(d)' <=> Outstanding(d))
  <2>1. CoreInv(d)
    BY DEF IndInv
  <2> QED BY <2>1, CoreFrame
<1> QED BY <1>1, CpFrame DEF OnlyEnds

(* No start message meets a core that still transmits.                     *)
LEMMA AssertStep ==
  ASSUME TypeOK, IndInv, NEW c \in Cores, DpAssertFails(c)
  PROVE  IndInv' /\ OnlyEnds(c)
<1>1. Head(toDp[c]).type # "start"
  <2> SUFFICES ASSUME Head(toDp[c]).type = "start" PROVE FALSE
    OBVIOUS
  <2>1. Len(toDp[c]) \in Nat /\ 1 \in 1 .. Len(toDp[c]) /\ toDp[c][1] = Head(toDp[c])
    BY TailFacts DEF DpAssertFails, Polling, TypeOK
  <2>2. IdleBefore(dpState[c], toDp[c], 1)
    BY <2>1 DEF IndInv, CoreInv, StartsGuarded
  <2>3. dpState[c] = "IDLE"
    BY <2>2 DEF IdleBefore
  <2> QED BY <2>3 DEF DpAssertFails, Accepts
<1>2. CpUnchanged /\ failed' # "start"
  BY <1>1 DEF DpAssertFails, CpUnchanged, portVars
<1>3. ASSUME NEW d \in Cores PROVE CoreInv(d)' /\ (Outstanding(d)' <=> Outstanding(d))
  <2>1. CoreInv(d)
    BY DEF IndInv
  <2> QED BY <1>2, <2>1, CoreFrame DEF DpAssertFails, dpVars
<1> QED BY <1>2, <1>3, CpFrame DEF OnlyEnds

LEMMA StartStep ==
  ASSUME TypeOK, IndInv, NEW c \in Cores, DpStart(c)
  PROVE  IndInv' /\ OnlyEnds(c)
<1>1. CpUnchanged /\ failed' # "start"
  BY DEF DpStart, CpUnchanged, portVars, Receive, Polling, Quiet
<1>2. CoreInv(c)
  BY DEF IndInv
<1>3. /\ toDp[c] # << >> /\ Head(toDp[c]).type = "start" /\ toDp'[c] = Tail(toDp[c])
      /\ toCp'[c] = toCp[c] /\ dpState'[c] = "TRANSMITTING"
      /\ dpEvent'[c] = Head(toDp[c]).id /\ dpKind'[c] = Head(toDp[c]).kind
      /\ timers'[c] = IF Head(toDp[c]).dur THEN timers[c] \cup {Head(toDp[c]).id} ELSE timers[c]
  BY DEF DpStart, Receive, Polling, TypeOK
<1>4. CoreInv(c)' /\ (Outstanding(c)' <=> Outstanding(c))
  BY <1>1, <1>2, <1>3, StartCore
<1>5. \A d \in Cores \ {c} :
           /\ toDp'[d] = toDp[d] /\ toCp'[d] = toCp[d] /\ dpState'[d] = dpState[d]
           /\ dpEvent'[d] = dpEvent[d] /\ dpKind'[d] = dpKind[d] /\ timers'[d] = timers[d]
  BY DEF DpStart, Receive, TypeOK
<1> QED BY <1>1, <1>4, <1>5, OneCore

(* Every message other than a start, whether it takes effect or not.       *)
LEMMA PlainStep ==
  ASSUME TypeOK, IndInv, NEW c \in Cores,
         DpStop(c) \/ DpPause(c) \/ DpResume(c) \/ DpUpdate(c)
  PROVE  IndInv' /\ OnlyEnds(c)
<1>1. CpUnchanged /\ failed' # "start"
  BY DEF DpStop, DpPause, DpResume, DpUpdate, CpUnchanged, portVars, Receive, Polling, Quiet
<1>2. CoreInv(c)
  BY DEF IndInv
<1>3. /\ toDp[c] # << >> /\ Head(toDp[c]).type # "start" /\ toDp'[c] = Tail(toDp[c])
      /\ dpEvent'[c] = dpEvent[c] /\ dpKind'[c] = dpKind[c] /\ timers'[c] = timers[c]
  BY DEF DpStop, DpPause, DpResume, DpUpdate, Receive, Polling, TypeOK
<1>4. \/ /\ dpState[c] = "IDLE" /\ dpState'[c] = "IDLE"
         /\ toCp'[c] = toCp[c]
      \/ /\ dpState[c] # "IDLE" /\ dpState'[c] # "IDLE" /\ Head(toDp[c]).type # "stop"
         /\ toCp'[c] = toCp[c]
      \/ /\ dpState[c] # "IDLE" /\ dpState'[c] = "IDLE" /\ Head(toDp[c]).type = "stop"
         /\ toCp'[c] = Append(toCp[c], dpEvent[c])
  <2>1. CASE DpStop(c)
    <3>1. StopCore(c, FALSE, Invalid) /\ Head(toDp[c]).type = "stop"
      BY <2>1 DEF DpStop, Receive
    <3> QED BY <3>1, StopCoreCases DEF TypeOK
  <2>2. CASE DpPause(c) \/ DpResume(c) \/ DpUpdate(c)
    BY <2>2 DEF DpPause, DpResume, DpUpdate, Receive, Accepts, TypeOK
  <2> QED BY <2>1, <2>2
<1>5. CoreInv(c)' /\ (Outstanding(c)' => Outstanding(c))
  BY <1>1, <1>2, <1>3, <1>4, ConsumeCore
<1>6. \A d \in Cores \ {c} : dpState'[d] = dpState[d] /\ toCp'[d] = toCp[d]
  <2>1. CASE DpStop(c)
    <3>1. StopCore(c, FALSE, Invalid)
      BY <2>1 DEF DpStop
    <3>2. dpState \in [Cores -> DpState] /\ toCp \in [Cores -> Seq(EventIds)]
      BY DEF TypeOK
    <3> QED BY <3>1, <3>2 DEF StopCore
  <2>2. CASE DpPause(c) \/ DpResume(c) \/ DpUpdate(c)
    BY <2>2 DEF DpPause, DpResume, DpUpdate, TypeOK
  <2> QED BY <2>1, <2>2
<1>7. \A d \in Cores \ {c} :
        /\ toDp'[d] = toDp[d] /\ dpEvent'[d] = dpEvent[d] /\ dpKind'[d] = dpKind[d]
        /\ timers'[d] = timers[d]
  BY DEF DpStop, DpPause, DpResume, DpUpdate, Receive, TypeOK
<1> QED BY <1>1, <1>5, <1>6, <1>7, OneCore

(* The thread moves between its loops; an exit drops the duration commands. *)
LEMMA LoopStep ==
  ASSUME TypeOK, IndInv, NEW c \in Cores,
         StartScheduler(c) \/ FlowSync(c) \/ SyncContinue(c) \/ SyncExit(c)
  PROVE  IndInv' /\ OnlyEnds(c)
<1>1. CpUnchanged /\ failed' # "start"
  BY DEF StartScheduler, FlowSync, SyncContinue, SyncExit, CpUnchanged, portVars, Quiet
<1>2. ASSUME NEW d \in Cores PROVE CoreInv(d)' /\ (Outstanding(d)' <=> Outstanding(d))
  <2>1. CoreInv(d)
    BY DEF IndInv
  <2>2. timers'[d] \subseteq timers[d]
    BY DEF StartScheduler, FlowSync, SyncContinue, SyncExit, TypeOK
  <2> QED BY <1>1, <2>1, <2>2, CoreFrame
           DEF StartScheduler, FlowSync, SyncContinue, SyncExit, dpVars
<1> QED BY <1>1, <1>2, CpFrame DEF OnlyEnds

(* The core's streams end, or its duration elapses: only a run that can    *)
(* end is ended this way, and a stale duration command does nothing.       *)
LEMMA EndStep ==
  ASSUME TypeOK, IndInv, NEW c \in Cores, StreamsEnd(c) \/ DurationElapses(c)
  PROVE  IndInv' /\ OnlyEnds(c)
<1>1. CpUnchanged /\ failed' # "start"
  BY DEF StreamsEnd, DurationElapses, CpUnchanged, portVars, Quiet
<1>2. CoreInv(c)
  BY DEF IndInv
<1>3. /\ toDp' = toDp /\ dpEvent' = dpEvent /\ dpKind' = dpKind
      /\ timers'[c] \subseteq timers[c]
      /\ \A d \in Cores \ {c} : timers'[d] = timers[d]
  <2>1. CASE StreamsEnd(c)
    BY <2>1 DEF StreamsEnd
  <2>2. CASE DurationElapses(c)
    BY <2>2 DEF DurationElapses, TypeOK
  <2> QED BY <2>1, <2>2
<1>4. \/ /\ UNCHANGED <<dpState, toCp>>
      \/ /\ dpState[c] # "IDLE"
         /\ Live /\ dpEvent[c] = counter => CanEnd(run)
         /\ dpState' = [dpState EXCEPT ![c] = "IDLE"]
         /\ toCp' = [toCp EXCEPT ![c] = Append(@, dpEvent[c])]
  <2>1. CASE StreamsEnd(c)
    <3>1. StopCore(c, FALSE, Invalid) /\ dpKind[c] = "finite"
      BY <2>1 DEF StreamsEnd
    <3>2. Live /\ dpEvent[c] = counter => CanEnd(run)
      BY <1>2, <3>1 DEF CoreInv, CarriesRun, CanEnd
    <3> QED BY <3>1, <3>2, StopCoreCases
  <2>2. CASE DurationElapses(c)
    <3>1. PICK id \in timers[c] : StopCore(c, TRUE, id)
      BY <2>2 DEF DurationElapses
    <3>2. Live /\ dpEvent[c] = counter /\ id = dpEvent[c] => CanEnd(run)
      BY <1>2, <3>1 DEF CoreInv, CarriesRun, CanEnd
    <3> QED BY <3>1, <3>2, StopCoreCases
  <2> QED BY <2>1, <2>2
<1>5. CASE UNCHANGED <<dpState, toCp>>
  <2>1. CoreInv(c)' /\ (Outstanding(c)' <=> Outstanding(c))
    BY <1>1, <1>2, <1>3, <1>5, CoreFrame
  <2> QED BY <1>1, <1>3, <1>5, <2>1, OneCore
<1>6. CASE /\ dpState[c] # "IDLE"
           /\ Live /\ dpEvent[c] = counter => CanEnd(run)
           /\ dpState' = [dpState EXCEPT ![c] = "IDLE"]
           /\ toCp' = [toCp EXCEPT ![c] = Append(@, dpEvent[c])]
  <2>1. /\ dpState'[c] = "IDLE" /\ toCp'[c] = Append(toCp[c], dpEvent[c])
        /\ \A d \in Cores \ {c} : dpState'[d] = dpState[d] /\ toCp'[d] = toCp[d]
    BY <1>6 DEF TypeOK
  <2>2. CoreInv(c)' /\ (Outstanding(c)' => Outstanding(c))
    BY <1>1, <1>2, <1>3, <1>6, <2>1, EndCore
  <2> QED BY <1>1, <1>3, <2>1, <2>2, OneCore
<1> QED BY <1>4, <1>5, <1>6

LEMMA DpInv ==
  ASSUME TypeOK, IndInv, NEW c \in Cores, DpStep(c)
  PROVE  IndInv' /\ OnlyEnds(c)
BY AssertStep, StartStep, PlainStep, LoopStep, EndStep DEF DpStep

-----------------------------------------------------------------------------
(***************************************************************************)
(* Steps of the master thread.                                             *)
(***************************************************************************)

(* Threads that overlap are harmless only when no run ends by itself: then *)
(* no core reports an end that the master would act upon.                  *)
Serialised == Overlap => \A w \in Workloads : ~CanEnd(w)

LEMMA MasterHandles ==
  ASSUME TypeOK, IndInv, Serialised, NEW c \in Cores, HandleEvent(c)
  PROVE  IndInv'
<1> USE DEF eventVars, portVars, dpVars, Live
<1>1. /\ UNCHANGED <<port, run, counter, eventId, signal, pending, toDp, dpState, dpEvent,
                     dpKind, timers, failed>>
      /\ master.pc = "poll" /\ toCp[c] # << >>
      /\ toCp' = [toCp EXCEPT ![c] = Tail(@)]
      /\ master' = IF eventId # Invalid /\ Head(toCp[c]) = eventId
                   THEN [pc |-> "mark", core |-> c] ELSE Poll
  BY DEF HandleEvent
<1>2. /\ Len(toCp[c]) \in Nat /\ Len(toCp[c]) >= 1
      /\ Head(toCp[c]) = toCp[c][1] /\ toCp'[c] = Tail(toCp[c])
      /\ Len(toCp'[c]) = Len(toCp[c]) - 1
      /\ \A i \in 1 .. Len(toCp'[c]) : i + 1 \in 1 .. Len(toCp[c]) /\ toCp'[c][i] = toCp[c][i + 1]
      /\ \A d \in Cores \ {c} : toCp'[d] = toCp[d]
  BY <1>1, TailFacts DEF TypeOK
<1>3. eventId # Invalid => Live
  BY <1>1 DEF IndInv, EventFollowsPort
<1>4. Live => eventId = counter /\ eventId # Invalid /\ run \in Workloads
  BY DEF IndInv, EventFollowsPort, Invalid
<1>5. master'.pc = "mark" =>
        master'.core = c /\ Live /\ Head(toCp[c]) = counter /\ EndInFlight(c)
  BY <1>1, <1>2, <1>3, <1>4 DEF EndInFlight, Poll
<1>6. master'.pc = "mark" => ~Overlap
  BY <1>4, <1>5 DEF IndInv, CoreInv, EndsAreTrue, CarriesRun, Serialised
<1>7. ASSUME NEW d \in Cores PROVE CoreInv(d)'
  <2>1. CoreInv(d)
    BY DEF IndInv
  <2>2. Outstanding(d)' <=> Outstanding(d)
    BY <1>1 DEF Outstanding
  <2>3. EndInFlight(d)' => EndInFlight(d)
    BY <1>1, <1>2, <1>5 DEF EndInFlight
  <2>4. Live /\ EndInFlight(d) => EndInFlight(d)'
    <3>1. CASE d # c
      BY <1>1, <1>2, <3>1 DEF EndInFlight
    <3>2. CASE d = c
      <4> SUFFICES ASSUME Live, NEW i \in 1 .. Len(toCp[c]), toCp[c][i] = counter
                   PROVE  EndInFlight(c)'
        BY <1>1, <3>2 DEF EndInFlight
      <4>1. CASE i = 1
        <5>1. master' = [pc |-> "mark", core |-> c]
          BY <1>1, <1>2, <1>4, <4>1
        <5> QED BY <5>1 DEF EndInFlight
      <4>2. CASE i # 1
        <5>1. i - 1 \in 1 .. Len(toCp'[c]) /\ toCp'[c][i - 1] = toCp[c][i]
          BY <1>2, <4>2
        <5> QED BY <1>1, <5>1 DEF EndInFlight
      <4> QED BY <4>1, <4>2
    <3> QED BY <3>1, <3>2
  <2>5. IdsGrow(d)'
    <3>1. \A i \in 1 .. Len(toCp[d]) : toCp[d][i] <= counter
      BY <2>1 DEF CoreInv, IdsGrow
    <3>2. \A i \in 1 .. Len(toCp'[d]) : toCp'[d][i] <= counter
      <4>1. CASE d = c
        BY <1>2, <3>1, <4>1
      <4>2. CASE d # c
        BY <1>2, <3>1, <4>2
      <4> QED BY <4>1, <4>2
    <3> QED BY <1>1, <2>1, <3>2 DEF CoreInv, IdsGrow
  <2>6. StartsGuarded(d)'
    <3>1. \A i : IdleBefore(dpState'[d], toDp'[d], i) <=> IdleBefore(dpState[d], toDp[d], i)
      BY <1>1
    <3> QED BY <1>1, <2>1, <3>1 DEF CoreInv, StartsGuarded
  <2>7. CarriesRun(d)'
    BY <1>1, <2>1, <2>2 DEF CoreInv, CarriesRun, CanEnd
  <2>8. EndsAreTrue(d)' /\ EndNotLost(d)'
    BY <1>1, <2>1, <2>2, <2>3, <2>4 DEF CoreInv, EndsAreTrue, EndNotLost
  <2> QED BY <2>5, <2>6, <2>7, <2>8 DEF CoreInv
<1>8. master'.pc \in {"poll", "mark"}
  BY <1>1 DEF Poll
<1>9. EventFollowsPort'
  BY <1>1, <1>8 DEF IndInv, EventFollowsPort
<1>10. MasterFollowsPort'
  BY <1>1, <1>5, <1>6, <1>8 DEF MasterFollowsPort
<1>11. PendingCounts'
  BY <1>1 DEF IndInv, PendingCounts
<1> QED BY <1>1, <1>7, <1>9, <1>10, <1>11 DEF IndInv, StartAssertHolds

(* The master changes nothing the cores' part of the invariant reads.      *)
LEMMA MasterFrame ==
  ASSUME NEW d \in Cores, CoreInv(d),
         UNCHANGED <<port, run, counter, signal, toDp, toCp, dpVars, timers>>,
         master.pc # "mark", master'.pc # "mark"
  PROVE  CoreInv(d)' /\ (Outstanding(d)' <=> Outstanding(d))
<1> USE DEF dpVars, Live
<1>1. Outstanding(d)' <=> Outstanding(d)
  BY DEF Outstanding
<1>2. EndInFlight(d)' <=> EndInFlight(d)
  BY DEF EndInFlight
<1>3. IdsGrow(d)' /\ StartsGuarded(d)'
  BY DEF CoreInv, IdsGrow, StartsGuarded, IdleBefore
<1>4. CarriesRun(d)'
  BY <1>1 DEF CoreInv, CarriesRun, CanEnd
<1>5. EndsAreTrue(d)' /\ EndNotLost(d)'
  BY <1>1, <1>2 DEF CoreInv, EndsAreTrue, EndNotLost
<1> QED BY <1>1, <1>3, <1>4, <1>5 DEF CoreInv

LEMMA Signals ==
  /\ IsFiniteSet({c \in Cores : ~signal[c]})
  /\ Cardinality({c \in Cores : ~signal[c]}) \in Nat
<1>1. IsFiniteSet({c \in Cores : ~signal[c]})
  BY CoresAssumption, FS_Subset
<1> QED BY <1>1, FS_CardinalityType

(* A core's first end event of the run is counted, a second one is not.    *)
LEMMA MasterMarks ==
  ASSUME TypeOK, IndInv, MarkSignal
  PROVE  IndInv'
<1> USE DEF portVars, dpVars, Live
<1> DEFINE c == master.core
           Silent == {d \in Cores : ~signal[d]}
<1>1. /\ UNCHANGED <<port, run, counter, eventId, toDp, toCp, dpState, dpEvent, dpKind, timers,
                     failed>>
      /\ c \in Cores /\ master.pc = "mark" /\ master'.pc = "test"
      /\ signal' = [signal EXCEPT ![c] = TRUE]
      /\ pending' = IF signal[c] THEN pending ELSE pending - 1
  BY DEF MarkSignal, TypeOK
<1>2. Live /\ ~Overlap
  BY <1>1 DEF IndInv, MasterFollowsPort
<1>3. /\ signal'[c] = TRUE
      /\ \A d \in Cores \ {c} : signal'[d] = signal[d]
      /\ \A d \in Cores : signal'[d] \in BOOLEAN
  BY <1>1 DEF TypeOK
<1>4. EndInFlight(c)
  BY <1>1 DEF EndInFlight
<1>5. ASSUME NEW d \in Cores PROVE CoreInv(d)'
  <2>1. CoreInv(d)
    BY DEF IndInv
  <2>2. Outstanding(d)' <=> Outstanding(d)
    BY <1>1 DEF Outstanding
  <2>3. EndInFlight(d)' => EndInFlight(d)
    BY <1>1 DEF EndInFlight
  <2>4. d # c => (EndInFlight(d)' <=> EndInFlight(d))
    BY <1>1 DEF EndInFlight
  <2>5. IdsGrow(d)' /\ StartsGuarded(d)'
    BY <1>1, <2>1 DEF CoreInv, IdsGrow, StartsGuarded, IdleBefore
  <2>6. signal[d] => signal'[d]
    BY <1>3
  <2>7. CarriesRun(d)'
    BY <1>1, <2>1, <2>2, <2>6 DEF CoreInv, CarriesRun, CanEnd
  <2>8. EndsAreTrue(d)'
    BY <1>1, <1>3, <1>4, <2>1, <2>3 DEF CoreInv, EndsAreTrue
  <2>9. EndNotLost(d)'
    BY <1>1, <1>3, <2>1, <2>2, <2>4 DEF CoreInv, EndNotLost
  <2> QED BY <2>5, <2>7, <2>8, <2>9 DEF CoreInv
<1>6. EventFollowsPort' /\ MasterFollowsPort'
  BY <1>1, <1>2 DEF IndInv, EventFollowsPort, MasterFollowsPort
<1>7. PendingCounts'
  <2>1. {d \in Cores : ~signal'[d]} = Silent \ {c}
    BY <1>3
  <2>2. pending = Cardinality(Silent)
    BY <1>2 DEF IndInv, PendingCounts
  <2>3. IsFiniteSet(Silent) /\ Cardinality(Silent) \in Nat
    BY Signals
  <2>4. Cardinality(Silent \ {c}) = IF c \in Silent THEN Cardinality(Silent) - 1
                                                    ELSE Cardinality(Silent)
    BY <2>3, FS_RemoveElement
  <2>5. c \in Silent <=> ~signal[c]
    BY <1>1
  <2>6. pending' = Cardinality(Silent \ {c})
    BY <1>1, <2>2, <2>4, <2>5
  <2> QED BY <1>1, <2>1, <2>6 DEF PendingCounts
<1> QED BY <1>1, <1>5, <1>6, <1>7 DEF IndInv, StartAssertHolds

LEMMA MasterTests ==
  ASSUME TypeOK, IndInv, TestPending
  PROVE  IndInv'
<1> USE DEF portVars, dpVars, eventVars, Live
<1>1. /\ UNCHANGED <<port, run, counter, eventId, signal, pending, toDp, toCp, dpVars, timers,
                     failed>>
      /\ master.pc = "test" /\ master'.pc = IF pending = 0 THEN "occur" ELSE "poll"
  BY DEF TestPending, Poll
<1>2. Live /\ ~Overlap
  BY <1>1 DEF IndInv, MasterFollowsPort
<1>3. \A d \in Cores : CoreInv(d)'
  BY <1>1, MasterFrame DEF IndInv
<1>4. EventFollowsPort' /\ MasterFollowsPort'
  BY <1>1, <1>2 DEF IndInv, EventFollowsPort, MasterFollowsPort
<1>5. PendingCounts'
  <2>1. pending = Cardinality({c \in Cores : ~signal[c]})
    BY <1>2 DEF IndInv, PendingCounts
  <2>2. pending \in Nat
    BY <2>1, Signals
  <2> QED BY <1>1, <2>1, <2>2 DEF PendingCounts
<1> QED BY <1>1, <1>3, <1>4, <1>5 DEF IndInv, StartAssertHolds

(* All cores have signalled: each has ended the run, or had no part in it. *)
LEMMA AllEnded ==
  ASSUME TypeOK, IndInv, master.pc = "occur", NEW c \in Cores
  PROVE  ~Outstanding(c) /\ IdleBefore(dpState[c], toDp[c], Len(toDp[c]) + 1)
<1>1. Live /\ pending = 0 /\ pending = Cardinality({d \in Cores : ~signal[d]})
  BY DEF IndInv, MasterFollowsPort, PendingCounts
<1>2. {d \in Cores : ~signal[d]} = {}
  BY <1>1, Signals, FS_EmptySet
<1>3. signal[c]
  BY <1>2
<1>4. CoreInv(c)
  BY DEF IndInv
<1>5. CASE run.kind[c] = "none"
  BY <1>1, <1>4, <1>5 DEF CoreInv, CarriesRun, StartsGuarded
<1>6. CASE dpEvent[c] = counter /\ dpState[c] = "IDLE"
  <2>1. \A i \in 1 .. Len(toDp[c]) : toDp[c][i].type # "start"
    BY <1>4, <1>6, NoStart DEF CoreInv
  <2>2. Len(toDp[c]) \in Nat
    BY DEF TypeOK
  <2> QED BY <1>6, <2>1, <2>2 DEF Outstanding, IdleBefore
<1> QED BY <1>1, <1>3, <1>4, <1>5, <1>6 DEF CoreInv, EndsAreTrue

LEMMA MasterFinishes ==
  ASSUME TypeOK, IndInv, EventOccurred
  PROVE  IndInv'
<1> USE DEF dpVars, eventVars, Live
<1>1. /\ UNCHANGED <<run, counter, eventId, signal, pending, toDp, toCp, dpState, dpEvent,
                     dpKind, timers, failed>>
      /\ master.pc = "occur" /\ master'.pc = "disable" /\ port' = "STREAMS"
  BY DEF EventOccurred
<1>2. Live /\ ~Overlap
  BY <1>1 DEF IndInv, MasterFollowsPort
<1>3. ASSUME NEW c \in Cores PROVE CoreInv(c)' /\ ~Outstanding(c)'
  <2>1. CoreInv(c)
    BY DEF IndInv
  <2>2. ~Outstanding(c) /\ IdleBefore(dpState[c], toDp[c], Len(toDp[c]) + 1)
    BY <1>1, AllEnded
  <2>3. ~Outstanding(c)'
    BY <1>1, <2>2 DEF Outstanding
  <2>4. EndInFlight(c)' => EndInFlight(c)
    BY <1>1 DEF EndInFlight
  <2>5. IdsGrow(c)' /\ StartsGuarded(c)'
    BY <1>1, <2>1, <2>2 DEF CoreInv, IdsGrow, StartsGuarded, IdleBefore
  <2>6. CarriesRun(c)' /\ EndsAreTrue(c)' /\ EndNotLost(c)'
    BY <1>1, <2>1, <2>4 DEF CoreInv, CarriesRun, EndsAreTrue, EndNotLost
  <2> QED BY <2>3, <2>5, <2>6 DEF CoreInv
<1>4. EventFollowsPort' /\ MasterFollowsPort' /\ PendingCounts'
  BY <1>1, <1>2, <1>3 DEF EventFollowsPort, MasterFollowsPort, PendingCounts
<1> QED BY <1>1, <1>3, <1>4 DEF IndInv, StartAssertHolds

LEMMA MasterDisables ==
  ASSUME TypeOK, IndInv, DisableEvent
  PROVE  IndInv'
<1> USE DEF portVars, dpVars, Live
<1>1. /\ UNCHANGED <<port, run, counter, signal, pending, toDp, toCp, dpVars, timers, failed>>
      /\ master.pc = "disable" /\ master'.pc = "poll" /\ eventId' = Invalid
  BY DEF DisableEvent, Poll
<1>2. port = "STREAMS"
  BY <1>1 DEF IndInv, MasterFollowsPort
<1>3. \A d \in Cores : CoreInv(d)'
  BY <1>1, MasterFrame DEF IndInv
<1>4. EventFollowsPort' /\ MasterFollowsPort' /\ PendingCounts'
  BY <1>1, <1>2 DEF EventFollowsPort, MasterFollowsPort, PendingCounts
<1> QED BY <1>1, <1>3, <1>4 DEF IndInv, StartAssertHolds

LEMMA MasterInv ==
  ASSUME TypeOK, IndInv, Serialised, MasterStep
  PROVE  IndInv'
BY MasterHandles, MasterMarks, MasterTests, MasterFinishes, MasterDisables DEF MasterStep

-----------------------------------------------------------------------------
(***************************************************************************)
(* Steps of the RPC thread.                                                *)
(***************************************************************************)

(* No command runs while the master is inside handle_event.                *)
LEMMA RpcAlone ==
  ASSUME IndInv, RpcRuns
  PROVE  master.pc = "poll" /\ failed # "start"
BY DEF IndInv, MasterFollowsPort, RpcRuns, Quiet

(* A stop ends the run on every core; the other messages are part of it.   *)
LEMMA AppendCore ==
  ASSUME TypeOK, NEW c \in Cores, CoreInv(c), NEW m \in Msg, m.type # "start",
         toDp'[c] = Append(toDp[c], m),
         UNCHANGED <<run, counter, signal, toCp, dpVars, timers, master>>,
         \/ m.type = "stop" /\ ~Live'
         \/ m.type # "stop" /\ Live /\ Live'
  PROVE  CoreInv(c)'
<1> USE DEF dpVars
<1> DEFINE s == toDp[c]
<1>1. /\ s \in Seq(Msg) /\ Len(s) \in Nat /\ Len(toDp'[c]) = Len(s) + 1
      /\ toDp'[c][Len(s) + 1] = m
      /\ \A i \in 1 .. Len(s) : toDp'[c][i] = s[i]
  BY AppendFacts, IdTypes
<1>2. \A i \in 1 .. Len(toDp'[c]) :
        i \in 1 .. Len(s) \/ (i = Len(s) + 1 /\ toDp'[c][i].type # "start")
  BY <1>1
<1>3. Outstanding(c)' <=> Outstanding(c)
  BY <1>1, <1>2 DEF Outstanding
<1>4. EndInFlight(c)' <=> EndInFlight(c)
  BY DEF EndInFlight
<1>5. IdsGrow(c)'
  BY <1>1, <1>2 DEF CoreInv, IdsGrow
<1>6. StartsGuarded(c)'
  <2>1. ASSUME NEW i \in 1 .. Len(toDp'[c]), toDp'[c][i].type = "start"
        PROVE  IdleBefore(dpState[c], toDp'[c], i)
    <3>1. i \in 1 .. Len(s) /\ i \in 1 .. Len(s) + 1 /\ s[i].type = "start"
      BY <1>1, <1>2, <2>1
    <3>2. IdleBefore(dpState[c], s, i)
      BY <3>1 DEF CoreInv, StartsGuarded
    <3> QED BY <1>1, <3>1, <3>2, IdleBeforeAppend
  <2>2. ASSUME ~Live' \/ run.kind[c] = "none"
        PROVE  IdleBefore(dpState[c], toDp'[c], Len(toDp'[c]) + 1)
    <3>1. m.type = "stop" \/ IdleBefore(dpState[c], s, Len(s) + 1)
      BY <2>2 DEF CoreInv, StartsGuarded
    <3> QED BY <1>1, <3>1, IdleBeforeAppendLast
  <2> QED BY <2>1, <2>2 DEF StartsGuarded
<1>7. CarriesRun(c)'
  <2> SUFFICES ASSUME Live' PROVE CarriesRun(c)'
    BY DEF CarriesRun
  <2>1. Live /\ m.type # "stop"
    OBVIOUS
  <2>2. \A i \in 1 .. Len(toDp'[c]) :
          toDp'[c][i].type = "start" /\ toDp'[c][i].id = counter
            => toDp'[c][i].kind = run.kind[c] /\ toDp'[c][i].dur = run.dur
    BY <1>1, <1>2, <2>1 DEF CoreInv, CarriesRun
  <2>3. run.kind[c] # "none" =>
          \A i \in 1 .. Len(toDp'[c]) : toDp'[c][i].type = "stop" =>
            \E j \in i + 1 .. Len(toDp'[c]) : toDp'[c][j].type = "start"
    <3> SUFFICES ASSUME run.kind[c] # "none", NEW i \in 1 .. Len(toDp'[c]),
                        toDp'[c][i].type = "stop"
                 PROVE  \E j \in i + 1 .. Len(toDp'[c]) : toDp'[c][j].type = "start"
      OBVIOUS
    <3>1. i \in 1 .. Len(s) /\ s[i].type = "stop"
      BY <1>1, <2>1
    <3>2. PICK j \in i + 1 .. Len(s) : s[j].type = "start"
      BY <2>1, <3>1 DEF CoreInv, CarriesRun
    <3>3. j \in 1 .. Len(s) /\ j \in i + 1 .. Len(toDp'[c])
      BY <1>1, <3>2
    <3> QED BY <1>1, <3>2, <3>3
  <2> QED BY <1>3, <2>1, <2>2, <2>3 DEF CoreInv, CarriesRun, CanEnd
<1>8. EndsAreTrue(c)' /\ EndNotLost(c)'
  BY <1>3, <1>4 DEF CoreInv, EndsAreTrue, EndNotLost
<1> QED BY <1>5, <1>6, <1>7, <1>8 DEF CoreInv

LEMMA TableStep ==
  ASSUME TypeOK, IndInv, AddStream \/ RemoveStream \/ RemoveAllStreams \/ StartEmpty
  PROVE  IndInv'
<1> USE DEF eventVars, portVars, dpVars, Live
<1>1. /\ UNCHANGED <<run, counter, eventId, signal, pending, toDp, toCp, dpState, dpEvent,
                     dpKind, timers, master>>
      /\ port \in {"IDLE", "STREAMS"} /\ port' \in {"IDLE", "STREAMS"} /\ RpcRuns
      /\ failed' \in {failed, "empty"}
  BY DEF AddStream, RemoveStream, RemoveAllStreams, StartEmpty
<1>2. master.pc = "poll" /\ failed # "start"
  BY <1>1, RpcAlone
<1>3. ASSUME NEW d \in Cores PROVE CoreInv(d)'
  <2>1. CoreInv(d)
    BY DEF IndInv
  <2>2. EndInFlight(d)' <=> EndInFlight(d)
    BY <1>1 DEF EndInFlight
  <2>3. IdsGrow(d)' /\ StartsGuarded(d)'
    BY <1>1, <2>1 DEF CoreInv, IdsGrow, StartsGuarded, IdleBefore
  <2>4. CarriesRun(d)' /\ EndsAreTrue(d)' /\ EndNotLost(d)'
    BY <1>1, <2>1, <2>2 DEF CoreInv, CarriesRun, EndsAreTrue, EndNotLost
  <2> QED BY <2>3, <2>4 DEF CoreInv
<1>4. EventFollowsPort' /\ MasterFollowsPort' /\ PendingCounts'
  BY <1>1, <1>2 DEF IndInv, EventFollowsPort, MasterFollowsPort, PendingCounts
<1> QED BY <1>1, <1>2, <1>3, <1>4 DEF IndInv, StartAssertHolds

LEMMA StopStep ==
  ASSUME TypeOK, IndInv, StopTraffic
  PROVE  IndInv'
<1>1. /\ UNCHANGED <<run, counter, signal, pending, toCp, dpVars, timers, master, failed>>
      /\ eventId' = Invalid /\ port' = "STREAMS" /\ RpcRuns
  BY DEF StopTraffic
<1>2. master.pc = "poll" /\ failed # "start"
  BY <1>1, RpcAlone
<1>3. ~Live'
  BY <1>1 DEF Live
<1>4. ASSUME NEW c \in Cores PROVE CoreInv(c)'
  <2>1. toDp'[c] = Append(toDp[c], PlainMsg("stop"))
    BY DEF StopTraffic, SendToAll
  <2>2. PlainMsg("stop") \in Msg /\ PlainMsg("stop").type = "stop" /\ CoreInv(c)
    BY PlainMsgType DEF IndInv
  <2> QED BY <1>1, <1>3, <2>1, <2>2, AppendCore
<1>5. EventFollowsPort' /\ MasterFollowsPort' /\ PendingCounts'
  BY <1>1, <1>2, <1>3 DEF EventFollowsPort, MasterFollowsPort, PendingCounts
<1> QED BY <1>1, <1>2, <1>4, <1>5 DEF IndInv, StartAssertHolds

LEMMA RateStep ==
  ASSUME TypeOK, IndInv, PauseTraffic \/ ResumeTraffic \/ UpdateTraffic
  PROVE  IndInv'
<1>1. /\ UNCHANGED <<run, counter, eventId, signal, pending, toCp, dpVars, timers, master, failed>>
      /\ RpcRuns /\ Live /\ Live'
      /\ port' = "PAUSE" => port = "PAUSE" \/ (run.allCont /\ ~run.dur)
  BY DEF PauseTraffic, ResumeTraffic, UpdateTraffic, Live, eventVars
<1>2. master.pc = "poll" /\ failed # "start"
  BY <1>1, RpcAlone
<1>3. PICK t \in {"pause", "resume", "update"} : SendToAll(PlainMsg(t))
  BY DEF PauseTraffic, ResumeTraffic, UpdateTraffic
<1>4. ASSUME NEW c \in Cores PROVE CoreInv(c)'
  <2>1. toDp'[c] = Append(toDp[c], PlainMsg(t))
    BY <1>3 DEF SendToAll
  <2>2. PlainMsg(t) \in Msg /\ PlainMsg(t).type = t /\ CoreInv(c)
    BY PlainMsgType DEF IndInv
  <2> QED BY <1>1, <2>1, <2>2, AppendCore
<1>5. EventFollowsPort' /\ MasterFollowsPort' /\ PendingCounts'
  BY <1>1, <1>2 DEF IndInv, EventFollowsPort, MasterFollowsPort, PendingCounts
<1> QED BY <1>1, <1>2, <1>4, <1>5 DEF IndInv, StartAssertHolds

(* A new run: its id is larger than every id under way, and on every core  *)
(* that takes part its start message is the last of the ring.              *)
LEMMA StartRun ==
  ASSUME TypeOK, IndInv, NEW w \in Workloads, StartTraffic(w)
  PROVE  /\ IndInv'
         /\ \A c \in Cores : w.kind[c] # "none" => Outstanding(c)'
<1> USE DEF dpVars
<1>1. /\ UNCHANGED <<toCp, dpState, dpEvent, dpKind, timers, master, failed>>
      /\ port = "STREAMS" /\ port' = "TX" /\ run' = w /\ RpcRuns
      /\ counter' = counter + 1 /\ eventId' = counter'
      /\ signal' = [c \in Cores |-> w.kind[c] = "none"]
      /\ pending' = Cardinality({c \in Cores : w.kind[c] # "none"})
  BY DEF StartTraffic
<1>2. master.pc = "poll" /\ failed # "start" /\ ~Live /\ Live'
  BY <1>1, RpcAlone DEF Live
<1>3. w \in Workload /\ counter' \in Nat /\ counter \in Int /\ counter < counter'
  BY <1>1, WorkloadsAssumption DEF TypeOK, EventIds, Invalid
<1>4. ASSUME NEW c \in Cores PROVE CoreInv(c)' /\ (w.kind[c] # "none" => Outstanding(c)')
  <2> DEFINE s == toDp[c]
  <2>1. CoreInv(c)
    BY DEF IndInv
  <2>2. /\ dpEvent[c] \in Int /\ s \in Seq(Msg) /\ Len(s) \in Nat /\ Len(toCp[c]) \in Nat
        /\ \A i \in 1 .. Len(s) : s[i].id \in Int
        /\ \A i \in 1 .. Len(toCp[c]) : toCp[c][i] \in Int
    BY IdTypes
  <2>3. /\ dpEvent[c] < counter'
        /\ \A i \in 1 .. Len(s) :
             s[i].type = "start" => s[i].id <= counter /\ s[i].id < counter'
        /\ \A i \in 1 .. Len(toCp[c]) : toCp[c][i] < counter'
    <3>1. /\ dpEvent[c] <= counter
          /\ \A i \in 1 .. Len(s) : s[i].type = "start" => s[i].id <= counter
          /\ \A i \in 1 .. Len(toCp[c]) : toCp[c][i] <= counter
      BY <2>1 DEF CoreInv, IdsGrow
    <3>2. \A n \in Int : n <= counter => n < counter'
      BY <1>3
    <3> QED BY <2>2, <3>1, <3>2
  <2>4. ~EndInFlight(c)'
    BY <1>1, <1>2, <1>3, <2>2, <2>3 DEF EndInFlight
  <2>5. signal'[c] = (w.kind[c] = "none")
    BY <1>1
  <2>6. IdleBefore(dpState[c], s, Len(s) + 1)
    BY <1>2, <2>1 DEF CoreInv, StartsGuarded
  <2>7. CASE w.kind[c] = "none"
    <3>1. toDp'[c] = s
      BY <2>7 DEF StartTraffic
    <3>2. ~Outstanding(c)'
      BY <1>1, <1>3, <2>2, <2>3, <3>1 DEF Outstanding
    <3>3. IdsGrow(c)'
      BY <1>1, <1>3, <2>1, <2>2, <2>3, <3>1 DEF CoreInv, IdsGrow
    <3>4. StartsGuarded(c)'
      BY <1>1, <2>1, <2>6, <3>1 DEF CoreInv, StartsGuarded, IdleBefore
    <3>5. CarriesRun(c)'
      <4>1. dpEvent'[c] # counter' /\ signal'[c]
        <5>1. dpEvent[c] # counter'
          BY <1>3, <2>2, <2>3
        <5>2. signal'[c] = TRUE
          BY <2>5, <2>7, Zenon
        <5> QED BY <1>1, <5>1, <5>2
      <4>2. \A i \in 1 .. Len(toDp'[c]) :
              ~(toDp'[c][i].type = "start" /\ toDp'[c][i].id = counter')
        BY <1>3, <2>2, <2>3, <3>1
      <4> QED BY <1>1, <2>7, <3>2, <4>1, <4>2 DEF CarriesRun
    <3>6. EndsAreTrue(c)' /\ EndNotLost(c)'
      BY <1>1, <2>4, <2>5, <2>7 DEF EndsAreTrue, EndNotLost
    <3> QED BY <2>7, <3>3, <3>4, <3>5, <3>6 DEF CoreInv
  <2>8. CASE w.kind[c] # "none"
    <3> DEFINE m == StartMsg(counter', w.kind[c], w.dur)
    <3>1. toDp'[c] = Append(s, m)
      BY <2>8 DEF StartTraffic
    <3>2. /\ m \in Msg /\ m.type = "start" /\ m.id = counter'
          /\ m.kind = w.kind[c] /\ m.dur = w.dur
      BY <1>3, StartMsgType DEF Workload
    <3>3. /\ Len(toDp'[c]) = Len(s) + 1 /\ toDp'[c][Len(s) + 1] = m
          /\ \A i \in 1 .. Len(s) : toDp'[c][i] = s[i]
          /\ \A i \in 1 .. Len(toDp'[c]) : i \in 1 .. Len(s) \/ i = Len(s) + 1
          /\ Len(s) + 1 \in 1 .. Len(toDp'[c])
      BY <2>2, <3>1, <3>2, AppendFacts
    <3> HIDE DEF m
    <3>4. Outstanding(c)'
      BY <3>2, <3>3 DEF Outstanding
    <3>5. IdsGrow(c)'
      <4>1. \A i \in 1 .. Len(toDp'[c]) :
              toDp'[c][i].type = "start"
                => dpEvent[c] < toDp'[c][i].id /\ toDp'[c][i].id <= counter'
        <5>1. \A i \in 1 .. Len(s) :
                s[i].type = "start" => dpEvent[c] < s[i].id /\ s[i].id <= counter'
          BY <1>3, <2>1, <2>2, <2>3 DEF CoreInv, IdsGrow
        <5>2. dpEvent[c] < m.id /\ m.id <= counter'
          BY <1>3, <2>2, <2>3, <3>2
        <5> QED BY <3>3, <5>1, <5>2
      <4>2. ASSUME NEW i \in 1 .. Len(toDp'[c]), NEW j \in 1 .. Len(toDp'[c]), i < j,
                   toDp'[c][i].type = "start", toDp'[c][j].type = "start"
            PROVE  toDp'[c][i].id < toDp'[c][j].id
        <5>1. i \in 1 .. Len(s) /\ s[i].type = "start" /\ toDp'[c][i] = s[i]
          BY <2>2, <3>3, <4>2
        <5>2. CASE j = Len(s) + 1
          BY <2>3, <3>2, <3>3, <5>1, <5>2
        <5>3. CASE j \in 1 .. Len(s)
          <6>1. toDp'[c][j] = s[j] /\ s[j].type = "start"
            BY <3>3, <4>2, <5>3
          <6> QED BY <2>1, <4>2, <5>1, <5>3, <6>1 DEF CoreInv, IdsGrow
        <5> QED BY <3>3, <5>2, <5>3
      <4>3. /\ dpEvent[c] <= counter' /\ \A id \in timers[c] : id <= dpEvent[c]
            /\ \A i \in 1 .. Len(toCp[c]) : toCp[c][i] <= counter'
        BY <1>3, <2>1, <2>2, <2>3 DEF CoreInv, IdsGrow
      <4> QED BY <1>1, <4>1, <4>2, <4>3 DEF IdsGrow
    <3>6. StartsGuarded(c)'
      <4>1. ASSUME NEW i \in 1 .. Len(toDp'[c]), toDp'[c][i].type = "start"
            PROVE  IdleBefore(dpState[c], toDp'[c], i)
        <5>1. i \in 1 .. Len(s) + 1
          BY <3>3
        <5>2. IdleBefore(dpState[c], s, i)
          <6>1. CASE i = Len(s) + 1
            BY <2>6, <6>1
          <6>2. CASE i \in 1 .. Len(s)
            BY <2>1, <3>3, <4>1, <6>2 DEF CoreInv, StartsGuarded
          <6> QED BY <3>3, <6>1, <6>2
        <5> QED BY <2>2, <3>1, <3>2, <5>1, <5>2, IdleBeforeAppend
      <4> QED BY <1>1, <1>2, <2>8, <4>1 DEF StartsGuarded
    <3>7. CarriesRun(c)'
      <4>1. \A i \in 1 .. Len(toDp'[c]) :
              toDp'[c][i].type = "start" /\ toDp'[c][i].id = counter'
                => toDp'[c][i].kind = w.kind[c] /\ toDp'[c][i].dur = w.dur
        <5> SUFFICES ASSUME NEW i \in 1 .. Len(toDp'[c]),
                            toDp'[c][i].type = "start", toDp'[c][i].id = counter'
                     PROVE  toDp'[c][i].kind = w.kind[c] /\ toDp'[c][i].dur = w.dur
          OBVIOUS
        <5>1. CASE i = Len(s) + 1
          BY <3>2, <3>3, <5>1
        <5>2. CASE i \in 1 .. Len(s)
          <6>1. toDp'[c][i] = s[i]
            BY <3>3, <5>2
          <6>2. s[i].id < counter' /\ s[i].id \in Int
            BY <2>2, <2>3, <5>2, <6>1
          <6> QED BY <1>3, <6>1, <6>2
        <5> QED BY <3>3, <5>1, <5>2
      <4>2. \A i \in 1 .. Len(toDp'[c]) : toDp'[c][i].type = "stop" =>
              \E j \in i + 1 .. Len(toDp'[c]) : toDp'[c][j].type = "start"
        <5> SUFFICES ASSUME NEW i \in 1 .. Len(toDp'[c]), toDp'[c][i].type = "stop"
                     PROVE  \E j \in i + 1 .. Len(toDp'[c]) : toDp'[c][j].type = "start"
          OBVIOUS
        <5>1. i \in 1 .. Len(s)
          BY <3>2, <3>3
        <5>2. Len(s) + 1 \in i + 1 .. Len(toDp'[c])
          BY <2>2, <3>3, <5>1
        <5> QED BY <3>2, <3>3, <5>2
      <4>3. dpEvent[c] # counter'
        BY <1>3, <2>2, <2>3
      <4> QED BY <1>1, <2>8, <4>1, <4>2, <4>3 DEF CarriesRun
    <3>8. EndsAreTrue(c)' /\ EndNotLost(c)'
      BY <1>1, <2>4, <2>5, <2>8, <3>4 DEF EndsAreTrue, EndNotLost
    <3> QED BY <3>4, <3>5, <3>6, <3>7, <3>8 DEF CoreInv
  <2> QED BY <2>7, <2>8
<1>5. EventFollowsPort' /\ MasterFollowsPort'
  BY <1>1, <1>2, <1>3 DEF EventFollowsPort, MasterFollowsPort
<1>6. PendingCounts'
  <2>1. {c \in Cores : ~signal'[c]} = {c \in Cores : w.kind[c] # "none"}
    BY <1>1
  <2>2. IsFiniteSet({c \in Cores : w.kind[c] # "none"})
    BY CoresAssumption, FS_Subset
  <2>3. {c \in Cores : w.kind[c] # "none"} # {}
    BY WorkloadsAssumption
  <2>4. pending' \in Nat /\ pending' # 0
    BY <1>1, <2>2, <2>3, FS_CardinalityType, FS_EmptySet
  <2> QED BY <1>1, <2>1, <2>4 DEF PendingCounts
<1> QED BY <1>1, <1>2, <1>4, <1>5, <1>6 DEF IndInv, StartAssertHolds

LEMMA RpcInv ==
  ASSUME TypeOK, IndInv, RpcStep
  PROVE  IndInv'
BY TableStep, StartRun, StopStep, RateStep DEF RpcStep

-----------------------------------------------------------------------------
(***************************************************************************)
(* The invariant and what follows from it.                                 *)
(***************************************************************************)
LEMMA InitInv == Init => IndInv
<1> SUFFICES ASSUME Init PROVE IndInv
  OBVIOUS
<1> USE DEF Init, Live, Poll, Invalid
<1>1. ASSUME NEW c \in Cores PROVE CoreInv(c)
  <2>1. toDp[c] = << >> /\ toCp[c] = << >> /\ Len(toDp[c]) = 0 /\ Len(toCp[c]) = 0
    OBVIOUS
  <2>2. IdsGrow(c) /\ StartsGuarded(c)
    BY <2>1 DEF IdsGrow, StartsGuarded, IdleBefore
  <2>3. CarriesRun(c) /\ EndsAreTrue(c) /\ EndNotLost(c)
    BY <2>1 DEF CarriesRun, EndsAreTrue, EndNotLost, EndInFlight
  <2> QED BY <2>2, <2>3 DEF CoreInv
<1>2. EventFollowsPort /\ MasterFollowsPort /\ PendingCounts /\ StartAssertHolds
  BY DEF EventFollowsPort, MasterFollowsPort, PendingCounts, StartAssertHolds, Quiet
<1> QED BY <1>1, <1>2 DEF IndInv

(* When commands and handle_event do not overlap, or no run ends by        *)
(* itself, the event object, the rings, the cores and the master always    *)
(* tell the same story about the run the port is in.                       *)
THEOREM ProtocolInvariant ==
  ASSUME Serialised
  PROVE  Spec => []IndInv
<1>1. TypeOK /\ IndInv /\ [Next]_vars => IndInv'
  <2> SUFFICES ASSUME TypeOK, IndInv, [Next]_vars PROVE IndInv'
    OBVIOUS
  <2>1. CASE UNCHANGED vars
    <3>1. CpUnchanged /\ failed' = failed
      BY <2>1 DEF vars, portVars, CpUnchanged
    <3>2. \A c \in Cores : CoreInv(c)' /\ (Outstanding(c)' <=> Outstanding(c))
      BY <2>1, <3>1, CoreFrame DEF vars, dpVars, IndInv
    <3> QED BY <3>1, <3>2, CpFrame DEF IndInv, StartAssertHolds
  <2> QED BY <2>1, RpcInv, MasterInv, DpInv DEF Next
<1> QED BY <1>1, InitInv, TypeCorrect, PTL DEF Spec

(* No start message ever meets the nodes of an earlier run: the assert of  *)
(* TrexStatelessDpCore::start_traffic holds for any number of cores.       *)
THEOREM StartNeverAsserts ==
  ASSUME Serialised
  PROVE  Spec => []StartAssertHolds
<1>1. IndInv => StartAssertHolds
  BY DEF IndInv
<1> QED BY <1>1, ProtocolInvariant, PTL

(* A port that is not transmitting has a stop under way to every core that *)
(* still is: stop_traffic never leaves traffic behind.                     *)
THEOREM StopReachesEveryCore ==
  ASSUME Serialised
  PROVE  Spec => []StopOnItsWay
<1>1. TypeOK /\ IndInv => StopOnItsWay
  <2> SUFFICES ASSUME TypeOK, IndInv, ~Live, NEW c \in Cores, dpState[c] # "IDLE"
               PROVE  Holds(c, "stop")
    BY DEF StopOnItsWay
  <2>1. IdleBefore(dpState[c], toDp[c], Len(toDp[c]) + 1) /\ Len(toDp[c]) \in Nat
    BY DEF IndInv, CoreInv, StartsGuarded, TypeOK
  <2> QED BY <2>1 DEF IdleBefore, Holds
<1> QED BY <1>1, TypeCorrect, ProtocolInvariant, PTL

(* A stop message never hits a run it was not sent for.                    *)
THEOREM StopsHitTheirRun ==
  ASSUME Serialised
  PROVE  Spec => []NoStrayStop
<1>1. TypeOK /\ IndInv => NoStrayStop
  BY NoStop DEF NoStrayStop, IndInv
<1> QED BY <1>1, TypeCorrect, ProtocolInvariant, PTL

(* FINISHED_TX is sent only when no core owes the end of the run.          *)
THEOREM FinishedMeansDrained ==
  ASSUME Serialised
  PROVE  Spec => []FinishedIsDrained
<1>1. TypeOK /\ IndInv => FinishedIsDrained
  BY AllEnded DEF FinishedIsDrained, IndInv, MasterFollowsPort
<1> QED BY <1>1, TypeCorrect, ProtocolInvariant, PTL

(* While the port waits for the end of a run every core that has not       *)
(* signalled can still do so, and m_pending_cnt is their number.           *)
THEOREM NoEndIsLost ==
  ASSUME Serialised
  PROVE  Spec => []EveryEndAccounted
<1>1. IndInv => EveryEndAccounted
  BY DEF EveryEndAccounted, IndInv, EventFollowsPort, CoreInv, EndNotLost, PendingCounts
<1> QED BY <1>1, ProtocolInvariant, PTL

-----------------------------------------------------------------------------
(***************************************************************************)
(* The protocol implements PortLifecycle.                                  *)
(***************************************************************************)

(* Continuous traffic without a duration is carried by all the cores.      *)
LEMMA AllActive ==
  TypeOK /\ IndInv /\ Live /\ run.allCont /\ ~run.dur => \A c \in Cores : Outstanding(c)
<1> SUFFICES ASSUME TypeOK, IndInv, Live, run.allCont, ~run.dur, NEW c \in Cores
             PROVE  Outstanding(c)
  OBVIOUS
<1>1. run \in Workloads
  BY DEF IndInv, EventFollowsPort
<1>2. \A d \in Cores : run.kind[d] = "endless"
  BY <1>1, WorkloadsAssumption
<1>3. ~CanEnd(run)
  BY <1>2 DEF CanEnd
<1>4. ~(dpEvent[c] = counter /\ dpState[c] = "IDLE")
  BY <1>3 DEF IndInv, CoreInv, CarriesRun
<1>5. ~EndInFlight(c) /\ ~signal[c]
  BY <1>2, <1>4 DEF IndInv, CoreInv, EndsAreTrue
<1> QED BY <1>5 DEF IndInv, CoreInv, EndNotLost

LEMMA PausedAllActive ==
  TypeOK /\ IndInv /\ port = "PAUSE" => \A c \in Cores : Outstanding(c)
BY AllActive DEF IndInv, EventFollowsPort, Live

LEMMA PausedAllActiveNext ==
  (TypeOK /\ IndInv /\ port = "PAUSE" => \A c \in Cores : Outstanding(c))'
BY PausedAllActive, PTL

(* When the port is not in a run, no core is active: each one has ended or *)
(* has a stop in its ring.                                                 *)
LEMMA ActiveWhenLive ==
  TypeOK /\ IndInv => ActiveCores = IF Live THEN {c \in Cores : Outstanding(c)} ELSE {}
<1> SUFFICES ASSUME TypeOK, IndInv
             PROVE  ActiveCores = IF Live THEN {c \in Cores : Outstanding(c)} ELSE {}
  OBVIOUS
<1>1. CASE Live
  BY <1>1 DEF ActiveCores
<1>2. CASE ~Live
  <2>1. ASSUME NEW c \in Cores, Outstanding(c) PROVE Holds(c, "stop")
    <3>1. Len(toDp[c]) \in Nat
      BY DEF TypeOK
    <3>2. 1 .. (Len(toDp[c]) + 1) - 1 = 1 .. Len(toDp[c])
      BY <3>1
    <3>3. IdleBefore(dpState[c], toDp[c], Len(toDp[c]) + 1)
      BY <1>2 DEF IndInv, CoreInv, StartsGuarded
    <3>4. ~(dpState[c] = "IDLE" /\ \A k \in 1 .. Len(toDp[c]) : toDp[c][k].type # "start")
      BY <2>1 DEF Outstanding
    <3>5. \E j \in 1 .. Len(toDp[c]) : toDp[c][j].type = "stop"
      BY <3>2, <3>3, <3>4 DEF IdleBefore
    <3> QED BY <3>5 DEF Holds
  <2> QED BY <1>2, <2>1 DEF ActiveCores
<1> QED BY <1>1, <1>2

LEMMA ActiveWhenLiveNext ==
  (TypeOK /\ IndInv => ActiveCores = IF Live THEN {c \in Cores : Outstanding(c)} ELSE {})'
BY ActiveWhenLive, PTL

(* Every step of the threads is a step of the lifecycle or a stutter.      *)
LEMMA LifecycleStep ==
  ASSUME TypeOK, IndInv, TypeOK', IndInv', [Next]_vars
  PROVE  [Lifecycle!PNext]_(Lifecycle!pvars)
<1> USE DEF Lifecycle!pvars
<1>a. ActiveCores = IF Live THEN {c \in Cores : Outstanding(c)} ELSE {}
  BY ActiveWhenLive
<1>b. ActiveCores' = IF Live' THEN {c \in Cores : Outstanding(c)'} ELSE {}
  BY ActiveWhenLiveNext
<1>1. CASE UNCHANGED vars
  <2>1. port' = port /\ ActiveCores' = ActiveCores
    BY <1>1, <1>a, <1>b DEF vars, portVars, eventVars, dpVars, Live, Outstanding
  <2> QED BY <2>1
<1>2. CASE AddStream \/ RemoveStream \/ RemoveAllStreams \/ StartEmpty
  <2>1. port \in {"IDLE", "STREAMS"} /\ port' \in {"IDLE", "STREAMS"}
    BY <1>2 DEF AddStream, RemoveStream, RemoveAllStreams, StartEmpty, portVars
  <2>2. ActiveCores = {} /\ ActiveCores' = {}
    BY <1>a, <1>b, <2>1 DEF Live
  <2> QED BY <2>1, <2>2 DEF Lifecycle!PNext, Lifecycle!Configure
<1>3. ASSUME NEW w \in Workloads, StartTraffic(w) PROVE Lifecycle!Start
  <2>1. port = "STREAMS" /\ port' = "TX"
    BY <1>3 DEF StartTraffic
  <2>2. ActiveCores' = {c \in Cores : Outstanding(c)'}
    BY <1>b, <2>1 DEF Live
  <2>3. PICK c \in Cores : w.kind[c] # "none"
    BY WorkloadsAssumption
  <2>4. c \in ActiveCores'
    BY <1>3, <2>2, <2>3, StartRun
  <2> QED BY <2>1, <2>2, <2>4 DEF Lifecycle!Start
<1>4. CASE StopTraffic
  <2>1. Live /\ port' = "STREAMS"
    BY <1>4 DEF StopTraffic
  <2> QED BY <1>b, <2>1 DEF Live, Lifecycle!PNext, Lifecycle!Stop
<1>5. ASSUME PauseTraffic \/ ResumeTraffic \/ UpdateTraffic PROVE ActiveCores' = ActiveCores
  <2>1. PICK t \in {"pause", "resume", "update"} : SendToAll(PlainMsg(t))
    BY <1>5 DEF PauseTraffic, ResumeTraffic, UpdateTraffic
  <2>2. Live /\ Live' /\ UNCHANGED <<counter, dpState, dpEvent>>
    BY <1>5 DEF PauseTraffic, ResumeTraffic, UpdateTraffic, Live, dpVars, eventVars
  <2>3. ASSUME NEW c \in Cores PROVE Outstanding(c)' <=> Outstanding(c)
    <3>1. /\ Len(toDp[c]) \in Nat /\ Len(toDp'[c]) = Len(toDp[c]) + 1
          /\ toDp'[c][Len(toDp[c]) + 1].type # "start"
          /\ \A i \in 1 .. Len(toDp[c]) : toDp'[c][i] = toDp[c][i]
      <4>1. toDp[c] \in Seq(Msg) /\ toDp'[c] = Append(toDp[c], PlainMsg(t))
        BY <2>1 DEF SendToAll, TypeOK
      <4>2. PlainMsg(t) \in Msg /\ PlainMsg(t).type = t
        BY PlainMsgType
      <4> QED BY <4>1, <4>2, AppendFacts
    <3>2. \A i \in 1 .. Len(toDp'[c]) : i \in 1 .. Len(toDp[c]) \/ i = Len(toDp[c]) + 1
      BY <3>1
    <3>3. \A i \in 1 .. Len(toDp[c]) : i \in 1 .. Len(toDp'[c])
      BY <3>1
    <3> QED BY <2>2, <3>1, <3>2, <3>3 DEF Outstanding
  <2> QED BY <1>a, <1>b, <2>2, <2>3
<1>6. CASE PauseTraffic
  <2>1. port = "TX" /\ port' = "PAUSE" /\ Live /\ run.allCont /\ ~run.dur
    BY <1>6 DEF PauseTraffic, Live
  <2>2. ActiveCores = Cores
    BY <1>a, <2>1, AllActive
  <2> QED BY <1>5, <1>6, <2>1, <2>2 DEF Lifecycle!PNext, Lifecycle!Pause
<1>7. CASE ResumeTraffic
  BY <1>5, <1>7 DEF ResumeTraffic, Lifecycle!PNext, Lifecycle!Resume
<1>8. CASE UpdateTraffic
  BY <1>5, <1>8 DEF UpdateTraffic
<1>9. CASE (\E c \in Cores : HandleEvent(c)) \/ MarkSignal \/ TestPending \/ DisableEvent
  <2>1. port' = port /\ UNCHANGED <<counter, toDp, dpState, dpEvent>>
    BY <1>9 DEF HandleEvent, MarkSignal, TestPending, DisableEvent, portVars, eventVars, dpVars
  <2>2. ActiveCores' = ActiveCores
    BY <1>a, <1>b, <2>1 DEF Live, Outstanding
  <2> QED BY <2>1, <2>2
<1>10. CASE EventOccurred
  <2>1. master.pc = "occur" /\ port' = "STREAMS"
    BY <1>10 DEF EventOccurred
  <2>2. Live /\ \A c \in Cores : ~Outstanding(c)
    BY <2>1, AllEnded DEF IndInv, MasterFollowsPort
  <2>3. port = "TX"
    BY <2>2, PausedAllActive, CoresAssumption DEF Live
  <2>4. ActiveCores = {} /\ ActiveCores' = {}
    BY <1>a, <1>b, <2>1, <2>2 DEF Live
  <2> QED BY <2>1, <2>3, <2>4 DEF Lifecycle!PNext, Lifecycle!Finish
<1>11. ASSUME NEW c \in Cores, DpStep(c) PROVE [Lifecycle!PNext]_(Lifecycle!pvars)
  <2>1. port' = port
    BY <1>11 DEF DpStep, DpAssertFails, DpStart, DpStop, DpPause, DpResume, DpUpdate,
                 StartScheduler, FlowSync, SyncContinue, SyncExit, StreamsEnd, DurationElapses,
                 portVars
  <2>2. OnlyEnds(c)
    BY <1>11, DpInv
  <2>3. CASE ActiveCores' = ActiveCores
    BY <2>1, <2>3
  <2>4. CASE ActiveCores' # ActiveCores
    <3>1. Live /\ Live'
      BY <1>a, <1>b, <2>1, <2>4 DEF Live
    <3>2. c \in ActiveCores /\ ActiveCores' = ActiveCores \ {c}
      BY <1>a, <1>b, <2>2, <2>4, <3>1 DEF OnlyEnds
    <3>3. port = "TX"
      BY <2>1, <3>1, <3>2, PausedAllActiveNext, <1>b DEF Live
    <3> QED BY <2>1, <3>2, <3>3 DEF Lifecycle!PNext, Lifecycle!CoreEnds
  <2> QED BY <2>3, <2>4
<1> QED BY <1>1, <1>2, <1>3, <1>4, <1>6, <1>7, <1>8, <1>9, <1>10, <1>11
        DEF Next, RpcStep, MasterStep, Lifecycle!PNext

(* The threads, rings and counters of the protocol together behave like a  *)
(* port that is left only by a stop or when every core has ended the run.  *)
THEOREM LifecycleImplemented ==
  ASSUME Serialised
  PROVE  Spec => ImplementsLifecycle
<1>1. Init => Lifecycle!PInit
  BY DEF Init, Lifecycle!PInit, ActiveCores, Outstanding
<1>2. TypeOK /\ IndInv /\ TypeOK' /\ IndInv' /\ [Next]_vars => [Lifecycle!PNext]_(Lifecycle!pvars)
  BY LifecycleStep
<1> QED BY <1>1, <1>2, TypeCorrect, ProtocolInvariant, PTL
        DEF Spec, ImplementsLifecycle, Lifecycle!PSpec

-----------------------------------------------------------------------------
(***************************************************************************)
(* What a run looks like from inside the rings: a pause or a resume finds  *)
(* the core in the state the RPC thread believed it in when it sent the    *)
(* message, and every update reaches every core of the run once.           *)
(*                                                                         *)
(* The invariant above follows the starts, the stops and the ends of a     *)
(* run.  Pauses, resumes and updates need a second layer on top of that    *)
(* invariant, for two facts it does not hold: in which state a core is     *)
(* when it comes to a message, and why the run does not end before.        *)
(***************************************************************************)

(* The state a message other than an update leaves a core in.              *)
After(type) ==
  IF type = "pause" THEN "PAUSE" ELSE IF type = "stop" THEN "IDLE" ELSE "TRANSMITTING"

(* A core in state st that comes to the i-th message of q is then in X.    *)
Phase(X, st, q, i) ==
  \/ st \in X /\ \A k \in 1 .. i - 1 : q[k].type = "update"
  \/ \E j \in 1 .. i - 1 : /\ q[j].type # "update" /\ After(q[j].type) \in X
                           /\ \A k \in j + 1 .. i - 1 : q[k].type = "update"

(* ... and then carries a run that only a stop ends: its streams have no   *)
(* end and no duration command was scheduled for it.                       *)
Unending(kind, timed, q, i) ==
  \/ kind = "endless" /\ ~timed /\ \A k \in 1 .. i - 1 : q[k].type # "start"
  \/ \E j \in 1 .. i - 1 : /\ q[j].type = "start" /\ q[j].kind = "endless" /\ ~q[j].dur
                           /\ \A k \in j + 1 .. i - 1 : q[k].type # "start"

HasTimer(c) == dpEvent[c] \in timers[c]

(* The core c, when it comes to the i-th message of its ring.              *)
Meets(c, X, i) == Phase(X, dpState[c], toDp[c], i)
Endures(c, i)  == Unending(dpKind[c], HasTimer(c), toDp[c], i)

(* A queued pause finds the core transmitting, a queued resume paused.     *)
PausesFit(c) ==
  \A i \in 1 .. Len(toDp[c]) :
    /\ toDp[c][i].type = "pause" => Meets(c, {"TRANSMITTING"}, i) /\ Endures(c, i)
    /\ toDp[c][i].type = "resume" => Meets(c, {"PAUSE"}, i) /\ Endures(c, i)

(* What the port believes is where the ring leads every core.              *)
EndOfRing(c) ==
  LET n == Len(toDp[c]) + 1 IN
  /\ Live /\ run.allCont /\ ~run.dur => Endures(c, n)
  /\ port = "TX" /\ run.allCont /\ ~run.dur => Meets(c, {"TRANSMITTING"}, n)
  /\ port = "PAUSE" => Meets(c, {"PAUSE"}, n)
  /\ port # "PAUSE" => Meets(c, {"IDLE", "TRANSMITTING"}, n)

(* The updates behind the j-th message of a queue.                         *)
UpdatesAfter(q, j) == {i \in j + 1 .. Len(q) : q[i].type = "update"}

(* The updates a core has made, and those in its ring that it will make in *)
(* this run, are the updates of the port.                                  *)
RateFollows(c) ==
  Live =>
    /\ \A j \in 1 .. Len(toDp[c]) :
         toDp[c][j].type = "start" /\ toDp[c][j].id = counter
           => Cardinality(UpdatesAfter(toDp[c], j)) = factor
    /\ dpEvent[c] = counter /\ dpState[c] # "IDLE"
         => dpFactor[c] + Cardinality(UpdatesAfter(toDp[c], 0)) = factor

CoreRun(c) == PausesFit(c) /\ EndOfRing(c) /\ RateFollows(c)

RunInv ==
  /\ \A c \in Cores : CoreRun(c)
  /\ PauseAssertsHold

-----------------------------------------------------------------------------
(***************************************************************************)
(* Queues.                                                                 *)
(***************************************************************************)
LEMMA PhaseFirst ==
  ASSUME NEW X, NEW st, NEW q
  PROVE  Phase(X, st, q, 1) <=> st \in X
BY DEF Phase

LEMMA PhaseTail ==
  ASSUME NEW q \in Seq(Msg), q # << >>, NEW i \in 2 .. Len(q) + 1, NEW X, NEW st, NEW st2,
         Phase(X, st, q, i),
         \/ Head(q).type = "update" /\ st2 = st
         \/ Head(q).type # "update" /\ st2 = After(Head(q).type)
  PROVE  Phase(X, st2, Tail(q), i - 1)
<1>1. /\ Len(q) \in Nat /\ Len(Tail(q)) = Len(q) - 1 /\ Head(q) = q[1]
      /\ \A k \in 1 .. Len(q) - 1 : Tail(q)[k] = q[k + 1]
  BY TailFacts
<1>2. CASE st \in X /\ \A k \in 1 .. i - 1 : q[k].type = "update"
  BY <1>1, <1>2 DEF Phase
<1>3. CASE \E j \in 1 .. i - 1 : /\ q[j].type # "update" /\ After(q[j].type) \in X
                                 /\ \A k \in j + 1 .. i - 1 : q[k].type = "update"
  <2>1. PICK j \in 1 .. i - 1 : /\ q[j].type # "update" /\ After(q[j].type) \in X
                                /\ \A k \in j + 1 .. i - 1 : q[k].type = "update"
    BY <1>3
  <2>2. CASE j = 1
    <3>1. st2 \in X
      BY <1>1, <2>1, <2>2
    <3>2. \A k \in 1 .. (i - 1) - 1 : Tail(q)[k].type = "update"
      BY <1>1, <2>1, <2>2
    <3> QED BY <3>1, <3>2 DEF Phase
  <2>3. CASE j > 1
    <3>1. j - 1 \in 1 .. (i - 1) - 1 /\ Tail(q)[j - 1] = q[j]
      BY <1>1, <2>1, <2>3
    <3>2. \A k \in (j - 1) + 1 .. (i - 1) - 1 : Tail(q)[k].type = "update"
      BY <1>1, <2>1, <2>3
    <3> QED BY <2>1, <3>1, <3>2 DEF Phase
  <2> QED BY <2>2, <2>3
<1> QED BY <1>2, <1>3 DEF Phase

LEMMA PhaseAppend ==
  ASSUME NEW q \in Seq(Msg), NEW m \in Msg, NEW X, NEW st, NEW i \in 1 .. Len(q) + 1,
         Phase(X, st, q, i)
  PROVE  Phase(X, st, Append(q, m), i)
<1>1. \A k \in 1 .. i - 1 : Append(q, m)[k] = q[k]
  BY AppendFacts
<1> QED BY <1>1 DEF Phase

LEMMA PhaseAppendLast ==
  ASSUME NEW q \in Seq(Msg), NEW m \in Msg, NEW X, NEW st,
         \/ m.type = "update" /\ Phase(X, st, q, Len(q) + 1)
         \/ m.type # "update" /\ After(m.type) \in X
  PROVE  Phase(X, st, Append(q, m), Len(Append(q, m)) + 1)
<1>1. /\ Len(q) \in Nat /\ Len(Append(q, m)) = Len(q) + 1 /\ Append(q, m)[Len(q) + 1] = m
      /\ \A k \in 1 .. Len(q) : Append(q, m)[k] = q[k]
  BY AppendFacts
<1>2. CASE m.type # "update" /\ After(m.type) \in X
  BY <1>1, <1>2 DEF Phase
<1>3. CASE m.type = "update" /\ Phase(X, st, q, Len(q) + 1)
  <2>1. CASE st \in X /\ \A k \in 1 .. Len(q) : q[k].type = "update"
    BY <1>1, <1>3, <2>1 DEF Phase
  <2>2. CASE \E j \in 1 .. Len(q) : /\ q[j].type # "update" /\ After(q[j].type) \in X
                                    /\ \A k \in j + 1 .. Len(q) : q[k].type = "update"
    <3>1. PICK j \in 1 .. Len(q) : /\ q[j].type # "update" /\ After(q[j].type) \in X
                                   /\ \A k \in j + 1 .. Len(q) : q[k].type = "update"
      BY <2>2
    <3>2. j \in 1 .. (Len(Append(q, m)) + 1) - 1 /\ Append(q, m)[j] = q[j]
      BY <1>1
    <3>3. \A k \in j + 1 .. (Len(Append(q, m)) + 1) - 1 : Append(q, m)[k].type = "update"
      BY <1>1, <1>3, <3>1
    <3> QED BY <3>1, <3>2, <3>3 DEF Phase
  <2>3. 1 .. (Len(q) + 1) - 1 = 1 .. Len(q)
        /\ \A j \in 1 .. Len(q) : j + 1 .. (Len(q) + 1) - 1 = j + 1 .. Len(q)
    BY <1>1
  <2> QED BY <1>3, <2>1, <2>2, <2>3 DEF Phase
<1> QED BY <1>2, <1>3

(* The state of the core matters only as long as nothing replaces it.      *)
LEMMA PhaseState ==
  ASSUME NEW q, NEW i, NEW X, NEW st, NEW st2, Phase(X, st, q, i),
         (st \in X => st2 \in X) \/ \E k \in 1 .. i - 1 : q[k].type # "update"
  PROVE  Phase(X, st2, q, i)
BY DEF Phase

LEMMA UnendingTail ==
  ASSUME NEW q \in Seq(Msg), q # << >>, NEW i \in 2 .. Len(q) + 1,
         NEW kind, NEW timed, NEW kind2, NEW timed2, Unending(kind, timed, q, i),
         \/ Head(q).type # "start" /\ kind2 = kind /\ (timed2 => timed)
         \/ Head(q).type = "start" /\ kind2 = Head(q).kind /\ (timed2 => Head(q).dur)
  PROVE  Unending(kind2, timed2, Tail(q), i - 1)
<1>1. /\ Len(q) \in Nat /\ Len(Tail(q)) = Len(q) - 1 /\ Head(q) = q[1]
      /\ \A k \in 1 .. Len(q) - 1 : Tail(q)[k] = q[k + 1]
  BY TailFacts
<1>2. CASE kind = "endless" /\ ~timed /\ \A k \in 1 .. i - 1 : q[k].type # "start"
  BY <1>1, <1>2 DEF Unending
<1>3. CASE \E j \in 1 .. i - 1 : /\ q[j].type = "start" /\ q[j].kind = "endless" /\ ~q[j].dur
                                 /\ \A k \in j + 1 .. i - 1 : q[k].type # "start"
  <2>1. PICK j \in 1 .. i - 1 : /\ q[j].type = "start" /\ q[j].kind = "endless" /\ ~q[j].dur
                                /\ \A k \in j + 1 .. i - 1 : q[k].type # "start"
    BY <1>3
  <2>2. CASE j = 1
    <3>1. kind2 = "endless" /\ ~timed2
      BY <1>1, <2>1, <2>2
    <3>2. \A k \in 1 .. (i - 1) - 1 : Tail(q)[k].type # "start"
      BY <1>1, <2>1, <2>2
    <3> QED BY <3>1, <3>2 DEF Unending
  <2>3. CASE j > 1
    <3>1. j - 1 \in 1 .. (i - 1) - 1 /\ Tail(q)[j - 1] = q[j]
      BY <1>1, <2>1, <2>3
    <3>2. \A k \in (j - 1) + 1 .. (i - 1) - 1 : Tail(q)[k].type # "start"
      BY <1>1, <2>1, <2>3
    <3> QED BY <2>1, <3>1, <3>2 DEF Unending
  <2> QED BY <2>2, <2>3
<1> QED BY <1>2, <1>3 DEF Unending

LEMMA UnendingAppend ==
  ASSUME NEW q \in Seq(Msg), NEW m \in Msg, NEW kind, NEW timed, NEW i \in 1 .. Len(q) + 1,
         Unending(kind, timed, q, i)
  PROVE  Unending(kind, timed, Append(q, m), i)
<1>1. \A k \in 1 .. i - 1 : Append(q, m)[k] = q[k]
  BY AppendFacts
<1> QED BY <1>1 DEF Unending

LEMMA UnendingAppendLast ==
  ASSUME NEW q \in Seq(Msg), NEW m \in Msg, NEW kind, NEW timed,
         \/ m.type # "start" /\ Unending(kind, timed, q, Len(q) + 1)
         \/ m.type = "start" /\ m.kind = "endless" /\ ~m.dur
  PROVE  Unending(kind, timed, Append(q, m), Len(Append(q, m)) + 1)
<1>1. /\ Len(q) \in Nat /\ Len(Append(q, m)) = Len(q) + 1 /\ Append(q, m)[Len(q) + 1] = m
      /\ \A k \in 1 .. Len(q) : Append(q, m)[k] = q[k]
  BY AppendFacts
<1>2. CASE m.type = "start" /\ m.kind = "endless" /\ ~m.dur
  BY <1>1, <1>2 DEF Unending
<1>3. CASE m.type # "start" /\ Unending(kind, timed, q, Len(q) + 1)
  <2>1. CASE kind = "endless" /\ ~timed /\ \A k \in 1 .. Len(q) : q[k].type # "start"
    BY <1>1, <1>3, <2>1 DEF Unending
  <2>2. CASE \E j \in 1 .. Len(q) : /\ q[j].type = "start" /\ q[j].kind = "endless" /\ ~q[j].dur
                                    /\ \A k \in j + 1 .. Len(q) : q[k].type # "start"
    <3>1. PICK j \in 1 .. Len(q) : /\ q[j].type = "start" /\ q[j].kind = "endless" /\ ~q[j].dur
                                   /\ \A k \in j + 1 .. Len(q) : q[k].type # "start"
      BY <2>2
    <3>2. j \in 1 .. (Len(Append(q, m)) + 1) - 1 /\ Append(q, m)[j] = q[j]
      BY <1>1
    <3>3. \A k \in j + 1 .. (Len(Append(q, m)) + 1) - 1 : Append(q, m)[k].type # "start"
      BY <1>1, <1>3, <3>1
    <3> QED BY <3>1, <3>2, <3>3 DEF Unending
  <2>3. 1 .. (Len(q) + 1) - 1 = 1 .. Len(q)
        /\ \A j \in 1 .. Len(q) : j + 1 .. (Len(q) + 1) - 1 = j + 1 .. Len(q)
    BY <1>1
  <2> QED BY <1>3, <2>1, <2>2, <2>3 DEF Unending
<1> QED BY <1>2, <1>3

LEMMA UnendingTimer ==
  ASSUME NEW q, NEW i, NEW kind, NEW timed, NEW timed2, Unending(kind, timed, q, i),
         timed2 => timed
  PROVE  Unending(kind, timed2, q, i)
BY DEF Unending

-----------------------------------------------------------------------------
(***************************************************************************)
(* Counting updates.                                                       *)
(***************************************************************************)
LEMMA UpdatesFinite ==
  ASSUME NEW q \in Seq(Msg), NEW j \in Nat
  PROVE  /\ IsFiniteSet(UpdatesAfter(q, j))
         /\ Cardinality(UpdatesAfter(q, j)) \in Nat
<1>1. j + 1 \in Int /\ Len(q) \in Int
  OBVIOUS
<1>2. IsFiniteSet(j + 1 .. Len(q))
  BY <1>1, FS_Interval
<1>3. UpdatesAfter(q, j) \in SUBSET (j + 1 .. Len(q))
  BY DEF UpdatesAfter
<1>4. IsFiniteSet(UpdatesAfter(q, j))
  BY <1>2, <1>3, FS_Subset
<1> QED BY <1>4, FS_CardinalityType

LEMMA UpdatesTail ==
  ASSUME NEW q \in Seq(Msg), q # << >>, NEW j \in Nat
  PROVE  Cardinality(UpdatesAfter(Tail(q), j)) = Cardinality(UpdatesAfter(q, j + 1))
<1> DEFINE S == UpdatesAfter(Tail(q), j)
           T == UpdatesAfter(q, j + 1)
           f == [i \in S |-> i + 1]
<1>1. /\ Len(q) \in Nat /\ Len(Tail(q)) = Len(q) - 1
      /\ \A k \in 1 .. Len(q) - 1 : Tail(q)[k] = q[k + 1]
      /\ Tail(q) \in Seq(Msg)
  BY TailFacts
<1>2. \A i \in S : i \in Nat /\ i + 1 \in T
  BY <1>1 DEF UpdatesAfter
<1>3. \A t \in T : t - 1 \in S /\ t \in Nat
  BY <1>1 DEF UpdatesAfter
<1>4. IsFiniteSet(S)
  BY <1>1, UpdatesFinite
<1> HIDE DEF S, T
<1>5. f \in [S -> T]
  BY <1>2
<1>6. \A a, b \in S : f[a] = f[b] => a = b
  BY <1>2
<1>7. \A t \in T : \E a \in S : f[a] = t
  <2> SUFFICES ASSUME NEW t \in T PROVE f[t - 1] = t
    BY <1>3
  <2> QED BY <1>3
<1>8. f \in Bijection(S, T)
  BY <1>5, <1>6, <1>7 DEF Bijection, Injection, Surjection, IsInjective
<1>9. ExistsBijection(S, T)
  BY <1>8 DEF ExistsBijection
<1>10. Cardinality(T) = Cardinality(S)
  BY <1>4, <1>9, FS_Bijection
<1> QED BY <1>10 DEF S, T

LEMMA UpdatesHead ==
  ASSUME NEW q \in Seq(Msg), q # << >>
  PROVE  Cardinality(UpdatesAfter(q, 0)) =
           IF Head(q).type = "update" THEN Cardinality(UpdatesAfter(Tail(q), 0)) + 1
           ELSE Cardinality(UpdatesAfter(Tail(q), 0))
<1>1. Head(q) = q[1] /\ Len(q) \in Nat /\ Len(q) >= 1
  BY TailFacts
<1>2. Cardinality(UpdatesAfter(Tail(q), 0)) = Cardinality(UpdatesAfter(q, 1))
  BY UpdatesTail
<1>3. IsFiniteSet(UpdatesAfter(q, 1))
  BY UpdatesFinite
<1>4. 1 \notin UpdatesAfter(q, 1)
  BY DEF UpdatesAfter
<1>5. CASE Head(q).type = "update"
  <2>1. UpdatesAfter(q, 0) = UpdatesAfter(q, 1) \cup {1}
    BY <1>1, <1>5 DEF UpdatesAfter
  <2> QED BY <1>2, <1>3, <1>4, <1>5, <2>1, FS_AddElement
<1>6. CASE Head(q).type # "update"
  <2>1. UpdatesAfter(q, 0) = UpdatesAfter(q, 1)
    BY <1>1, <1>6 DEF UpdatesAfter
  <2> QED BY <1>2, <1>6, <2>1
<1> QED BY <1>5, <1>6

LEMMA UpdatesAppend ==
  ASSUME NEW q \in Seq(Msg), NEW m \in Msg, NEW j \in 0 .. Len(q)
  PROVE  Cardinality(UpdatesAfter(Append(q, m), j)) =
           IF m.type = "update" THEN Cardinality(UpdatesAfter(q, j)) + 1
           ELSE Cardinality(UpdatesAfter(q, j))
<1>1. /\ Len(q) \in Nat /\ Len(Append(q, m)) = Len(q) + 1 /\ Append(q, m)[Len(q) + 1] = m
      /\ \A k \in 1 .. Len(q) : Append(q, m)[k] = q[k]
  BY AppendFacts
<1>2. IsFiniteSet(UpdatesAfter(q, j))
  BY UpdatesFinite
<1>3. Len(q) + 1 \notin UpdatesAfter(q, j)
  BY <1>1 DEF UpdatesAfter
<1>4. CASE m.type = "update"
  <2>1. UpdatesAfter(Append(q, m), j) = UpdatesAfter(q, j) \cup {Len(q) + 1}
    BY <1>1, <1>4 DEF UpdatesAfter
  <2> QED BY <1>2, <1>3, <1>4, <2>1, FS_AddElement
<1>5. CASE m.type # "update"
  <2>1. UpdatesAfter(Append(q, m), j) = UpdatesAfter(q, j)
    BY <1>1, <1>5 DEF UpdatesAfter
  <2> QED BY <1>5, <2>1
<1> QED BY <1>4, <1>5

LEMMA UpdatesNone ==
  ASSUME NEW q \in Seq(Msg), NEW j \in Nat, j >= Len(q)
  PROVE  Cardinality(UpdatesAfter(q, j)) = 0
<1>1. UpdatesAfter(q, j) = {}
  BY DEF UpdatesAfter
<1> QED BY <1>1, FS_EmptySet

-----------------------------------------------------------------------------
(***************************************************************************)
(* Steps of the cores.                                                     *)
(***************************************************************************)
RunUnchanged == UNCHANGED <<port, run, factor, counter>>

(* A core that a step leaves alone.                                        *)
LEMMA RunFrame ==
  ASSUME NEW d \in Cores, CoreRun(d), RunUnchanged,
         toDp'[d] = toDp[d], dpState'[d] = dpState[d], dpEvent'[d] = dpEvent[d],
         dpKind'[d] = dpKind[d], dpFactor'[d] = dpFactor[d], timers'[d] \subseteq timers[d]
  PROVE  CoreRun(d)'
<1> USE DEF RunUnchanged, Live
<1>1. \A X, i : Meets(d, X, i) => Phase(X, dpState'[d], toDp'[d], i)
  BY DEF Meets
<1>2. HasTimer(d)' => HasTimer(d)
  BY DEF HasTimer
<1>3. \A i : Endures(d, i) => Unending(dpKind'[d], HasTimer(d)', toDp'[d], i)
  BY <1>2, UnendingTimer DEF Endures
<1>4. PausesFit(d)'
  BY <1>1, <1>3 DEF CoreRun, PausesFit, Meets, Endures
<1>5. EndOfRing(d)'
  BY <1>1, <1>3 DEF CoreRun, EndOfRing, Meets, Endures
<1>6. RateFollows(d)'
  BY DEF CoreRun, RateFollows
<1> QED BY <1>4, <1>5, <1>6 DEF CoreRun

(* The head leaves the ring: every later message keeps what it will meet.  *)
LEMMA ConsumeFits ==
  ASSUME TypeOK, NEW c \in Cores, CoreRun(c), RunUnchanged,
         toDp[c] # << >>, toDp'[c] = Tail(toDp[c]),
         \/ Head(toDp[c]).type = "update" /\ dpState'[c] = dpState[c]
         \/ Head(toDp[c]).type # "update" /\ dpState'[c] = After(Head(toDp[c]).type),
         \/ /\ Head(toDp[c]).type # "start"
            /\ dpKind'[c] = dpKind[c] /\ (HasTimer(c)' => HasTimer(c))
         \/ /\ Head(toDp[c]).type = "start"
            /\ dpKind'[c] = Head(toDp[c]).kind /\ (HasTimer(c)' => Head(toDp[c]).dur)
  PROVE  PausesFit(c)' /\ EndOfRing(c)'
<1> DEFINE q == toDp[c]
<1> USE DEF RunUnchanged, Live
<1>1. /\ q \in Seq(Msg) /\ Len(q) \in Nat /\ Len(Tail(q)) = Len(q) - 1
      /\ \A k \in 1 .. Len(q) - 1 : Tail(q)[k] = q[k + 1]
  BY TailFacts DEF TypeOK
<1>2. ASSUME NEW i \in 2 .. Len(q) + 1, NEW X, Meets(c, X, i)
      PROVE  Phase(X, dpState'[c], toDp'[c], i - 1)
  BY <1>1, <1>2, PhaseTail DEF Meets
<1>3. ASSUME NEW i \in 2 .. Len(q) + 1, Endures(c, i)
      PROVE  Unending(dpKind'[c], HasTimer(c)', toDp'[c], i - 1)
  BY <1>1, <1>3, UnendingTail DEF Endures
<1>4. PausesFit(c)'
  <2> SUFFICES ASSUME NEW k \in 1 .. Len(toDp'[c])
               PROVE  /\ toDp'[c][k].type = "pause"
                           => Meets(c, {"TRANSMITTING"}, k)' /\ Endures(c, k)'
                      /\ toDp'[c][k].type = "resume"
                           => Meets(c, {"PAUSE"}, k)' /\ Endures(c, k)'
    BY DEF PausesFit
  <2>1. /\ k + 1 \in 2 .. Len(q) + 1 /\ k + 1 \in 1 .. Len(q) /\ (k + 1) - 1 = k
        /\ toDp'[c][k] = q[k + 1]
    BY <1>1
  <2>2. CASE q[k + 1].type = "pause"
    <3>1. Meets(c, {"TRANSMITTING"}, k + 1) /\ Endures(c, k + 1)
      BY <2>1, <2>2 DEF CoreRun, PausesFit
    <3>2. Phase({"TRANSMITTING"}, dpState'[c], toDp'[c], (k + 1) - 1)
      BY <1>2, <2>1, <3>1
    <3>3. Unending(dpKind'[c], HasTimer(c)', toDp'[c], (k + 1) - 1)
      BY <1>3, <2>1, <3>1
    <3> QED BY <2>1, <2>2, <3>2, <3>3 DEF Meets, Endures
  <2>3. CASE q[k + 1].type = "resume"
    <3>1. Meets(c, {"PAUSE"}, k + 1) /\ Endures(c, k + 1)
      BY <2>1, <2>3 DEF CoreRun, PausesFit
    <3>2. Phase({"PAUSE"}, dpState'[c], toDp'[c], (k + 1) - 1)
      BY <1>2, <2>1, <3>1
    <3>3. Unending(dpKind'[c], HasTimer(c)', toDp'[c], (k + 1) - 1)
      BY <1>3, <2>1, <3>1
    <3> QED BY <2>1, <2>3, <3>2, <3>3 DEF Meets, Endures
  <2> QED BY <2>1, <2>2, <2>3
<1>5. EndOfRing(c)'
  <2>1. Len(q) + 1 \in 2 .. Len(q) + 1 /\ (Len(q) + 1) - 1 = Len(toDp'[c]) + 1
    BY <1>1, TailFacts
  <2>2. \A X : Meets(c, X, Len(q) + 1) => Phase(X, dpState'[c], toDp'[c], Len(toDp'[c]) + 1)
    BY <1>2, <2>1
  <2>3. Endures(c, Len(q) + 1) => Unending(dpKind'[c], HasTimer(c)', toDp'[c], Len(toDp'[c]) + 1)
    BY <1>3, <2>1
  <2> QED BY <2>2, <2>3 DEF CoreRun, EndOfRing, Meets, Endures
<1> QED BY <1>4, <1>5

(* Stops, pauses, resumes and updates.                                     *)
LEMMA ConsumeRun ==
  ASSUME TypeOK, NEW c \in Cores, CoreRun(c), RunUnchanged,
         toDp[c] # << >>, toDp'[c] = Tail(toDp[c]), Head(toDp[c]).type # "start",
         dpEvent'[c] = dpEvent[c], dpKind'[c] = dpKind[c], timers'[c] = timers[c],
         dpState'[c] # "IDLE" => dpState[c] # "IDLE",
         \/ /\ Head(toDp[c]).type = "update" /\ dpState'[c] = dpState[c]
            /\ dpFactor'[c] = dpFactor[c] + 1
         \/ /\ Head(toDp[c]).type # "update" /\ dpState'[c] = After(Head(toDp[c]).type)
            /\ dpFactor'[c] = dpFactor[c]
  PROVE  CoreRun(c)'
<1> DEFINE q == toDp[c]
<1> USE DEF RunUnchanged, Live
<1>1. HasTimer(c)' => HasTimer(c)
  BY DEF HasTimer
<1>2. PausesFit(c)' /\ EndOfRing(c)'
  BY <1>1, ConsumeFits
<1>3. /\ q \in Seq(Msg) /\ Len(q) \in Nat /\ Len(Tail(q)) = Len(q) - 1
      /\ \A k \in 1 .. Len(q) - 1 : Tail(q)[k] = q[k + 1]
      /\ Tail(q) \in Seq(Msg) /\ dpFactor[c] \in Nat /\ factor \in Nat
  BY TailFacts DEF TypeOK
<1>4. RateFollows(c)'
  <2>1. ASSUME Live, NEW j \in 1 .. Len(Tail(q)),
               Tail(q)[j].type = "start", Tail(q)[j].id = counter
        PROVE  Cardinality(UpdatesAfter(Tail(q), j)) = factor
    <3>1. j + 1 \in 1 .. Len(q) /\ Tail(q)[j] = q[j + 1] /\ j \in Nat
      BY <1>3
    <3>2. Cardinality(UpdatesAfter(q, j + 1)) = factor
      BY <2>1, <3>1 DEF CoreRun, RateFollows
    <3> QED BY <1>3, <3>1, <3>2, UpdatesTail
  <2>2. ASSUME Live, dpEvent[c] = counter, dpState'[c] # "IDLE"
        PROVE  dpFactor'[c] + Cardinality(UpdatesAfter(Tail(q), 0)) = factor
    <3>1. dpFactor[c] + Cardinality(UpdatesAfter(q, 0)) = factor
      BY <2>2 DEF CoreRun, RateFollows
    <3>2. Cardinality(UpdatesAfter(Tail(q), 0)) \in Nat
      BY <1>3, UpdatesFinite
    <3>3. Cardinality(UpdatesAfter(q, 0)) =
            IF Head(q).type = "update" THEN Cardinality(UpdatesAfter(Tail(q), 0)) + 1
            ELSE Cardinality(UpdatesAfter(Tail(q), 0))
      BY <1>3, UpdatesHead
    <3> QED BY <1>3, <3>1, <3>2, <3>3
  <2> QED BY <2>1, <2>2 DEF RateFollows
<1> QED BY <1>2, <1>4 DEF CoreRun

LEMMA StartsRun ==
  ASSUME TypeOK, NEW c \in Cores, CoreRun(c), IdsGrow(c), RunUnchanged,
         toDp[c] # << >>, toDp'[c] = Tail(toDp[c]), Head(toDp[c]).type = "start",
         dpState'[c] = "TRANSMITTING", dpEvent'[c] = Head(toDp[c]).id,
         dpKind'[c] = Head(toDp[c]).kind, dpFactor'[c] = 0,
         timers'[c] = IF Head(toDp[c]).dur THEN timers[c] \cup {Head(toDp[c]).id} ELSE timers[c]
  PROVE  CoreRun(c)'
<1> DEFINE q == toDp[c]
<1> USE DEF RunUnchanged, Live
<1>1. /\ q \in Seq(Msg) /\ Len(q) \in Nat /\ Len(q) >= 1 /\ Len(Tail(q)) = Len(q) - 1
      /\ \A k \in 1 .. Len(q) - 1 : Tail(q)[k] = q[k + 1]
      /\ Tail(q) \in Seq(Msg) /\ Head(q) = q[1] /\ factor \in Nat
  BY TailFacts DEF TypeOK
<1>2. HasTimer(c)' => Head(q).dur
  <2> SUFFICES ASSUME ~Head(q).dur, Head(q).id \in timers[c] PROVE FALSE
    BY DEF HasTimer
  <2>1. 1 \in 1 .. Len(q)
    BY <1>1
  <2>2. dpEvent[c] < Head(q).id /\ Head(q).id <= dpEvent[c]
    BY <1>1, <2>1 DEF IdsGrow
  <2>3. dpEvent[c] \in Int /\ Head(q).id \in Int
    BY <1>1, <2>1, IdTypes
  <2> QED BY <2>2, <2>3
<1>3. PausesFit(c)' /\ EndOfRing(c)'
  BY <1>2, ConsumeFits DEF After
<1>4. RateFollows(c)'
  <2>1. ASSUME Live, NEW j \in 1 .. Len(Tail(q)),
               Tail(q)[j].type = "start", Tail(q)[j].id = counter
        PROVE  Cardinality(UpdatesAfter(Tail(q), j)) = factor
    <3>1. j + 1 \in 1 .. Len(q) /\ Tail(q)[j] = q[j + 1] /\ j \in Nat
      BY <1>1
    <3>2. Cardinality(UpdatesAfter(q, j + 1)) = factor
      BY <2>1, <3>1 DEF CoreRun, RateFollows
    <3> QED BY <1>1, <3>1, <3>2, UpdatesTail
  <2>2. ASSUME Live, Head(q).id = counter
        PROVE  0 + Cardinality(UpdatesAfter(Tail(q), 0)) = factor
    <3>1. 1 \in 1 .. Len(q)
      BY <1>1
    <3>2. Cardinality(UpdatesAfter(q, 0 + 1)) = factor
      BY <1>1, <2>2, <3>1 DEF CoreRun, RateFollows
    <3>3. Cardinality(UpdatesAfter(Tail(q), 0)) = factor
      BY <1>1, <3>2, UpdatesTail
    <3> QED BY <1>1, <3>3
  <2> QED BY <2>1, <2>2 DEF RateFollows
<1> QED BY <1>3, <1>4 DEF CoreRun

(* A run that ends by itself is none that a queued pause relies on.        *)
LEMMA EndRun ==
  ASSUME NEW c \in Cores, CoreRun(c), EventFollowsPort, RunUnchanged,
         dpKind[c] = "finite" \/ HasTimer(c), dpState'[c] = "IDLE",
         toDp'[c] = toDp[c], dpEvent'[c] = dpEvent[c], dpKind'[c] = dpKind[c],
         dpFactor'[c] = dpFactor[c], timers'[c] \subseteq timers[c]
  PROVE  CoreRun(c)'
<1> USE DEF RunUnchanged, Live
<1>1. HasTimer(c)' => HasTimer(c)
  BY DEF HasTimer
<1>2. \A i : Endures(c, i) => /\ Unending(dpKind'[c], HasTimer(c)', toDp'[c], i)
                              /\ \E k \in 1 .. i - 1 : toDp[c][k].type # "update"
  BY <1>1, UnendingTimer DEF Endures, Unending
<1>3. ASSUME NEW X, NEW i, Meets(c, X, i), Endures(c, i) \/ "IDLE" \in X
      PROVE  Phase(X, dpState'[c], toDp'[c], i)
  BY <1>2, <1>3, PhaseState DEF Meets
<1>4. PausesFit(c)'
  BY <1>2, <1>3 DEF CoreRun, PausesFit, Meets, Endures
<1>5. EndOfRing(c)'
  <2> DEFINE n == Len(toDp[c]) + 1
  <2>1. Live /\ run.allCont /\ ~run.dur => Endures(c, n)
    BY DEF CoreRun, EndOfRing
  <2>2. port = "PAUSE" => run.allCont /\ ~run.dur
    BY DEF EventFollowsPort
  <2>3. /\ port = "TX" /\ run.allCont /\ ~run.dur => Meets(c, {"TRANSMITTING"}, n)
        /\ port = "PAUSE" => Meets(c, {"PAUSE"}, n)
        /\ port # "PAUSE" => Meets(c, {"IDLE", "TRANSMITTING"}, n)
    BY DEF CoreRun, EndOfRing
  <2> HIDE DEF n
  <2>4. Live /\ run.allCont /\ ~run.dur => Unending(dpKind'[c], HasTimer(c)', toDp'[c], n)
    BY <1>2, <2>1
  <2>5. port = "TX" /\ run.allCont /\ ~run.dur
          => Phase({"TRANSMITTING"}, dpState'[c], toDp'[c], n)
    BY <1>3, <2>1, <2>3
  <2>6. port = "PAUSE" => Phase({"PAUSE"}, dpState'[c], toDp'[c], n)
    BY <1>3, <2>1, <2>2, <2>3
  <2>7. port # "PAUSE" => Phase({"IDLE", "TRANSMITTING"}, dpState'[c], toDp'[c], n)
    BY <1>3, <2>3
  <2> QED BY <2>4, <2>5, <2>6, <2>7 DEF EndOfRing, Meets, Endures, n
<1>6. RateFollows(c)'
  BY DEF CoreRun, RateFollows
<1> QED BY <1>4, <1>5, <1>6 DEF CoreRun

(* One core moves, the others are left alone.                              *)
OthersAlone(c) ==
  \A d \in Cores \ {c} :
    /\ toDp'[d] = toDp[d] /\ dpState'[d] = dpState[d] /\ dpEvent'[d] = dpEvent[d]
    /\ dpKind'[d] = dpKind[d] /\ dpFactor'[d] = dpFactor[d] /\ timers'[d] = timers[d]

LEMMA OneCoreRuns ==
  ASSUME RunInv, RunUnchanged, NEW c \in Cores, OthersAlone(c), CoreRun(c)',
         failed' \notin {"pause", "resume"}
  PROVE  RunInv'
<1>1. \A d \in Cores \ {c} : CoreRun(d)'
  BY RunFrame DEF RunInv, OthersAlone
<1> QED BY <1>1 DEF RunInv, PauseAssertsHold

(* The asserts of pause_traffic and resume_traffic.                        *)
LEMMA RunAsserts ==
  ASSUME TypeOK, RunInv, NEW c \in Cores, DpAssertFails(c)
  PROVE  RunInv'
<1>1. RunUnchanged /\ OthersAlone(c)
  BY DEF DpAssertFails, RunUnchanged, OthersAlone, portVars, eventVars, dpVars
<1>2. CoreRun(c)'
  BY RunFrame DEF DpAssertFails, RunInv, RunUnchanged, portVars, eventVars, dpVars
<1>3. /\ toDp[c] # << >> /\ 1 \in 1 .. Len(toDp[c]) /\ Head(toDp[c]) = toDp[c][1]
  BY TailFacts DEF DpAssertFails, Polling, TypeOK
<1>4. Head(toDp[c]).type = "pause" => dpState[c] = "TRANSMITTING"
  BY <1>3, PhaseFirst DEF RunInv, CoreRun, PausesFit, Meets
<1>5. Head(toDp[c]).type = "resume" => dpState[c] = "PAUSE"
  BY <1>3, PhaseFirst DEF RunInv, CoreRun, PausesFit, Meets
<1>6. failed' \notin {"pause", "resume"}
  BY <1>4, <1>5 DEF DpAssertFails, Accepts
<1> QED BY <1>1, <1>2, <1>6, OneCoreRuns

LEMMA RunStarts ==
  ASSUME TypeOK, IndInv, RunInv, NEW c \in Cores, DpStart(c)
  PROVE  RunInv'
<1>1. RunUnchanged /\ OthersAlone(c) /\ failed' \notin {"pause", "resume"}
  BY DEF DpStart, Receive, RunUnchanged, OthersAlone, portVars, eventVars, dpVars, TypeOK, RunInv,
         PauseAssertsHold
<1>2. /\ toDp[c] # << >> /\ toDp'[c] = Tail(toDp[c]) /\ Head(toDp[c]).type = "start"
      /\ dpState'[c] = "TRANSMITTING" /\ dpEvent'[c] = Head(toDp[c]).id
      /\ dpKind'[c] = Head(toDp[c]).kind /\ dpFactor'[c] = 0
      /\ timers'[c] = IF Head(toDp[c]).dur THEN timers[c] \cup {Head(toDp[c]).id} ELSE timers[c]
  BY DEF DpStart, Receive, Polling, TypeOK
<1>3. CoreRun(c) /\ IdsGrow(c)
  BY DEF RunInv, IndInv, CoreInv
<1>4. CoreRun(c)'
  BY <1>1, <1>2, <1>3, StartsRun
<1> QED BY <1>1, <1>4, OneCoreRuns

LEMMA RunPlain ==
  ASSUME TypeOK, RunInv, NEW c \in Cores,
         DpStop(c) \/ DpPause(c) \/ DpResume(c) \/ DpUpdate(c)
  PROVE  RunInv'
<1> USE DEF After
<1>1. toDp[c] # << >> /\ toDp'[c] = Tail(toDp[c])
  BY DEF DpStop, DpPause, DpResume, DpUpdate, Receive, Polling, TypeOK
<1>2. UNCHANGED <<dpEvent, dpKind, timers, failed>> /\ RunUnchanged
  BY DEF DpStop, DpPause, DpResume, DpUpdate, RunUnchanged, portVars, eventVars
<1>3. CASE DpStop(c)
  <2>1. Head(toDp[c]).type = "stop" /\ dpFactor' = dpFactor /\ StopCore(c, FALSE, Invalid)
    BY <1>3 DEF DpStop, Receive
  <2>2. dpState'[c] = "IDLE" /\ \A d \in Cores \ {c} : dpState'[d] = dpState[d]
    <3>1. \/ dpState' = dpState /\ dpState[c] = "IDLE"
          \/ dpState' = [dpState EXCEPT ![c] = "IDLE"]
      BY <2>1, StopCoreCases, Zenon
    <3> QED BY <3>1 DEF TypeOK
  <2>3. OthersAlone(c)
    BY <1>2, <1>3, <2>1, <2>2 DEF DpStop, Receive, OthersAlone, TypeOK
  <2>4. CoreRun(c)'
    BY <1>1, <1>2, <2>1, <2>2, ConsumeRun DEF RunInv
  <2> QED BY <1>2, <2>3, <2>4, OneCoreRuns DEF RunInv, PauseAssertsHold
<1>4. CASE DpPause(c)
  <2>1. /\ Head(toDp[c]).type = "pause" /\ dpFactor' = dpFactor /\ dpState'[c] = "PAUSE"
        /\ dpState[c] # "IDLE" /\ OthersAlone(c)
    BY <1>2, <1>4 DEF DpPause, Receive, Accepts, OthersAlone, TypeOK
  <2>2. CoreRun(c)'
    BY <1>1, <1>2, <2>1, ConsumeRun DEF RunInv
  <2> QED BY <1>2, <2>1, <2>2, OneCoreRuns DEF RunInv, PauseAssertsHold
<1>5. CASE DpResume(c)
  <2>1. /\ Head(toDp[c]).type = "resume" /\ dpFactor' = dpFactor
        /\ dpState'[c] = "TRANSMITTING" /\ dpState[c] # "IDLE" /\ OthersAlone(c)
    BY <1>2, <1>5 DEF DpResume, Receive, Accepts, OthersAlone, TypeOK
  <2>2. CoreRun(c)'
    BY <1>1, <1>2, <2>1, ConsumeRun DEF RunInv
  <2> QED BY <1>2, <2>1, <2>2, OneCoreRuns DEF RunInv, PauseAssertsHold
<1>6. CASE DpUpdate(c)
  <2>1. /\ Head(toDp[c]).type = "update" /\ dpFactor'[c] = dpFactor[c] + 1
        /\ dpState' = dpState /\ OthersAlone(c)
    BY <1>2, <1>6 DEF DpUpdate, Receive, OthersAlone, TypeOK
  <2>2. CoreRun(c)'
    BY <1>1, <1>2, <2>1, ConsumeRun DEF RunInv
  <2> QED BY <1>2, <2>1, <2>2, OneCoreRuns DEF RunInv, PauseAssertsHold
<1> QED BY <1>3, <1>4, <1>5, <1>6

LEMMA RunLoops ==
  ASSUME TypeOK, RunInv, NEW c \in Cores,
         StartScheduler(c) \/ FlowSync(c) \/ SyncContinue(c) \/ SyncExit(c)
  PROVE  RunInv'
<1>1. RunUnchanged /\ UNCHANGED <<toDp, dpVars, failed>>
  BY DEF StartScheduler, FlowSync, SyncContinue, SyncExit, RunUnchanged, portVars, eventVars
<1>2. \A d \in Cores : timers'[d] \subseteq timers[d]
  BY DEF StartScheduler, FlowSync, SyncContinue, SyncExit, TypeOK
<1>3. \A d \in Cores : CoreRun(d)'
  BY <1>1, <1>2, RunFrame DEF RunInv, dpVars
<1> QED BY <1>1, <1>3 DEF RunInv, PauseAssertsHold

LEMMA RunEnds ==
  ASSUME TypeOK, IndInv, RunInv, NEW c \in Cores, StreamsEnd(c) \/ DurationElapses(c)
  PROVE  RunInv'
<1>1. RunUnchanged /\ UNCHANGED <<toDp, dpEvent, dpKind, dpFactor, failed>>
  BY DEF StreamsEnd, DurationElapses, RunUnchanged, portVars, eventVars
<1>2. CASE StreamsEnd(c)
  <2>1. dpKind[c] = "finite" /\ timers' = timers /\ StopCore(c, FALSE, Invalid)
    BY <1>2 DEF StreamsEnd
  <2>2. dpState'[c] = "IDLE" /\ \A d \in Cores \ {c} : dpState'[d] = dpState[d]
    BY <2>1, StopCoreCases DEF TypeOK
  <2>3. CoreRun(c)'
    BY <1>1, <2>1, <2>2, EndRun DEF RunInv, IndInv
  <2>4. OthersAlone(c)
    BY <1>1, <2>1, <2>2 DEF OthersAlone
  <2> QED BY <1>1, <2>3, <2>4, OneCoreRuns DEF RunInv, PauseAssertsHold
<1>3. CASE DurationElapses(c)
  <2>1. PICK id \in timers[c] : /\ timers' = [timers EXCEPT ![c] = @ \ {id}]
                                /\ StopCore(c, TRUE, id)
    BY <1>3 DEF DurationElapses
  <2>2. \A d \in Cores \ {c} : dpState'[d] = dpState[d] /\ timers'[d] = timers[d]
    BY <2>1, StopCoreCases DEF TypeOK
  <2>3. timers'[c] \subseteq timers[c]
    BY <2>1 DEF TypeOK
  <2>4. OthersAlone(c)
    BY <1>1, <2>2 DEF OthersAlone
  <2>5. CASE dpState' = dpState
    <3>1. CoreRun(c)'
      BY <1>1, <2>3, <2>5, RunFrame DEF RunInv
    <3> QED BY <1>1, <2>4, <3>1, OneCoreRuns DEF RunInv, PauseAssertsHold
  <2>6. CASE dpState' # dpState
    <3>1. dpState'[c] = "IDLE" /\ HasTimer(c)
      BY <2>1, <2>6, StopCoreCases DEF TypeOK, HasTimer
    <3>2. CoreRun(c)'
      BY <1>1, <2>3, <3>1, EndRun DEF RunInv, IndInv
    <3> QED BY <1>1, <2>4, <3>2, OneCoreRuns DEF RunInv, PauseAssertsHold
  <2> QED BY <2>5, <2>6
<1> QED BY <1>2, <1>3

LEMMA RunDp ==
  ASSUME TypeOK, IndInv, RunInv, NEW c \in Cores, DpStep(c)
  PROVE  RunInv'
BY RunAsserts, RunStarts, RunPlain, RunLoops, RunEnds DEF DpStep

-----------------------------------------------------------------------------
(***************************************************************************)
(* Steps of the master and of the RPC thread.                              *)
(***************************************************************************)

(* The port is configured, or leaves a run that is over: nothing is sent.  *)
LEMMA RunIdle ==
  ASSUME RunInv, port # "PAUSE", port' \in {"IDLE", "STREAMS"},
         UNCHANGED <<toDp, dpVars, timers>>, failed' \in {failed, "empty"}
  PROVE  RunInv'
<1>1. ASSUME NEW c \in Cores PROVE CoreRun(c)'
  <2>1. \A X, i : Meets(c, X, i)' <=> Meets(c, X, i)
    BY DEF Meets, dpVars
  <2>2. \A i : Endures(c, i)' <=> Endures(c, i)
    BY DEF Endures, HasTimer, dpVars
  <2>3. PausesFit(c)'
    BY <2>1, <2>2 DEF RunInv, CoreRun, PausesFit
  <2>4. EndOfRing(c)' /\ RateFollows(c)'
    BY <2>1 DEF RunInv, CoreRun, EndOfRing, RateFollows, Live
  <2> QED BY <2>3, <2>4 DEF CoreRun
<1> QED BY <1>1 DEF RunInv, PauseAssertsHold

LEMMA RunMaster ==
  ASSUME TypeOK, IndInv, RunInv, MasterStep
  PROVE  RunInv'
<1>1. CASE (\E c \in Cores : HandleEvent(c)) \/ MarkSignal \/ TestPending \/ DisableEvent
  <2>1. RunUnchanged /\ UNCHANGED <<toDp, dpVars, timers, failed>>
    BY <1>1 DEF HandleEvent, MarkSignal, TestPending, DisableEvent, RunUnchanged, portVars,
                eventVars
  <2>2. \A d \in Cores : CoreRun(d)'
    BY <2>1, RunFrame DEF RunInv, dpVars
  <2> QED BY <2>1, <2>2 DEF RunInv, PauseAssertsHold
<1>2. CASE EventOccurred
  <2>1. Live /\ \A c \in Cores : ~Outstanding(c)
    BY <1>2, AllEnded DEF EventOccurred, IndInv, MasterFollowsPort
  <2>2. port # "PAUSE"
    BY <2>1, PausedAllActive, CoresAssumption
  <2>3. port' = "STREAMS" /\ UNCHANGED <<toDp, dpVars, timers, failed>>
    BY <1>2 DEF EventOccurred
  <2> QED BY <2>2, <2>3, RunIdle
<1> QED BY <1>1, <1>2 DEF MasterStep

LEMMA RunTable ==
  ASSUME RunInv, AddStream \/ RemoveStream \/ RemoveAllStreams \/ StartEmpty
  PROVE  RunInv'
<1>1. /\ port # "PAUSE" /\ port' \in {"IDLE", "STREAMS"}
      /\ UNCHANGED <<toDp, dpVars, timers>> /\ failed' \in {failed, "empty"}
  BY DEF AddStream, RemoveStream, RemoveAllStreams, StartEmpty, portVars
<1> QED BY <1>1, RunIdle

(* A message is sent: those before it meet what they would have met, and   *)
(* the end of the ring moves behind it.                                    *)
LEMMA Sent ==
  ASSUME TypeOK, NEW c \in Cores, CoreRun(c), NEW m \in Msg,
         toDp'[c] = Append(toDp[c], m), UNCHANGED <<dpVars, timers>>,
         m.type = "pause" => /\ Meets(c, {"TRANSMITTING"}, Len(toDp[c]) + 1)
                             /\ Endures(c, Len(toDp[c]) + 1),
         m.type = "resume" => /\ Meets(c, {"PAUSE"}, Len(toDp[c]) + 1)
                              /\ Endures(c, Len(toDp[c]) + 1)
  PROVE  /\ PausesFit(c)'
         /\ \A X : \/ m.type = "update" /\ Meets(c, X, Len(toDp[c]) + 1)
                   \/ m.type # "update" /\ After(m.type) \in X
                   => Phase(X, dpState'[c], toDp'[c], Len(toDp'[c]) + 1)
         /\ \/ m.type # "start" /\ Endures(c, Len(toDp[c]) + 1)
            \/ m.type = "start" /\ m.kind = "endless" /\ ~m.dur
            => Unending(dpKind'[c], HasTimer(c)', toDp'[c], Len(toDp'[c]) + 1)
<1> DEFINE q == toDp[c]
<1>1. /\ q \in Seq(Msg) /\ Len(q) \in Nat /\ Len(toDp'[c]) = Len(q) + 1
      /\ toDp'[c][Len(q) + 1] = m /\ \A k \in 1 .. Len(q) : toDp'[c][k] = q[k]
  BY AppendFacts DEF TypeOK
<1>2. /\ dpState'[c] = dpState[c] /\ dpKind'[c] = dpKind[c] /\ HasTimer(c)' = HasTimer(c)
  BY DEF dpVars, HasTimer
<1>3. \A X : \A i \in 1 .. Len(q) + 1 : Meets(c, X, i) => Meets(c, X, i)'
  BY <1>1, <1>2, PhaseAppend DEF Meets
<1>4. \A i \in 1 .. Len(q) + 1 : Endures(c, i) => Endures(c, i)'
  BY <1>1, <1>2, UnendingAppend DEF Endures
<1>5. PausesFit(c)'
  <2> SUFFICES ASSUME NEW i \in 1 .. Len(q) + 1
               PROVE  /\ toDp'[c][i].type = "pause"
                           => Meets(c, {"TRANSMITTING"}, i)' /\ Endures(c, i)'
                      /\ toDp'[c][i].type = "resume"
                           => Meets(c, {"PAUSE"}, i)' /\ Endures(c, i)'
    BY <1>1 DEF PausesFit
  <2>1. CASE i = Len(q) + 1
    BY <1>1, <1>3, <1>4, <2>1
  <2>2. CASE i \in 1 .. Len(q)
    BY <1>1, <1>3, <1>4, <2>2 DEF CoreRun, PausesFit
  <2> QED BY <1>1, <2>1, <2>2
<1>6. ASSUME NEW X, \/ m.type = "update" /\ Meets(c, X, Len(q) + 1)
                    \/ m.type # "update" /\ After(m.type) \in X
      PROVE  Phase(X, dpState'[c], toDp'[c], Len(toDp'[c]) + 1)
  BY <1>1, <1>2, <1>6, PhaseAppendLast DEF Meets
<1>7. ASSUME \/ m.type # "start" /\ Endures(c, Len(q) + 1)
             \/ m.type = "start" /\ m.kind = "endless" /\ ~m.dur
      PROVE  Unending(dpKind'[c], HasTimer(c)', toDp'[c], Len(toDp'[c]) + 1)
  BY <1>1, <1>2, <1>7, UnendingAppendLast DEF Endures
<1> QED BY <1>5, <1>6, <1>7

(* The rate of a core when a message is sent that is not a start.          *)
LEMMA SentRate ==
  ASSUME TypeOK, NEW c \in Cores, CoreRun(c), NEW m \in Msg, m.type # "start", Live,
         toDp'[c] = Append(toDp[c], m), UNCHANGED <<dpVars, counter>>,
         factor' = IF m.type = "update" THEN factor + 1 ELSE factor
  PROVE  RateFollows(c)'
<1> DEFINE q == toDp[c]
<1>1. /\ q \in Seq(Msg) /\ Len(q) \in Nat /\ Len(toDp'[c]) = Len(q) + 1
      /\ toDp'[c][Len(q) + 1] = m /\ \A k \in 1 .. Len(q) : toDp'[c][k] = q[k]
  BY AppendFacts DEF TypeOK
<1>2. factor \in Nat /\ dpFactor[c] \in Nat
  BY DEF TypeOK
<1>3. ASSUME NEW j \in 1 .. Len(toDp'[c]),
             toDp'[c][j].type = "start", toDp'[c][j].id = counter
      PROVE  Cardinality(UpdatesAfter(toDp'[c], j)) = factor'
  <2>1. j \in 1 .. Len(q) /\ j \in 0 .. Len(q) /\ toDp'[c][j] = q[j]
    BY <1>1, <1>3
  <2>2. Cardinality(UpdatesAfter(q, j)) = factor
    BY <1>3, <2>1 DEF CoreRun, RateFollows
  <2>3. Cardinality(UpdatesAfter(toDp'[c], j)) =
          IF m.type = "update" THEN Cardinality(UpdatesAfter(q, j)) + 1
          ELSE Cardinality(UpdatesAfter(q, j))
    BY <1>1, <2>1, UpdatesAppend
  <2> QED BY <2>2, <2>3
<1>4. ASSUME dpEvent[c] = counter, dpState[c] # "IDLE"
      PROVE  dpFactor[c] + Cardinality(UpdatesAfter(toDp'[c], 0)) = factor'
  <2>1. dpFactor[c] + Cardinality(UpdatesAfter(q, 0)) = factor
    BY <1>4 DEF CoreRun, RateFollows
  <2>2. 0 \in 0 .. Len(q) /\ Cardinality(UpdatesAfter(q, 0)) \in Nat
    BY <1>1, UpdatesFinite
  <2>3. Cardinality(UpdatesAfter(toDp'[c], 0)) =
          IF m.type = "update" THEN Cardinality(UpdatesAfter(q, 0)) + 1
          ELSE Cardinality(UpdatesAfter(q, 0))
    BY <1>1, <2>2, UpdatesAppend
  <2> QED BY <1>2, <2>1, <2>2, <2>3
<1> QED BY <1>3, <1>4 DEF RateFollows, dpVars

LEMMA RunCommands ==
  ASSUME TypeOK, IndInv, RunInv,
         StopTraffic \/ PauseTraffic \/ ResumeTraffic \/ UpdateTraffic
  PROVE  RunInv'
<1> USE DEF After
<1>1. UNCHANGED <<counter, run, dpVars, timers, failed>> /\ Live
  BY DEF StopTraffic, PauseTraffic, ResumeTraffic, UpdateTraffic, eventVars, Live
<1>2. port = "PAUSE" => run.allCont /\ ~run.dur
  BY DEF IndInv, EventFollowsPort
<1>3. ASSUME NEW c \in Cores PROVE CoreRun(c)'
  <2> DEFINE n == Len(toDp[c]) + 1
             n2 == Len(toDp'[c]) + 1
  <2>1. CoreRun(c) /\ EndOfRing(c)
    BY DEF RunInv, CoreRun
  <2>2. Live /\ run.allCont /\ ~run.dur => Endures(c, n)
    BY <2>1 DEF EndOfRing
  <2>3. CASE StopTraffic
    <3>1. port' = "STREAMS" /\ toDp'[c] = Append(toDp[c], PlainMsg("stop"))
      BY <2>3 DEF StopTraffic, SendToAll
    <3>2. PlainMsg("stop") \in Msg /\ PlainMsg("stop").type = "stop"
      BY PlainMsgType
    <3>3. PausesFit(c)' /\ Phase({"IDLE", "TRANSMITTING"}, dpState'[c], toDp'[c], n2)
      BY <1>1, <2>1, <3>1, <3>2, Sent
    <3> QED BY <3>1, <3>3 DEF CoreRun, EndOfRing, RateFollows, Meets, Live
  <2>4. CASE PauseTraffic
    <3>1. /\ port = "TX" /\ run.allCont /\ ~run.dur /\ port' = "PAUSE" /\ factor' = factor
          /\ toDp'[c] = Append(toDp[c], PlainMsg("pause"))
      BY <2>4 DEF PauseTraffic, SendToAll
    <3>2. PlainMsg("pause") \in Msg /\ PlainMsg("pause").type = "pause"
      BY PlainMsgType
    <3>3. Meets(c, {"TRANSMITTING"}, n) /\ Endures(c, n)
      BY <1>1, <2>1, <2>2, <3>1 DEF EndOfRing
    <3>4. /\ PausesFit(c)' /\ Phase({"PAUSE"}, dpState'[c], toDp'[c], n2)
          /\ Unending(dpKind'[c], HasTimer(c)', toDp'[c], n2)
      BY <1>1, <2>1, <3>1, <3>2, <3>3, Sent
    <3>5. RateFollows(c)'
      BY <1>1, <2>1, <3>1, <3>2, SentRate
    <3> QED BY <3>1, <3>4, <3>5 DEF CoreRun, EndOfRing, Meets, Endures
  <2>5. CASE ResumeTraffic
    <3>1. /\ port = "PAUSE" /\ port' = "TX" /\ factor' = factor
          /\ toDp'[c] = Append(toDp[c], PlainMsg("resume"))
      BY <2>5 DEF ResumeTraffic, SendToAll
    <3>2. PlainMsg("resume") \in Msg /\ PlainMsg("resume").type = "resume"
      BY PlainMsgType
    <3>3. Meets(c, {"PAUSE"}, n) /\ Endures(c, n)
      BY <1>1, <1>2, <2>1, <2>2, <3>1 DEF EndOfRing
    <3>4. /\ PausesFit(c)' /\ Phase({"TRANSMITTING"}, dpState'[c], toDp'[c], n2)
          /\ Phase({"IDLE", "TRANSMITTING"}, dpState'[c], toDp'[c], n2)
          /\ Unending(dpKind'[c], HasTimer(c)', toDp'[c], n2)
      BY <1>1, <2>1, <3>1, <3>2, <3>3, Sent
    <3>5. RateFollows(c)'
      BY <1>1, <2>1, <3>1, <3>2, SentRate
    <3> QED BY <3>1, <3>4, <3>5 DEF CoreRun, EndOfRing, Meets, Endures
  <2>6. CASE UpdateTraffic
    <3>1. port' = port /\ factor' = factor + 1 /\ toDp'[c] = Append(toDp[c], PlainMsg("update"))
      BY <2>6 DEF UpdateTraffic, SendToAll
    <3>2. PlainMsg("update") \in Msg /\ PlainMsg("update").type = "update"
      BY PlainMsgType
    <3>3. /\ PausesFit(c)'
          /\ \A X : Meets(c, X, n) => Phase(X, dpState'[c], toDp'[c], n2)
          /\ Endures(c, n) => Unending(dpKind'[c], HasTimer(c)', toDp'[c], n2)
      BY <1>1, <2>1, <3>1, <3>2, Sent
    <3>4. EndOfRing(c)'
      BY <1>1, <2>1, <3>1, <3>3 DEF EndOfRing, Meets, Endures, Live
    <3>5. RateFollows(c)'
      BY <1>1, <2>1, <3>1, <3>2, SentRate
    <3> QED BY <3>3, <3>4, <3>5 DEF CoreRun
  <2> QED BY <2>3, <2>4, <2>5, <2>6
<1> QED BY <1>1, <1>3 DEF RunInv, PauseAssertsHold

LEMMA RunStart ==
  ASSUME TypeOK, IndInv, RunInv, NEW w \in Workloads, StartTraffic(w)
  PROVE  RunInv'
<1>1. /\ port = "STREAMS" /\ port' = "TX" /\ run' = w /\ factor' = 0
      /\ counter' = counter + 1 /\ UNCHANGED <<dpVars, timers, failed>>
  BY DEF StartTraffic
<1>2. counter \in Int /\ counter' \in Nat
  BY <1>1 DEF TypeOK, EventIds, Invalid
<1>3. w.allCont => \A c \in Cores : w.kind[c] = "endless"
  BY WorkloadsAssumption
<1>4. ASSUME NEW c \in Cores PROVE CoreRun(c)'
  <2> DEFINE q == toDp[c]
             n2 == Len(toDp'[c]) + 1
             m == StartMsg(counter', w.kind[c], w.dur)
  <2>1. CoreRun(c) /\ EndOfRing(c) /\ IdsGrow(c)
    BY DEF RunInv, CoreRun, IndInv, CoreInv
  <2>2. /\ q \in Seq(Msg) /\ Len(q) \in Nat /\ dpEvent[c] \in Int
        /\ \A i \in 1 .. Len(q) : q[i].id \in Int
    BY IdTypes
  <2>3. dpEvent[c] # counter'
    BY <1>1, <1>2, <2>1, <2>2 DEF IdsGrow
  <2>4. \A i \in 1 .. Len(q) : q[i].type = "start" => q[i].id # counter'
    BY <1>1, <1>2, <2>1, <2>2 DEF IdsGrow
  <2>5. CASE w.kind[c] = "none"
    <3>1. toDp'[c] = toDp[c] /\ ~w.allCont
      BY <1>3, <2>5 DEF StartTraffic
    <3>2. \A X, i : Meets(c, X, i)' <=> Meets(c, X, i)
      BY <1>1, <3>1 DEF Meets, dpVars
    <3>3. \A i : Endures(c, i)' <=> Endures(c, i)
      BY <1>1, <3>1 DEF Endures, HasTimer, dpVars
    <3>4. PausesFit(c)'
      BY <2>1, <3>1, <3>2, <3>3 DEF CoreRun, PausesFit
    <3>5. EndOfRing(c)'
      BY <1>1, <2>1, <3>1, <3>2 DEF EndOfRing
    <3>6. RateFollows(c)'
      BY <1>1, <2>3, <2>4, <3>1 DEF RateFollows, dpVars
    <3> QED BY <3>4, <3>5, <3>6 DEF CoreRun
  <2>6. CASE w.kind[c] # "none"
    <3>1. toDp'[c] = Append(q, m)
      BY <2>6 DEF StartTraffic
    <3>2. /\ m \in Msg /\ m.type = "start" /\ m.id = counter'
          /\ m.kind = w.kind[c] /\ m.dur = w.dur
      <4>1. w.kind[c] \in Kind /\ w.dur \in BOOLEAN
        BY WorkloadsAssumption DEF Workload
      <4> QED BY <1>2, <4>1, StartMsgType
    <3> HIDE DEF m
    <3>3. /\ PausesFit(c)' /\ Phase({"TRANSMITTING"}, dpState'[c], toDp'[c], n2)
          /\ Phase({"IDLE", "TRANSMITTING"}, dpState'[c], toDp'[c], n2)
      BY <1>1, <2>1, <3>1, <3>2, Sent DEF After
    <3>4. w.allCont /\ ~w.dur => Unending(dpKind'[c], HasTimer(c)', toDp'[c], n2)
      BY <1>1, <1>3, <2>1, <3>1, <3>2, Sent
    <3>5. EndOfRing(c)'
      BY <1>1, <3>3, <3>4 DEF EndOfRing, Meets, Endures
    <3>6. /\ toDp'[c] \in Seq(Msg) /\ Len(toDp'[c]) = Len(q) + 1
          /\ \A k \in 1 .. Len(q) : toDp'[c][k] = q[k]
      BY <2>2, <3>1, <3>2, AppendFacts
    <3>7. ASSUME NEW j \in 1 .. Len(toDp'[c]),
                 toDp'[c][j].type = "start", toDp'[c][j].id = counter'
          PROVE  Cardinality(UpdatesAfter(toDp'[c], j)) = factor'
      <4>1. j = Len(q) + 1
        BY <2>2, <2>4, <3>6, <3>7
      <4> QED BY <1>1, <2>2, <3>6, <4>1, UpdatesNone
    <3>8. RateFollows(c)'
      BY <1>1, <2>3, <3>7 DEF RateFollows, dpVars
    <3> QED BY <3>3, <3>5, <3>8 DEF CoreRun
  <2> QED BY <2>5, <2>6
<1> QED BY <1>1, <1>4 DEF RunInv, PauseAssertsHold

-----------------------------------------------------------------------------
(***************************************************************************)
(* The invariant and what follows from it.                                 *)
(***************************************************************************)
LEMMA RunInit == Init => RunInv
<1> SUFFICES ASSUME Init PROVE RunInv
  OBVIOUS
<1>1. ASSUME NEW c \in Cores PROVE CoreRun(c)
  <2>1. port = "IDLE" /\ toDp[c] = << >> /\ Len(toDp[c]) = 0 /\ dpState[c] = "IDLE"
    BY DEF Init
  <2>2. PausesFit(c) /\ RateFollows(c)
    BY <2>1 DEF PausesFit, RateFollows, Live
  <2>3. Meets(c, {"IDLE", "TRANSMITTING"}, 1)
    BY <2>1, PhaseFirst DEF Meets
  <2>4. EndOfRing(c)
    BY <2>1, <2>3 DEF EndOfRing, Live
  <2> QED BY <2>2, <2>4 DEF CoreRun
<1> QED BY <1>1 DEF RunInv, PauseAssertsHold, Init, Quiet

LEMMA RunStep ==
  ASSUME TypeOK, IndInv, RunInv, [Next]_vars
  PROVE  RunInv'
<1>1. CASE UNCHANGED vars
  <2>1. RunUnchanged /\ UNCHANGED <<toDp, dpVars, timers, failed>>
    BY <1>1 DEF vars, portVars, eventVars, RunUnchanged
  <2>2. \A d \in Cores : CoreRun(d)'
    BY <2>1, RunFrame DEF RunInv, dpVars
  <2> QED BY <2>1, <2>2 DEF RunInv, PauseAssertsHold
<1>2. CASE RpcStep
  BY <1>2, RunTable, RunStart, RunCommands DEF RpcStep
<1> QED BY <1>1, <1>2, RunMaster, RunDp DEF Next

(* Whatever is queued between the RPC thread and a core, a pause meets a   *)
(* transmitting core and a resume a paused one, of a run that only a stop  *)
(* ends, and the updates made and queued are those the port has counted.   *)
THEOREM RunInvariant ==
  ASSUME Serialised
  PROVE  Spec => []RunInv
<1>1. TypeOK /\ IndInv /\ RunInv /\ [Next]_vars => RunInv'
  BY RunStep
<1> QED BY <1>1, RunInit, TypeCorrect, ProtocolInvariant, PTL DEF Spec

(* The asserts of pause_traffic and resume_traffic on a core never fail:   *)
(* the CP pauses only runs that do not end by themselves, and the state it *)
(* keeps is the one the core will be in when the message arrives.          *)
THEOREM PausesNeverAssert ==
  ASSUME Serialised
  PROVE  Spec => []PauseAssertsHold
<1>1. RunInv => PauseAssertsHold
  BY DEF RunInv
<1> QED BY <1>1, RunInvariant, PTL

LEMMA QuietCore ==
  ASSUME TypeOK, IndInv, RunInv, Quiescent, NEW c \in Cores
  PROVE  /\ ~Live => dpState[c] = "IDLE"
         /\ port = "TX" => dpState[c] # "PAUSE"
         /\ port = "PAUSE" => dpState[c] = "PAUSE"
         /\ Live /\ dpState[c] # "IDLE" => dpFactor[c] = factor
<1>1. toDp[c] = << >> /\ toCp[c] = << >> /\ Len(toDp[c]) = 0 /\ Len(toCp[c]) = 0
  BY DEF Quiescent
<1>2. CoreInv(c) /\ CoreRun(c) /\ master.pc = "poll"
  BY DEF IndInv, RunInv, Quiescent
<1>3. ~Live \/ run.kind[c] = "none" => dpState[c] = "IDLE"
  BY <1>1, <1>2 DEF CoreInv, StartsGuarded, IdleBefore
<1>4. \A X : Meets(c, X, Len(toDp[c]) + 1) => dpState[c] \in X
  BY <1>1, PhaseFirst DEF Meets
<1>5. port = "TX" => dpState[c] # "PAUSE"
  BY <1>2, <1>4 DEF CoreRun, EndOfRing
<1>6. port = "PAUSE" => dpState[c] = "PAUSE"
  BY <1>2, <1>4 DEF CoreRun, EndOfRing
<1>7. ASSUME Live, dpState[c] # "IDLE" PROVE dpFactor[c] = factor
  <2>1. ~signal[c]
    BY <1>2, <1>3, <1>7 DEF CoreInv, EndsAreTrue
  <2>2. Outstanding(c)
    BY <1>1, <1>2, <1>7, <2>1 DEF CoreInv, EndNotLost, EndInFlight
  <2>3. dpEvent[c] = counter
    BY <1>1, <2>2 DEF Outstanding
  <2>4. dpFactor[c] + Cardinality(UpdatesAfter(toDp[c], 0)) = factor
    BY <1>2, <1>7, <2>3 DEF CoreRun, RateFollows
  <2>5. toDp[c] \in Seq(Msg) /\ dpFactor[c] \in Nat
    BY DEF TypeOK
  <2>6. 0 \in Nat /\ 0 >= Len(toDp[c])
    BY <1>1
  <2>7. Cardinality(UpdatesAfter(toDp[c], 0)) = 0
    BY <2>5, <2>6, UpdatesNone
  <2> QED BY <2>4, <2>5, <2>7
<1> QED BY <1>3, <1>5, <1>6, <1>7

(* Once nothing is under way between the planes they agree: a port that is *)
(* not in a run has no core that sends, a transmitting port has one, all   *)
(* the cores of a paused port are paused, and every core that sends has    *)
(* made each of the port's updates exactly once.                           *)
THEOREM PlanesAgreeAtRest ==
  ASSUME Serialised
  PROVE  Spec => []QuiescentAgreement
<1>1. TypeOK /\ IndInv /\ RunInv => QuiescentAgreement
  <2> SUFFICES ASSUME TypeOK, IndInv, RunInv, Quiescent
               PROVE  /\ ~Live => \A c \in Cores : dpState[c] = "IDLE"
                      /\ port = "TX" => /\ \E c \in Cores : dpState[c] # "IDLE"
                                        /\ \A c \in Cores : dpState[c] # "PAUSE"
                      /\ port = "PAUSE" => \A c \in Cores : dpState[c] = "PAUSE"
                      /\ Live => \A c \in Cores : dpState[c] # "IDLE" => dpFactor[c] = factor
    BY DEF QuiescentAgreement
  <2>1. ASSUME port = "TX" PROVE \E c \in Cores : dpState[c] # "IDLE"
    <3>1. Live /\ master.pc = "poll"
      BY <2>1 DEF Live, Quiescent
    <3>2. pending = Cardinality({c \in Cores : ~signal[c]}) /\ pending > 0
      BY <3>1 DEF IndInv, PendingCounts
    <3>3. {c \in Cores : ~signal[c]} # {}
      BY <3>2, FS_EmptySet
    <3>4. PICK c \in Cores : ~signal[c]
      BY <3>3
    <3>5. toDp[c] = << >> /\ toCp[c] = << >> /\ Len(toDp[c]) = 0 /\ Len(toCp[c]) = 0
      BY DEF Quiescent
    <3>6. Outstanding(c)
      BY <3>1, <3>4, <3>5 DEF IndInv, CoreInv, EndNotLost, EndInFlight
    <3> QED BY <3>5, <3>6 DEF Outstanding
  <2> QED BY <2>1, QuietCore
<1> QED BY <1>1, RunInvariant, TypeCorrect, ProtocolInvariant, PTL
=============================================================================
