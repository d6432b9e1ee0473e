--------------------------- MODULE StatelessPort ---------------------------
(***************************************************************************)
(* The control-plane / data-plane protocol of one TRex stateless port.     *)
(*                                                                         *)
(* Four kinds of threads take part:                                        *)
(*   - the RPC thread runs the client's commands on TrexStatelessPort,     *)
(*     under m_global_cp_lock;                                             *)
(*   - the master thread polls the DP->CP rings and runs                   *)
(*     TrexDpPortEvent::handle_event, without taking that lock;            *)
(*   - every DP core alternates between an idle loop and a scheduler, and  *)
(*     drains its CP->DP ring in both.                                     *)
(*                                                                         *)
(* A DP core's streams are abstracted to the way its share of a run ends   *)
(* ("kind" below); module DpCoreScheduler opens that abstraction.  A core  *)
(* serves two ports over one ring: the ring here is the sub-sequence of    *)
(* messages that carry this port's id.                                     *)
(*                                                                         *)
(* A "faulty variant" is not part of the specification: it is a plausible  *)
(* bug in the action that follows it, put in that action's place to show   *)
(* that a property would notice.                                           *)
(***************************************************************************)
EXTENDS Integers, Sequences, FiniteSets

CONSTANTS
  Cores,        (* m_cores_id_list, the DP cores that serve the port        *)
  Workloads,    (* what a start may compile to, see Workload                *)
  Overlap,      (* may an RPC command run inside the master's handle_event? *)
  MaxEventId,   (* bound: the last event id a start may generate            *)
  Backlog,      (* bound: messages in one CP->DP ring                       *)
  MaxUpdates,   (* bound: updates of one run                                *)
  MaxStreams    (* bound: size of m_stream_table                            *)

(***************************************************************************)
(* What the compiler gives one core:                                       *)
(*   none     no object at all (the stream could not be split),            *)
(*   finite   bursts only: the active streams reach zero by themselves,    *)
(*   endless  some stream is continuous or the bursts chain into a loop,   *)
(*   inert    an object without a self-started stream: nothing to send.    *)
(* allCont is m_last_all_streams_continues; dur says m_last_duration > 0.  *)
(***************************************************************************)
Kind == {"none", "finite", "endless", "inert"}

Workload == [kind : [Cores -> Kind], allCont : BOOLEAN, dur : BOOLEAN]

CanEnd(w) == w.dur \/ \E c \in Cores : w.kind[c] = "finite"

ASSUME CoresAssumption == IsFiniteSet(Cores) /\ Cores # {}

(* compiled_objs[0] is dereferenced, so some core has an object; continuous *)
(* streams are always split over all the cores.                             *)
ASSUME WorkloadsAssumption ==
  /\ Workloads \subseteq Workload
  /\ \A w \in Workloads :
        /\ \E c \in Cores : w.kind[c] # "none"
        /\ w.allCont => \A c \in Cores : w.kind[c] = "endless"

ASSUME BoundsAssumption ==
  /\ Overlap \in BOOLEAN
  /\ MaxEventId \in Nat /\ Backlog \in Nat /\ MaxUpdates \in Nat
  /\ MaxStreams \in Nat

Invalid == -1   \* EVENT_ID_INVALID

Msg == [type : {"start", "stop", "pause", "resume", "update"},
        id : Nat \cup {Invalid}, kind : Kind, dur : BOOLEAN]

StartMsg(id, kind, dur) ==
  [type |-> "start", id |-> id, kind |-> kind, dur |-> dur]

PlainMsg(type) ==
  [type |-> type, id |-> Invalid, kind |-> "none", dur |-> FALSE]

Quiet == "none"   \* value of failed while every assert has held

VARIABLES
  \* TrexStatelessPort
  port,       \* m_port_state
  table,      \* size of m_stream_table
  run,        \* the workload of the last start, with its two m_last_ flags
  factor,     \* m_factor: how many updates it has absorbed since the start
  \* TrexDpPortEvents and its EVENT_STOP object
  counter,    \* m_event_id_counter
  eventId,    \* m_event_id
  signal,     \* m_signal
  pending,    \* m_pending_cnt
  \* the message rings of every core
  toDp, toCp,
  \* TrexStatelessDpPerPort on every core
  dpState,    \* m_state
  dpEvent,    \* m_event_id
  dpKind,     \* how the streams in m_active_nodes end
  dpFactor,   \* how many updates the nodes have absorbed
  timers,     \* event ids of the scheduled duration commands
  loop,       \* where the core's thread is
  \* the master thread inside handle_event
  master,
  \* the assert that has stopped the process
  failed

portVars   == <<port, table, run, factor>>
eventVars  == <<counter, eventId, signal, pending>>
dpVars     == <<dpState, dpEvent, dpKind, dpFactor>>
vars == <<portVars, eventVars, toDp, toCp, dpVars, timers, loop, master, failed>>

PortState == {"IDLE", "STREAMS", "TX", "PAUSE"}
DpState   == {"IDLE", "TRANSMITTING", "PAUSE"}
Loop      == {"idle", "launch", "sched", "sync"}
MasterPc  == {"poll", "mark", "test", "occur", "disable"}
NoCore    == "none"
Poll      == [pc |-> "poll", core |-> NoCore]
EventIds  == Nat \cup {Invalid}

Init ==
  /\ port = "IDLE" /\ table = 0 /\ factor = 0
  /\ run = [kind |-> [c \in Cores |-> "none"], allCont |-> FALSE, dur |-> FALSE]
  /\ counter = Invalid /\ eventId = Invalid
  /\ signal = [c \in Cores |-> FALSE] /\ pending = 0
  /\ toDp = [c \in Cores |-> << >>] /\ toCp = [c \in Cores |-> << >>]
  /\ dpState = [c \in Cores |-> "IDLE"]
  /\ dpEvent = [c \in Cores |-> Invalid]
  /\ dpKind = [c \in Cores |-> "none"]
  /\ dpFactor = [c \in Cores |-> 0]
  /\ timers = [c \in Cores |-> {}]
  /\ loop = [c \in Cores |-> "idle"]
  /\ master = Poll
  /\ failed = Quiet

-----------------------------------------------------------------------------
(***************************************************************************)
(* The RPC thread.  Every command is one step: the thread holds the global *)
(* lock, and the rings are only ever consumed by the other side.           *)
(***************************************************************************)
Live == port \in {"TX", "PAUSE"}

RpcRuns ==
  /\ failed = Quiet
  /\ Overlap \/ master.pc = "poll"

HasRoom == \A c \in Cores : Len(toDp[c]) < Backlog

SendToAll(m) == toDp' = [c \in Cores |-> Append(toDp[c], m)]

AddStream ==
  /\ RpcRuns
  /\ port \in {"IDLE", "STREAMS"}
  /\ table < MaxStreams
  /\ table' = table + 1
  /\ port' = "STREAMS"
  /\ UNCHANGED <<run, factor, eventVars, toDp, toCp, dpVars, timers, loop, master, failed>>

(* Faulty variant: the state check dropped. *)
RemoveStreamUnchecked ==
  /\ RpcRuns
  /\ port \in {"IDLE", "STREAMS"}
  /\ table' = table - 1
  /\ UNCHANGED <<port, run, factor, eventVars, toDp, toCp, dpVars, timers, loop, master, failed>>

RemoveStream ==
  /\ RpcRuns
  /\ port = "STREAMS"
  /\ table > 0
  /\ table' = table - 1
  /\ port' = IF table' = 0 THEN "IDLE" ELSE port
  /\ UNCHANGED <<run, factor, eventVars, toDp, toCp, dpVars, timers, loop, master, failed>>

(* remove_stream for every entry of the table; the last one makes it IDLE. *)
RemoveAllStreams ==
  /\ RpcRuns
  /\ port = "STREAMS"
  /\ table > 0
  /\ table' = 0
  /\ port' = "IDLE"
  /\ UNCHANGED <<run, factor, eventVars, toDp, toCp, dpVars, timers, loop, master, failed>>

(***************************************************************************)
(* wait_for_event clears every signal; a core without an object gets a     *)
(* mimicked end event at once.  Some core has an object, so the mimicked   *)
(* events alone never complete the count.                                  *)
(***************************************************************************)
StartTraffic(w) ==
  /\ RpcRuns
  /\ port = "STREAMS"
  /\ table > 0
  /\ counter < MaxEventId
  /\ HasRoom
  /\ counter' = counter + 1
  /\ eventId' = counter'
  /\ signal' = [c \in Cores |-> w.kind[c] = "none"]
  /\ pending' = Cardinality({c \in Cores : w.kind[c] # "none"})
  /\ run' = w
  /\ factor' = 0
  /\ port' = "TX"
  /\ toDp' = [c \in Cores |->
                IF w.kind[c] = "none" THEN toDp[c]
                ELSE Append(toDp[c], StartMsg(counter', w.kind[c], w.dur))]
  /\ UNCHANGED <<table, toCp, dpVars, timers, loop, master, failed>>

(* With no enabled stream compiled_objs[0] is NULL and start_traffic       *)
(* dereferences it.  The enabled flags are not kept here, so any start may *)
(* be one of those, and after a removal inside handle_event the table may  *)
(* even be empty in STREAMS.                                               *)
StartEmpty ==
  /\ RpcRuns
  /\ port = "STREAMS"
  /\ failed' = "empty"
  /\ UNCHANGED <<portVars, eventVars, toDp, toCp, dpVars, timers, loop, master>>

(* Faulty variant: the event stays armed. *)
StopTrafficArmed ==
  /\ RpcRuns /\ Live /\ HasRoom
  /\ SendToAll(PlainMsg("stop"))
  /\ port' = "STREAMS"
  /\ UNCHANGED <<table, run, factor, eventVars, toCp, dpVars, timers, loop, master, failed>>

(* The event is masked before the messages go out, so that an end which    *)
(* races with the stop is ignored.                                         *)
StopTraffic ==
  /\ RpcRuns
  /\ Live
  /\ HasRoom
  /\ eventId' = Invalid
  /\ SendToAll(PlainMsg("stop"))
  /\ port' = "STREAMS"
  /\ UNCHANGED <<table, run, factor, counter, signal, pending, toCp, dpVars, timers,
                 loop, master, failed>>

(* Faulty variant: a timed run may be paused. *)
PauseTrafficTimed ==
  /\ RpcRuns /\ HasRoom
  /\ port = "TX" /\ run.allCont
  /\ SendToAll(PlainMsg("pause"))
  /\ port' = "PAUSE"
  /\ UNCHANGED <<table, run, factor, eventVars, toCp, dpVars, timers, loop, master, failed>>

PauseTraffic ==
  /\ RpcRuns
  /\ port = "TX"
  /\ run.allCont
  /\ ~run.dur
  /\ HasRoom
  /\ SendToAll(PlainMsg("pause"))
  /\ port' = "PAUSE"
  /\ UNCHANGED <<table, run, factor, eventVars, toCp, dpVars, timers, loop, master, failed>>

ResumeTraffic ==
  /\ RpcRuns
  /\ port = "PAUSE"
  /\ HasRoom
  /\ SendToAll(PlainMsg("resume"))
  /\ port' = "TX"
  /\ UNCHANGED <<table, run, factor, eventVars, toCp, dpVars, timers, loop, master, failed>>

UpdateTraffic ==
  /\ RpcRuns
  /\ Live
  /\ factor < MaxUpdates
  /\ HasRoom
  /\ SendToAll(PlainMsg("update"))
  /\ factor' = factor + 1
  /\ UNCHANGED <<port, table, run, eventVars, toCp, dpVars, timers, loop, master, failed>>

RpcStep ==
  \/ AddStream \/ RemoveStream \/ RemoveAllStreams \/ StartEmpty
  \/ \E w \in Workloads : StartTraffic(w)
  \/ StopTraffic \/ PauseTraffic \/ ResumeTraffic \/ UpdateTraffic

-----------------------------------------------------------------------------
(***************************************************************************)
(* A DP core.  Its thread polls the ring in the idle loop ("idle", and     *)
(* "launch" once a start has ended that loop but the drain goes on) and in *)
(* the FLOW_SYNC node of the scheduler ("sync"); otherwise it executes the *)
(* nodes of the scheduler ("sched").                                       *)
(***************************************************************************)
Polling(c) ==
  /\ failed = Quiet
  /\ loop[c] \in {"idle", "launch", "sync"}
  /\ toDp[c] # << >>

Receive(c, type) ==
  /\ Polling(c)
  /\ Head(toDp[c]).type = type
  /\ toDp' = [toDp EXCEPT ![c] = Tail(@)]

(* The asserts at the head of the DP handlers. *)
Accepts(state, type) ==
  CASE type = "start"  -> state = "IDLE"
    [] type = "pause"  -> state = "TRANSMITTING"
    [] type = "resume" -> state = "PAUSE"
    [] type = "update" -> state # "IDLE"
    [] type = "stop"   -> TRUE

DpAssertFails(c) ==
  /\ Polling(c)
  /\ ~Accepts(dpState[c], Head(toDp[c]).type)
  /\ failed' = Head(toDp[c]).type
  /\ UNCHANGED <<portVars, eventVars, toDp, toCp, dpVars, timers, loop, master>>

DpStart(c) ==
  /\ Receive(c, "start")
  /\ Accepts(dpState[c], "start")
  /\ LET m == Head(toDp[c]) IN
       /\ dpState' = [dpState EXCEPT ![c] = "TRANSMITTING"]
       /\ dpEvent' = [dpEvent EXCEPT ![c] = m.id]
       /\ dpKind' = [dpKind EXCEPT ![c] = m.kind]
       /\ dpFactor' = [dpFactor EXCEPT ![c] = 0]
       /\ timers' = [timers EXCEPT ![c] = IF m.dur THEN @ \cup {m.id} ELSE @]
  /\ loop' = [loop EXCEPT ![c] = IF @ = "idle" THEN "launch" ELSE @]
  /\ UNCHANGED <<portVars, eventVars, toCp, master, failed>>

(* Faulty variant: a paused port is taken for an idle one. *)
StopCoreNotPaused(c, stopOnId, id) ==
  IF dpState[c] # "TRANSMITTING" \/ (stopOnId /\ id # dpEvent[c])
  THEN UNCHANGED <<dpState, toCp>>
  ELSE /\ dpState' = [dpState EXCEPT ![c] = "IDLE"]
       /\ toCp' = [toCp EXCEPT ![c] = Append(@, dpEvent[c])]

(***************************************************************************)
(* TrexStatelessDpCore::stop_traffic: nothing when the port is idle or the *)
(* id is an old one, else release the nodes and report to the CP.          *)
(***************************************************************************)
StopCore(c, stopOnId, id) ==
  IF dpState[c] = "IDLE" \/ (stopOnId /\ id # dpEvent[c])
  THEN UNCHANGED <<dpState, toCp>>
  ELSE /\ dpState' = [dpState EXCEPT ![c] = "IDLE"]
       /\ toCp' = [toCp EXCEPT ![c] = Append(@, dpEvent[c])]

DpStop(c) ==
  /\ Receive(c, "stop")
  /\ StopCore(c, FALSE, Invalid)
  /\ UNCHANGED <<portVars, eventVars, dpEvent, dpKind, dpFactor, timers, loop, master, failed>>

DpPause(c) ==
  /\ Receive(c, "pause")
  /\ Accepts(dpState[c], "pause")
  /\ dpState' = [dpState EXCEPT ![c] = "PAUSE"]
  /\ UNCHANGED <<portVars, eventVars, toCp, dpEvent, dpKind, dpFactor, timers, loop, master,
                 failed>>

(* Faulty variant: the state change is forgotten. *)
DpResumeStays(c) ==
  /\ Receive(c, "resume")
  /\ Accepts(dpState[c], "resume")
  /\ UNCHANGED <<portVars, eventVars, toCp, dpVars, timers, loop, master, failed>>

DpResume(c) ==
  /\ Receive(c, "resume")
  /\ Accepts(dpState[c], "resume")
  /\ dpState' = [dpState EXCEPT ![c] = "TRANSMITTING"]
  /\ UNCHANGED <<portVars, eventVars, toCp, dpEvent, dpKind, dpFactor, timers, loop, master,
                 failed>>

DpUpdate(c) ==
  /\ Receive(c, "update")
  /\ Accepts(dpState[c], "update")
  /\ dpFactor' = [dpFactor EXCEPT ![c] = @ + 1]
  /\ UNCHANGED <<portVars, eventVars, toCp, dpState, dpEvent, dpKind, timers, loop, master,
                 failed>>

(* The ring is drained: leave the idle loop, or go on after FLOW_SYNC. *)
StartScheduler(c) ==
  /\ failed = Quiet
  /\ loop[c] = "launch"
  /\ toDp[c] = << >>
  /\ loop' = [loop EXCEPT ![c] = "sched"]
  /\ UNCHANGED <<portVars, eventVars, toDp, toCp, dpVars, timers, master, failed>>

FlowSync(c) ==
  /\ failed = Quiet
  /\ loop[c] = "sched"
  /\ loop' = [loop EXCEPT ![c] = "sync"]
  /\ UNCHANGED <<portVars, eventVars, toDp, toCp, dpVars, timers, master, failed>>

(* Nodes of stopped streams, or of the core's other port, keep it going. *)
SyncContinue(c) ==
  /\ failed = Quiet
  /\ loop[c] = "sync"
  /\ toDp[c] = << >>
  /\ loop' = [loop EXCEPT ![c] = "sched"]
  /\ UNCHANGED <<portVars, eventVars, toDp, toCp, dpVars, timers, master, failed>>

(* Only duration commands are left: remove_all frees them and the thread   *)
(* goes back to the idle loop.                                             *)
SyncExit(c) ==
  /\ failed = Quiet
  /\ loop[c] = "sync"
  /\ toDp[c] = << >>
  /\ dpState[c] = "IDLE" \/ dpKind[c] = "inert"
  /\ loop' = [loop EXCEPT ![c] = "idle"]
  /\ timers' = [timers EXCEPT ![c] = {}]
  /\ UNCHANGED <<portVars, eventVars, toDp, toCp, dpVars, master, failed>>

(* Faulty variant: the end of the streams is not reported. *)
StreamsEndSilently(c) ==
  /\ failed = Quiet
  /\ loop[c] = "sched"
  /\ dpState[c] # "IDLE" /\ dpKind[c] = "finite"
  /\ dpState' = [dpState EXCEPT ![c] = "IDLE"]
  /\ UNCHANGED <<portVars, eventVars, toDp, toCp, dpEvent, dpKind, dpFactor, timers, loop,
                 master, failed>>

(* The last active stream of the run is done. *)
StreamsEnd(c) ==
  /\ failed = Quiet
  /\ loop[c] = "sched"
  /\ dpState[c] # "IDLE"
  /\ dpKind[c] = "finite"
  /\ StopCore(c, FALSE, Invalid)
  /\ UNCHANGED <<portVars, eventVars, toDp, dpEvent, dpKind, dpFactor, timers, loop, master,
                 failed>>

DurationElapses(c) ==
  /\ failed = Quiet
  /\ loop[c] = "sched"
  /\ \E id \in timers[c] :
       /\ timers' = [timers EXCEPT ![c] = @ \ {id}]
       /\ StopCore(c, TRUE, id)
  /\ UNCHANGED <<portVars, eventVars, toDp, dpEvent, dpKind, dpFactor, loop, master, failed>>

DpStep(c) ==
  \/ DpAssertFails(c) \/ DpStart(c) \/ DpStop(c) \/ DpPause(c) \/ DpResume(c) \/ DpUpdate(c)
  \/ StartScheduler(c) \/ FlowSync(c) \/ SyncContinue(c) \/ SyncExit(c)
  \/ StreamsEnd(c) \/ DurationElapses(c)

-----------------------------------------------------------------------------
(***************************************************************************)
(* The master thread, one step per access to state it shares with the RPC  *)
(* thread.                                                                 *)
(***************************************************************************)
(* Faulty variants: the event id is not compared, or compared the wrong way. *)
HandleEventAnyId(c) ==
  /\ failed = Quiet
  /\ master.pc = "poll" /\ toCp[c] # << >>
  /\ toCp' = [toCp EXCEPT ![c] = Tail(@)]
  /\ master' = IF eventId # Invalid THEN [pc |-> "mark", core |-> c] ELSE Poll
  /\ UNCHANGED <<portVars, eventVars, toDp, dpVars, timers, loop, failed>>

HandleEventNewer(c) ==
  /\ failed = Quiet
  /\ master.pc = "poll" /\ toCp[c] # << >>
  /\ toCp' = [toCp EXCEPT ![c] = Tail(@)]
  /\ master' = IF Head(toCp[c]) > eventId THEN [pc |-> "mark", core |-> c] ELSE Poll
  /\ UNCHANGED <<portVars, eventVars, toDp, dpVars, timers, loop, failed>>

HandleEvent(c) ==
  /\ failed = Quiet
  /\ master.pc = "poll"
  /\ toCp[c] # << >>
  /\ toCp' = [toCp EXCEPT ![c] = Tail(@)]
  /\ master' = IF eventId # Invalid /\ Head(toCp[c]) = eventId
               THEN [pc |-> "mark", core |-> c] ELSE Poll
  /\ UNCHANGED <<portVars, eventVars, toDp, dpVars, timers, loop, failed>>

MarkSignal ==
  /\ failed = Quiet
  /\ master.pc = "mark"
  /\ signal' = [signal EXCEPT ![master.core] = TRUE]
  /\ pending' = IF signal[master.core] THEN pending ELSE pending - 1
  /\ master' = [pc |-> "test", core |-> NoCore]
  /\ UNCHANGED <<portVars, counter, eventId, toDp, toCp, dpVars, timers, loop, failed>>

(* Faulty variant: one end too early. *)
TestPendingEarly ==
  /\ failed = Quiet
  /\ master.pc = "test"
  /\ master' = IF pending <= 1 THEN [pc |-> "occur", core |-> NoCore] ELSE Poll
  /\ UNCHANGED <<portVars, eventVars, toDp, toCp, dpVars, timers, loop, failed>>

TestPending ==
  /\ failed = Quiet
  /\ master.pc = "test"
  /\ master' = IF pending = 0 THEN [pc |-> "occur", core |-> NoCore] ELSE Poll
  /\ UNCHANGED <<portVars, eventVars, toDp, toCp, dpVars, timers, loop, failed>>

(* on_dp_event_occured: the port has finished transmitting. *)
EventOccurred ==
  /\ failed = Quiet
  /\ master.pc = "occur"
  /\ port' = "STREAMS"
  /\ master' = [pc |-> "disable", core |-> NoCore]
  /\ UNCHANGED <<table, run, factor, eventVars, toDp, toCp, dpVars, timers, loop, failed>>

DisableEvent ==
  /\ failed = Quiet
  /\ master.pc = "disable"
  /\ eventId' = Invalid
  /\ master' = Poll
  /\ UNCHANGED <<portVars, counter, signal, pending, toDp, toCp, dpVars, timers, loop, failed>>

MasterStep ==
  \/ \E c \in Cores : HandleEvent(c)
  \/ MarkSignal \/ TestPending \/ EventOccurred \/ DisableEvent

Next == RpcStep \/ MasterStep \/ \E c \in Cores : DpStep(c)

Spec == Init /\ [][Next]_vars

-----------------------------------------------------------------------------
(***************************************************************************)
(* Fairness.  Every thread keeps running: the DP loops poll their ring for *)
(* ever, the master polls twice a second, and the scheduler's heap is      *)
(* ordered by time while FLOW_SYNC re-inserts itself one period later, so  *)
(* every other node comes up again and again between two syncs: that is    *)
(* strong fairness of what those nodes do.  The client owes nothing.       *)
(***************************************************************************)
MessageStep(c) ==
  DpAssertFails(c) \/ DpStart(c) \/ DpStop(c) \/ DpPause(c) \/ DpResume(c) \/ DpUpdate(c)

Fairness ==
  /\ \A c \in Cores :
       /\ WF_vars(MessageStep(c)) /\ WF_vars(StartScheduler(c)) /\ WF_vars(FlowSync(c))
       /\ WF_vars(SyncContinue(c) \/ SyncExit(c))
       /\ SF_vars(StreamsEnd(c)) /\ SF_vars(DurationElapses(c))
       /\ WF_vars(HandleEvent(c))
  /\ WF_vars(MarkSignal) /\ WF_vars(TestPending)
  /\ WF_vars(EventOccurred) /\ WF_vars(DisableEvent)

FairSpec == Spec /\ Fairness

-----------------------------------------------------------------------------
TypeOK ==
  /\ port \in PortState /\ table \in Nat /\ factor \in Nat /\ run \in Workload
  /\ counter \in EventIds /\ eventId \in EventIds
  /\ signal \in [Cores -> BOOLEAN] /\ pending \in Int
  /\ toDp \in [Cores -> Seq(Msg)] /\ toCp \in [Cores -> Seq(EventIds)]
  /\ dpState \in [Cores -> DpState] /\ dpEvent \in [Cores -> EventIds]
  /\ dpKind \in [Cores -> Kind] /\ dpFactor \in [Cores -> Nat]
  /\ timers \in [Cores -> SUBSET EventIds]
  /\ loop \in [Cores -> Loop]
  /\ master \in [pc : MasterPc, core : Cores \cup {NoCore}]
  /\ master.pc = "mark" => master.core \in Cores
  /\ failed \in {Quiet, "empty", "start", "stop", "pause", "resume", "update"}

Holds(c, type) == \E i \in 1 .. Len(toDp[c]) : toDp[c][i].type = type

(* Core c has yet to end its share of the last start. *)
Outstanding(c) ==
  \/ \E i \in 1 .. Len(toDp[c]) : toDp[c][i].type = "start" /\ toDp[c][i].id = counter
  \/ dpState[c] # "IDLE" /\ dpEvent[c] = counter

(* ... and has ended it, but the master has not accounted for that yet. *)
EndInFlight(c) ==
  \/ \E i \in 1 .. Len(toCp[c]) : toCp[c][i] = counter
  \/ master.pc = "mark" /\ master.core = c

(* Nothing is in flight between the two planes. *)
Quiescent ==
  /\ failed = Quiet
  /\ master.pc = "poll"
  /\ \A c \in Cores : toDp[c] = << >> /\ toCp[c] = << >>

(* start_traffic on a core asserts that no nodes of an earlier run are     *)
(* left: the CP may start again only behind a stop or a finished run.      *)
StartAssertHolds == failed # "start"

(* pause_traffic and resume_traffic on a core assert that the port was     *)
(* transmitting, respectively paused: the run cannot have ended before.    *)
PauseAssertsHold == failed \notin {"pause", "resume"}

(* update_traffic on a core asserts that the port is not idle there.       *)
UpdateAssertHolds == failed # "update"

(* A port that is not transmitting has a stop on its way to every core     *)
(* that still transmits: stop_traffic forgets the run at once and relies   *)
(* on the message alone.                                                   *)
StopOnItsWay ==
  failed = Quiet /\ ~Live => \A c \in Cores : dpState[c] # "IDLE" => Holds(c, "stop")

(* Stop messages of an earlier run never hit the current one: a core that  *)
(* transmits the run the port is in has no stop queued.                    *)
NoStrayStop ==
  Live => \A c \in Cores :
            dpState[c] # "IDLE" /\ dpEvent[c] = counter => ~Holds(c, "stop")

(* handle_event declares the run finished only after every core has ended  *)
(* it: late events of an earlier run are never counted for this one.       *)
FinishedIsDrained ==
  master.pc \in {"occur", "disable"} => \A c \in Cores : ~Outstanding(c)

(* No end is lost: while the port waits, a core that has not signalled     *)
(* either still owes its end or has it under way, and at least one such    *)
(* core exists until the master has seen the last one.                     *)
EveryEndAccounted ==
  failed = Quiet /\ Live =>
    /\ eventId = counter
    /\ \A c \in Cores : ~signal[c] => Outstanding(c) \/ EndInFlight(c)
    /\ pending = Cardinality({c \in Cores : ~signal[c]})
    /\ master.pc \notin {"test", "occur"} => pending > 0

(* Once the rings are empty both planes agree on what the port does, and   *)
(* on its rate: each update reached every transmitting core exactly once.  *)
QuiescentAgreement ==
  Quiescent =>
    /\ ~Live => \A c \in Cores : dpState[c] = "IDLE"
    /\ port = "TX" => /\ \E c \in Cores : dpState[c] # "IDLE"
                      /\ \A c \in Cores : dpState[c] # "PAUSE"
    /\ port = "PAUSE" => \A c \in Cores : dpState[c] = "PAUSE"
    /\ Live => \A c \in Cores : dpState[c] # "IDLE" => dpFactor[c] = factor

-----------------------------------------------------------------------------
(***************************************************************************)
(* The inductive invariant behind the safety properties, in parts.         *)
(***************************************************************************)

(* The event object follows the port and the master.                       *)
EventFollowsPort ==
  /\ Live => eventId = counter /\ counter \in Nat /\ run \in Workloads
  /\ ~Live /\ master.pc # "disable" => eventId = Invalid
  /\ port = "PAUSE" => run.allCont /\ ~run.dur

(* The master is inside handle_event only for the run the port is in, and  *)
(* no command runs meanwhile.                                              *)
MasterFollowsPort ==
  /\ master.pc # "poll" => ~Overlap
  /\ master.pc \in {"mark", "test", "occur"} => Live
  /\ master.pc = "disable" => port = "STREAMS" /\ \A c \in Cores : ~Outstanding(c)
  /\ master.pc = "occur" => pending = 0

(* Event ids only grow along the path ring -> core -> duration command.    *)
IdsGrow(c) ==
  /\ \A i \in 1 .. Len(toDp[c]) :
       toDp[c][i].type = "start" => dpEvent[c] < toDp[c][i].id /\ toDp[c][i].id <= counter
  /\ \A i, j \in 1 .. Len(toDp[c]) :
       i < j /\ toDp[c][i].type = "start" /\ toDp[c][j].type = "start"
         => toDp[c][i].id < toDp[c][j].id
  /\ dpEvent[c] <= counter
  /\ \A id \in timers[c] : id <= dpEvent[c]
  /\ \A i \in 1 .. Len(toCp[c]) : toCp[c][i] <= counter

(* The core is idle when it comes to the i-th message of queue q.          *)
IdleBefore(state, q, i) ==
  \/ state = "IDLE" /\ \A k \in 1 .. i - 1 : q[k].type # "start"
  \/ \E j \in 1 .. i - 1 :
       q[j].type = "stop" /\ \A k \in j + 1 .. i - 1 : q[k].type # "start"

StartsGuarded(c) ==
  /\ \A i \in 1 .. Len(toDp[c]) :
       toDp[c][i].type = "start" => IdleBefore(dpState[c], toDp[c], i)
  /\ ~Live \/ run.kind[c] = "none" => IdleBefore(dpState[c], toDp[c], Len(toDp[c]) + 1)

(* What the core carries of the current run is what was compiled for it.   *)
CarriesRun(c) ==
  Live =>
    /\ \A i \in 1 .. Len(toDp[c]) :
         toDp[c][i].type = "start" /\ toDp[c][i].id = counter
           => toDp[c][i].kind = run.kind[c] /\ toDp[c][i].dur = run.dur
    /\ dpEvent[c] = counter => dpKind[c] = run.kind[c] /\ (counter \in timers[c] => run.dur)
    /\ dpEvent[c] = counter /\ dpState[c] = "IDLE" => CanEnd(run)
    /\ run.kind[c] = "none" => signal[c] /\ ~Outstanding(c) /\ dpEvent[c] # counter
    /\ run.kind[c] # "none" =>
         \A i \in 1 .. Len(toDp[c]) : toDp[c][i].type = "stop" =>
           \E j \in i + 1 .. Len(toDp[c]) : toDp[c][j].type = "start"

(* Whoever tells the CP that a core has ended the current run is right.    *)
EndsAreTrue(c) ==
  /\ EndInFlight(c) => dpEvent[c] = counter /\ dpState[c] = "IDLE"
  /\ Live /\ signal[c] =>
       run.kind[c] = "none" \/ (dpEvent[c] = counter /\ dpState[c] = "IDLE")

(* ... and none of these ends is lost.                                     *)
EndNotLost(c) == Live /\ ~signal[c] => Outstanding(c) \/ EndInFlight(c)

CoreInv(c) ==
  IdsGrow(c) /\ StartsGuarded(c) /\ CarriesRun(c) /\ EndsAreTrue(c) /\ EndNotLost(c)

PendingCounts ==
  /\ Live => pending = Cardinality({c \in Cores : ~signal[c]})
  /\ Live /\ master.pc \notin {"test", "occur"} => pending > 0

IndInv ==
  /\ EventFollowsPort /\ MasterFollowsPort /\ PendingCounts
  /\ \A c \in Cores : CoreInv(c)
  /\ StartAssertHolds

-----------------------------------------------------------------------------
(* The protocol implements the port's promise: a core is active from the   *)
(* start until it has stopped transmitting the run, not until the master   *)
(* has heard of it. Once the port has left the run, a core with a stop on  *)
(* its way is accounted for; one that nothing tells to stop still counts.  *)
ActiveCores == {c \in Cores : Outstanding(c) /\ (Live \/ ~Holds(c, "stop"))}

Lifecycle == INSTANCE PortLifecycle WITH state <- port, active <- ActiveCores

(* Safety: no FINISHED_TX while a core still sends, no pause of a run that *)
(* is partly over, no change of the stream table during a run.             *)
ImplementsLifecycle == Lifecycle!PSpec

(* ... and a run whose cores have all ended is declared finished.          *)
ImplementsFairLifecycle == Lifecycle!FairPSpec

-----------------------------------------------------------------------------
(* A run that can end on every core does end, unless the process aborts.   *)
WillEnd == run.dur \/ \A c \in Cores : run.kind[c] \in {"none", "finite"}

(* Traffic that is bounded by its bursts or by a duration ends by itself:  *)
(* the port gets back to STREAMS (FINISHED_TX) without a stop command.     *)
BoundedRunEnds == (Live /\ WillEnd) ~> (~Live \/ failed # Quiet)

(* After a stop every core falls silent, unless a new run is started.      *)
StoppedCoresFallSilent ==
  \A c \in Cores :
    (~Live /\ dpState[c] # "IDLE") ~> (dpState[c] = "IDLE" \/ failed # Quiet)
=============================================================================
