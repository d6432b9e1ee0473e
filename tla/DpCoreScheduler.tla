-------------------------- MODULE DpCoreScheduler --------------------------
(***************************************************************************)
(* One data-plane core: the stream nodes of its ports, the scheduler's     *)
(* heap, and the two loops of its thread (TrexStatelessDpCore,             *)
(* TrexStatelessDpPerPort, CGenNodeStateless, CNodeGenerator).             *)
(*                                                                         *)
(* The heap orders its nodes by time.  Times are left out: any node of the *)
(* heap may be the next one, which covers every order the rates and gaps   *)
(* can produce.  A continuous stream that is taken from the heap sends     *)
(* (unless paused) and goes back into it, so its turns change nothing.     *)
(*                                                                         *)
(* Messages arrive when the thread drains its ring: in the idle loop and   *)
(* in the FLOW_SYNC node.  Which ones can arrive is what StatelessPort     *)
(* shows about the sender: a start meets an idle port only, a pause only a *)
(* port that sends nothing but continuous streams without a duration.      *)
(* A rate update changes times only.                                       *)
(*                                                                         *)
(* A "faulty variant" is a plausible bug in the definition that follows    *)
(* it, put in its place to show that a property would notice.              *)
(***************************************************************************)
EXTENDS Integers, Sequences, FiniteSets

CONSTANTS
  Ports,      (* the ports of the core, NUM_PORTS_PER_CORE of them           *)
  Programs,   (* what the compiler may give this core: sequences of streams  *)
  MaxRuns,    (* bound: starts on the core, over all its ports               *)
  MaxRounds,  (* bound: rounds of a stream that are counted                  *)
  LateStart   (* may a start follow the quit message in the same drain?      *)

(***************************************************************************)
(* A stream: next is the index of its m_next_stream (0: none), pkts and    *)
(* bursts the packets of a burst and the bursts of a round, action its     *)
(* m_action_count.  A single burst is a multi burst of one.                *)
(***************************************************************************)
Stream == [cont : BOOLEAN, self : BOOLEAN, next : Nat, pkts : Nat, bursts : Nat, action : Nat]

ASSUME PortsAssumption == IsFiniteSet(Ports) /\ Ports # {}

ASSUME ProgramsAssumption ==
  /\ \A prog \in Programs : prog \in Seq(Stream) /\ prog # << >>
  /\ \A prog \in Programs : \A i \in DOMAIN prog :
        /\ prog[i].next \in 0 .. Len(prog)
        /\ ~prog[i].cont => prog[i].pkts > 0 /\ prog[i].bursts > 0

ASSUME LimitsAssumption == MaxRuns \in Nat \ {0} /\ MaxRounds \in Nat /\ LateStart \in BOOLEAN

Runs  == 1 .. MaxRuns
Slots == UNION {DOMAIN prog : prog \in Programs}

(* A node is named by its port, its run and its place in m_active_nodes. *)
NodeIds == Ports \X Runs \X Slots
NoNode  == <<"none", 0, 0>>

(* Memory that belongs to the node pool. *)
Gone == [state |-> "GONE", cont |-> FALSE, pause |-> FALSE, single |-> 0, multi |-> 0,
         refill |-> 0, bursts |-> 0, action |-> 0, loops |-> 0, next |-> NoNode]

Marked == [Gone EXCEPT !.state = "FREE"]

VARIABLES
  core,        \* m_state of the core
  loop,        \* where its thread is
  terminated,  \* m_terminated_by_master
  pstate,      \* m_state of every port
  event,       \* m_event_id of every port: the number of its last run
  activeCnt,   \* m_active_streams of every port
  listed,      \* m_active_nodes of every port
  node,        \* the stream nodes
  heap,        \* how often each of them is in m_p_queue
  timers,      \* the duration commands in m_p_queue
  exits,       \* the EXIT_SCHED nodes in m_p_queue
  nonActive,   \* m_non_active_nodes
  reports,     \* how often the end of a run has been sent to the CP
  rounds,      \* how often a stream with an action count has completed its bursts
  failed       \* the assert that has stopped the process

threadVars == <<core, loop, terminated>>
portVars   == <<pstate, event, activeCnt, listed>>
queueVars  == <<timers, exits, nonActive>>
vars == <<threadVars, portVars, node, heap, queueVars, reports, rounds, failed>>

Quiet == "none"   \* value of failed while every assert has held

Init ==
  /\ core = "IDLE" /\ loop = "idle" /\ terminated = FALSE
  /\ pstate = [p \in Ports |-> "IDLE"] /\ event = [p \in Ports |-> 0]
  /\ activeCnt = [p \in Ports |-> 0] /\ listed = [p \in Ports |-> {}]
  /\ node = [id \in NodeIds |-> Gone] /\ heap = [id \in NodeIds |-> 0]
  /\ timers = {} /\ exits = 0 /\ nonActive = 0
  /\ reports = [p \in Ports |-> [r \in Runs |-> 0]]
  /\ rounds = [id \in NodeIds |-> 0]
  /\ failed = Quiet

Active(nodes, p) == {id \in listed[p] : nodes[id].state = "ACTIVE"}

-----------------------------------------------------------------------------
(* The thread drains its ring. *)
Draining == failed = Quiet /\ loop \in {"idle", "sync"}

(* The runs that have been started, of all ports. *)
Started == {run \in Ports \X Runs : run[2] <= event[run[1]]}

NewNode(p, r, s) ==
  [state  |-> IF s.self THEN "ACTIVE" ELSE "INACTIVE",
   cont   |-> s.cont, pause |-> FALSE,
   single |-> s.pkts, multi |-> s.bursts, refill |-> s.pkts, bursts |-> s.bursts,
   action |-> s.action, loops |-> s.action,
   next   |-> IF s.next = 0 THEN NoNode ELSE <<p, r, s.next>>]

(* Faulty variant: the duration command is not counted. *)
AddPortDurationUncounted(p, r) ==
  timers' = timers \cup {<<p, r>>} /\ UNCHANGED nonActive

AddPortDuration(p, r) ==
  timers' = timers \cup {<<p, r>>} /\ nonActive' = nonActive + 1

(***************************************************************************)
(* start_traffic on the core: a node per stream, the self-started ones go  *)
(* into the heap; then the duration command.                               *)
(***************************************************************************)
StartTraffic(p, prog, dur) ==
  LET r     == event[p] + 1
      mine  == {<<p, r, i>> : i \in DOMAIN prog}
      first == {<<p, r, i>> : i \in {j \in DOMAIN prog : prog[j].self}}
  IN /\ Draining
     /\ pstate[p] = "IDLE"
     /\ Cardinality(Started) < MaxRuns
     /\ terminated => LateStart
     /\ failed' = IF listed[p] = {} THEN failed ELSE "nodes_in_list"
     /\ event' = [event EXCEPT ![p] = r]
     /\ activeCnt' = [activeCnt EXCEPT ![p] = Cardinality(first)]
     /\ listed' = [listed EXCEPT ![p] = mine]
     /\ node' = [id \in NodeIds |-> IF id \in mine THEN NewNode(p, r, prog[id[3]]) ELSE node[id]]
     /\ heap' = [id \in NodeIds |-> IF id \in first THEN heap[id] + 1 ELSE heap[id]]
     /\ pstate' = [pstate EXCEPT ![p] = "TRANSMITTING"]
     /\ core' = "TRANSMITTING"
     /\ IF dur THEN AddPortDuration(p, r) ELSE UNCHANGED <<timers, nonActive>>
     /\ UNCHANGED <<loop, terminated, exits, reports, rounds>>

(* Faulty variants: the active nodes go back to the pool at once; an idle  *)
(* port reports as well.                                                   *)
StopPortFreesAll(p, old, nodes, cnt) ==
  IF pstate[p] = "IDLE" \/ old
  THEN /\ node' = nodes
       /\ activeCnt' = [activeCnt EXCEPT ![p] = cnt]
       /\ UNCHANGED <<listed, pstate, reports, failed>>
  ELSE /\ node' = [id \in NodeIds |-> IF id \in listed[p] THEN Gone ELSE nodes[id]]
       /\ activeCnt' = [activeCnt EXCEPT ![p] = 0]
       /\ listed' = [listed EXCEPT ![p] = {}]
       /\ pstate' = [pstate EXCEPT ![p] = "IDLE"]
       /\ reports' = [reports EXCEPT ![p][event[p]] = @ + 1]
       /\ UNCHANGED failed

StopPortReportsIdle(p, old, nodes, cnt) ==
  /\ node' = [id \in NodeIds |-> IF id \notin listed[p] THEN nodes[id]
                                 ELSE IF nodes[id].state = "ACTIVE" THEN Marked ELSE Gone]
  /\ activeCnt' = [activeCnt EXCEPT ![p] = 0]
  /\ listed' = [listed EXCEPT ![p] = {}]
  /\ pstate' = [pstate EXCEPT ![p] = "IDLE"]
  /\ event[p] > 0
  /\ reports' = [reports EXCEPT ![p][event[p]] = @ + 1]
  /\ UNCHANGED failed

(***************************************************************************)
(* stop_traffic.  It is ignored if the port is idle or the stop belongs to *)
(* an older run.  Otherwise nodes in the heap cannot be taken out of its   *)
(* middle: they are marked, and freed when they come up; the others are    *)
(* freed at once.  Then the CP is told.                                    *)
(***************************************************************************)
StopPort(p, old, nodes, cnt) ==
  IF pstate[p] = "IDLE" \/ old
  THEN /\ node' = nodes
       /\ activeCnt' = [activeCnt EXCEPT ![p] = cnt]
       /\ failed' = IF pstate[p] = "IDLE" /\ cnt # 0 THEN "idle_but_active" ELSE failed
       /\ UNCHANGED <<listed, pstate, reports>>
  ELSE /\ node' = [id \in NodeIds |->
                     IF id \notin listed[p] THEN nodes[id]
                     ELSE IF nodes[id].state = "ACTIVE" THEN Marked ELSE Gone]
       /\ activeCnt' = [activeCnt EXCEPT ![p] = cnt - Cardinality(Active(nodes, p))]
       /\ failed' = IF activeCnt'[p] = 0 THEN failed ELSE "stopped_but_active"
       /\ listed' = [listed EXCEPT ![p] = {}]
       /\ pstate' = [pstate EXCEPT ![p] = "IDLE"]
       /\ reports' = [reports EXCEPT ![p][event[p]] = @ + 1]

StopTraffic(p) ==
  /\ Draining
  /\ StopPort(p, FALSE, node, activeCnt[p])
  /\ UNCHANGED <<threadVars, event, heap, queueVars, rounds>>

SetPause(p, on) ==
  node' = [id \in NodeIds |-> IF id \in listed[p] THEN [node[id] EXCEPT !.pause = on]
                                                  ELSE node[id]]

PauseTraffic(p) ==
  /\ Draining
  /\ pstate[p] = "TRANSMITTING"
  /\ \A id \in listed[p] : node[id].cont
  /\ <<p, event[p]>> \notin timers
  /\ failed' = IF \E id \in listed[p] : node[id].pause THEN "pause" ELSE failed
  /\ SetPause(p, TRUE)
  /\ pstate' = [pstate EXCEPT ![p] = "PAUSE"]
  /\ UNCHANGED <<threadVars, event, activeCnt, listed, heap, queueVars, reports, rounds>>

ResumeTraffic(p) ==
  /\ Draining
  /\ pstate[p] = "PAUSE"
  /\ failed' = IF \E id \in listed[p] : ~node[id].pause THEN "resume" ELSE failed
  /\ SetPause(p, FALSE)
  /\ pstate' = [pstate EXCEPT ![p] = "TRANSMITTING"]
  /\ UNCHANGED <<threadVars, event, activeCnt, listed, heap, queueVars, reports, rounds>>

(* The master sends one quit; its EXIT_SCHED node ends the scheduler. *)
QuitMainLoop ==
  /\ Draining
  /\ ~terminated
  /\ terminated' = TRUE
  /\ core' = "TERMINATE"
  /\ exits' = exits + 1
  /\ UNCHANGED <<loop, portVars, node, heap, timers, nonActive, reports, rounds, failed>>

-----------------------------------------------------------------------------
(* run_once: the idle loop ends once a message has changed m_state. *)
LeaveIdleLoop ==
  /\ failed = Quiet
  /\ loop = "idle"
  /\ core # "IDLE"
  /\ loop' = IF core = "TERMINATE" THEN "gone" ELSE "sched"
  /\ UNCHANGED <<core, terminated, portVars, node, heap, queueVars, reports, rounds, failed>>

(* EXIT_SCHED is due a tenth of a period after the quit, so before the     *)
(* next FLOW_SYNC.                                                         *)
FlowSync ==
  /\ failed = Quiet
  /\ loop = "sched"
  /\ exits = 0
  /\ loop' = "sync"
  /\ UNCHANGED <<core, terminated, portVars, node, heap, queueVars, reports, rounds, failed>>

(* The stream nodes in m_p_queue, each as often as it is there. *)
Queued == UNION {{id} \X (1 .. heap[id]) : id \in NodeIds}

(* The size of m_p_queue without the FLOW_SYNC node. *)
QueueSize == Cardinality(Queued) + Cardinality(timers) + exits

(* Faulty variant: freeing a duration command forgets on_node_remove. *)
LeaveSchedulerKeepsCount ==
  IF core = "TERMINATE"
  THEN loop' = "gone" /\ UNCHANGED <<core, node, heap, queueVars, failed>>
  ELSE /\ loop' = IF terminated THEN "gone" ELSE "idle"
       /\ core' = "IDLE"
       /\ node' = [id \in NodeIds |-> IF heap[id] > 0 THEN Gone ELSE node[id]]
       /\ heap' = [id \in NodeIds |-> 0]
       /\ timers' = {} /\ exits' = 0
       /\ UNCHANGED <<nonActive, failed>>

(***************************************************************************)
(* Back from flush_file: unless the core is to terminate, remove_all       *)
(* empties the heap, and asserts that the streams in it had been stopped.  *)
(* Freeing a duration command takes it off m_non_active_nodes.  start()    *)
(* ends the thread if the master has asked for it.                         *)
(***************************************************************************)
LeaveScheduler ==
  IF core = "TERMINATE"
  THEN loop' = "gone" /\ UNCHANGED <<core, node, heap, queueVars, failed>>
  ELSE /\ loop' = IF terminated THEN "gone" ELSE "idle"
       /\ core' = "IDLE"
       /\ failed' = IF \A id \in NodeIds : heap[id] > 0 => node[id].state = "FREE"
                    THEN failed ELSE "remove_all"
       /\ node' = [id \in NodeIds |-> IF heap[id] > 0 THEN Gone ELSE node[id]]
       /\ heap' = [id \in NodeIds |-> 0]
       /\ timers' = {} /\ exits' = 0
       /\ nonActive' = nonActive - Cardinality(timers)

(* The ring is drained: the scheduler ends if nothing but duration         *)
(* commands is left.                                                       *)
SyncDone ==
  /\ failed = Quiet
  /\ loop = "sync"
  /\ IF QueueSize = nonActive THEN LeaveScheduler
     ELSE loop' = "sched" /\ UNCHANGED <<core, node, heap, queueVars, failed>>
  /\ UNCHANGED <<terminated, portVars, reports, rounds>>

ExitSched ==
  /\ failed = Quiet
  /\ loop = "sched"
  /\ exits > 0
  /\ LeaveScheduler
  /\ UNCHANGED <<terminated, portVars, reports, rounds>>

(* A marked node comes up. *)
FreeNode(id) ==
  /\ failed = Quiet
  /\ loop = "sched"
  /\ heap[id] > 0
  /\ node[id].state = "FREE"
  /\ heap' = [heap EXCEPT ![id] = @ - 1]
  /\ node' = [node EXCEPT ![id] = Gone]
  /\ UNCHANGED <<threadVars, portVars, queueVars, reports, rounds, failed>>

(* Faulty variants: the stop does not look at the event id; freeing the    *)
(* command forgets on_node_remove.                                         *)
DurationElapsesAnyRun(p, r) ==
  /\ failed = Quiet /\ loop = "sched" /\ <<p, r>> \in timers
  /\ timers' = timers \ {<<p, r>>}
  /\ nonActive' = nonActive - 1
  /\ StopPort(p, FALSE, node, activeCnt[p])
  /\ UNCHANGED <<threadVars, event, heap, exits, rounds>>

DurationElapsesKeepsCount(p, r) ==
  /\ failed = Quiet /\ loop = "sched" /\ <<p, r>> \in timers
  /\ timers' = timers \ {<<p, r>>}
  /\ StopPort(p, r # event[p], node, activeCnt[p])
  /\ UNCHANGED <<threadVars, event, heap, exits, nonActive, rounds>>

(* A duration command stops the run it was made for, and no other. *)
DurationElapses(p, r) ==
  /\ failed = Quiet
  /\ loop = "sched"
  /\ <<p, r>> \in timers
  /\ timers' = timers \ {<<p, r>>}
  /\ nonActive' = nonActive - 1
  /\ StopPort(p, r # event[p], node, activeCnt[p])
  /\ UNCHANGED <<threadVars, event, heap, exits, rounds>>

-----------------------------------------------------------------------------
(* handle_multi_burst: a burst stream comes up and sends a packet. *)
Bursting(id) ==
  /\ failed = Quiet
  /\ loop = "sched"
  /\ heap[id] > 0
  /\ node[id].state # "FREE"
  /\ ~node[id].cont

SendPacket(id) ==
  /\ Bursting(id)
  /\ node[id].single # 1
  /\ node' = [node EXCEPT ![id].single = @ - 1]
  /\ UNCHANGED <<threadVars, portVars, heap, queueVars, reports, rounds, failed>>

NextBurst(id) ==
  /\ Bursting(id)
  /\ node[id].single = 1 /\ node[id].multi # 1
  /\ node' = [node EXCEPT ![id].multi = @ - 1, ![id].single = node[id].refill]
  /\ UNCHANGED <<threadVars, portVars, heap, queueVars, reports, rounds, failed>>

(* refresh: m_action_counter is not refilled. *)
Refreshed(n) == [n EXCEPT !.state = "ACTIVE", !.single = n.refill, !.multi = n.bursts]

(* update_number_of_active_streams; the port stops with its last stream. *)
OneLess(p, nodes) ==
  IF activeCnt[p] - 1 = 0
  THEN StopPort(p, FALSE, nodes, 0)
  ELSE /\ activeCnt' = [activeCnt EXCEPT ![p] = @ - 1]
       /\ node' = nodes
       /\ UNCHANGED <<listed, pstate, reports, failed>>

(* Node id leaves the heap and the refreshed next enters it. *)
Schedule(id, next, nodes) ==
  /\ node' = [nodes EXCEPT ![next] = Refreshed(@)]
  /\ heap' = [x \in NodeIds |-> heap[x] - (IF x = id THEN 1 ELSE 0)
                                        + (IF x = next THEN 1 ELSE 0)]
  /\ UNCHANGED <<activeCnt, listed, pstate, reports, failed>>

EndChain(id, nodes) == heap' = [heap EXCEPT ![id] = @ - 1] /\ OneLess(id[1], nodes)

(* Faulty variants of the next definition: a successor that is under way   *)
(* keeps the count up; the action count is tested before it is             *)
(* decremented.                                                            *)
SetNextNodeUncounted(id, nodes) ==
  LET next == nodes[id].next IN
  CASE next = NoNode -> EndChain(id, nodes)
    [] next # NoNode /\ nodes[next].state = "INACTIVE" -> Schedule(id, next, nodes)
    [] OTHER -> /\ heap' = [heap EXCEPT ![id] = @ - 1] /\ node' = nodes
                /\ UNCHANGED <<activeCnt, listed, pstate, reports, failed>>

SetNextNodeOnceMore(id, nodes) ==
  LET next  == nodes[id].next
      turns == nodes[id].action
      spent == [nodes EXCEPT ![id].action = turns - 1]
  IN IF next = NoNode \/ nodes[next].state = "ACTIVE" \/ (turns = 0 /\ nodes[id].loops > 0)
     THEN EndChain(id, nodes)
     ELSE Schedule(id, next, IF turns > 0 THEN spent ELSE nodes)

(***************************************************************************)
(* set_stateless_next_node: the successor is started if it is not already  *)
(* under way and the stream's m_action_counter, when there is one, has     *)
(* turns left.  Otherwise the chain ends here.                             *)
(***************************************************************************)
SetNextNode(id, nodes) ==
  LET next  == nodes[id].next
      turns == nodes[id].action
      spent == [nodes EXCEPT ![id].action = turns - 1]
  IN IF next = NoNode THEN EndChain(id, nodes)
     ELSE CASE nodes[next].state = "FREE" ->
                 /\ failed' = "next_is_free"
                 /\ UNCHANGED <<node, heap, activeCnt, listed, pstate, reports>>
            [] nodes[next].state = "INACTIVE" /\ turns = 0 -> Schedule(id, next, nodes)
            [] nodes[next].state = "INACTIVE" /\ turns = 1 -> EndChain(id, spent)
            [] nodes[next].state = "INACTIVE" /\ turns > 1 -> Schedule(id, next, spent)
            [] OTHER -> EndChain(id, nodes)

(* The last packet of the last burst. *)
LastPacket(id) ==
  /\ Bursting(id)
  /\ node[id].single = 1 /\ node[id].multi = 1
  /\ rounds' = [rounds EXCEPT ![id] = IF node[id].loops > 0 /\ @ < MaxRounds THEN @ + 1 ELSE @]
  /\ SetNextNode(id, [node EXCEPT ![id].state = "INACTIVE", ![id].single = 0, ![id].multi = 0])
  /\ UNCHANGED <<threadVars, event, queueVars>>

Message(p) ==
  \/ \E prog \in Programs, dur \in BOOLEAN : StartTraffic(p, prog, dur)
  \/ StopTraffic(p) \/ PauseTraffic(p) \/ ResumeTraffic(p)

NodeStep(id) == FreeNode(id) \/ SendPacket(id) \/ NextBurst(id) \/ LastPacket(id)

Next ==
  \/ \E p \in Ports : Message(p)
  \/ QuitMainLoop \/ LeaveIdleLoop \/ FlowSync \/ SyncDone \/ ExitSched
  \/ \E p \in Ports, r \in Runs : DurationElapses(p, r)
  \/ \E id \in NodeIds : NodeStep(id)

Spec == Init /\ [][Next]_vars

(***************************************************************************)
(* Fairness.  The thread never blocks: it leaves the idle loop, drains its *)
(* ring and comes back from it.  The heap is ordered by time and every     *)
(* step moves time on, so that a node in it comes up sooner or later,      *)
(* though FLOW_SYNC and other nodes come up in between: strong fairness.   *)
(* Nothing makes the master send messages.                                 *)
(***************************************************************************)
Fairness ==
  /\ WF_vars(LeaveIdleLoop) /\ WF_vars(FlowSync) /\ WF_vars(SyncDone) /\ WF_vars(ExitSched)
  /\ \A p \in Ports, r \in Runs : SF_vars(DurationElapses(p, r))
  /\ \A id \in NodeIds : SF_vars(NodeStep(id))

FairSpec == Spec /\ Fairness

-----------------------------------------------------------------------------
NodeRecord ==
  [state : {"GONE", "FREE", "INACTIVE", "ACTIVE"}, cont : BOOLEAN, pause : BOOLEAN,
   single : Nat, multi : Nat, refill : Nat, bursts : Nat, action : Nat, loops : Nat,
   next : NodeIds \cup {NoNode}]

(* The counters are unsigned in the code: none may be taken below zero.    *)
TypeOK ==
  /\ core \in {"IDLE", "TRANSMITTING", "TERMINATE"}
  /\ loop \in {"idle", "sched", "sync", "gone"} /\ terminated \in BOOLEAN
  /\ pstate \in [Ports -> {"IDLE", "TRANSMITTING", "PAUSE"}]
  /\ event \in [Ports -> 0 .. MaxRuns] /\ activeCnt \in [Ports -> Nat]
  /\ listed \in [Ports -> SUBSET NodeIds]
  /\ node \in [NodeIds -> NodeRecord] /\ heap \in [NodeIds -> Nat]
  /\ timers \in SUBSET (Ports \X Runs) /\ exits \in Nat /\ nonActive \in Nat
  /\ reports \in [Ports -> [Runs -> Nat]] /\ rounds \in [NodeIds -> Nat]
  /\ failed \in {Quiet, "nodes_in_list", "idle_but_active", "stopped_but_active", "pause",
                 "resume", "remove_all", "next_is_free"}

(* No assert of the core fails; above all the sanity check of remove_all:  *)
(* the scheduler never returns while a stream is still to be sent.         *)
AssertsHold == failed = Quiet

(* m_active_streams, which decides when a run is over, is the number of    *)
(* the port's streams that are under way, through chains, merging chains,  *)
(* restarts and stops.                                                     *)
CountIsActive ==
  failed = Quiet => \A p \in Ports : activeCnt[p] = Cardinality(Active(node, p))

(* A node is in the heap exactly once while it is active or marked, and    *)
(* not at all otherwise: none is scheduled twice, used after it was freed, *)
(* or leaked.  The nodes a port lists are never marked or freed.           *)
HeapMatchesNodes ==
  failed = Quiet =>
    /\ \A id \in NodeIds : heap[id] = IF node[id].state \in {"ACTIVE", "FREE"} THEN 1 ELSE 0
    /\ \A id \in NodeIds :
         (\E p \in Ports : id \in listed[p]) <=> node[id].state \in {"ACTIVE", "INACTIVE"}

(* The accounts of a core: its types, its counters and its heap agree with *)
(* the state of every stream node (stop_traffic, add_stream,               *)
(* set_stateless_next_node, remove_all).                                   *)
NodesAccounted == TypeOK /\ CountIsActive /\ HeapMatchesNodes

(* Every run that is over has been reported to the CP exactly once, and    *)
(* the one under way not at all, whoever of stop, duration and last packet *)
(* came first.                                                             *)
ReportedOnce ==
  failed = Quiet =>
    \A p \in Ports, r \in Runs :
      reports[p][r] = IF r < event[p] \/ (r = event[p] /\ pstate[p] = "IDLE") THEN 1 ELSE 0

(* A core in its idle loop has an empty heap and nothing left to count,    *)
(* and no port waits for a stream that can no longer come up.              *)
IdleLoopHasNothing ==
  loop = "idle" /\ core = "IDLE" /\ failed = Quiet =>
    /\ QueueSize = 0 /\ nonActive = 0
    /\ \A p \in Ports : Active(node, p) = {}

(* Node id was the only active stream of port p and came up in this step.  *)
LastOneDone(p) ==
  \E id \in listed[p] : Active(node, p) = {id} /\ heap'[id] < heap[id]

(* A run that ends without a message does so because its own duration is   *)
(* over or its last active stream is done, never because of the duration   *)
(* command of an earlier run or the streams of the other port.             *)
RunsEndForAReason ==
  [][\A p \in Ports :
       loop = "sched" /\ pstate[p] # "IDLE" /\ pstate'[p] = "IDLE" =>
         <<p, event[p]>> \in timers \ timers' \/ LastOneDone(p)]_vars

(* A loop of streams closed by a stream with action_count n makes n rounds *)
(* and ends, unless it is stopped before.                                  *)
LoopTimes ==
  [][\A id \in NodeIds :
       node[id].loops > 0 =>
         /\ rounds'[id] <= node[id].loops
         /\ LastOneDone(id[1]) /\ pstate'[id[1]] = "IDLE" /\ rounds'[id] > 0
              => rounds'[id] = node[id].loops]_vars

AllIdle == \A p \in Ports : pstate[p] = "IDLE"

(* With every port stopped the core falls back into its idle loop: marked  *)
(* nodes and duration commands cannot keep the scheduler alive.            *)
SchedulerDrains ==
  (AllIdle /\ loop # "gone") ~> (~AllIdle \/ loop \in {"idle", "gone"})

(* Everything the port lists ends by itself: bursts that lead forward in   *)
(* the list, or back with turns left.                                      *)
Bounded(p) ==
  /\ Active(node, p) # {}
  /\ \A id \in listed[p] :
       /\ ~node[id].cont
       /\ node[id].next = NoNode \/ node[id].next[3] > id[3] \/ node[id].loops > 0

(* A run of bursts, or one with a duration, ends by itself.                *)
RunsEnd ==
  \A p \in Ports :
    (pstate[p] # "IDLE" /\ Active(node, p) # {} /\ (Bounded(p) \/ <<p, event[p]>> \in timers))
      ~> (pstate[p] = "IDLE" \/ terminated)
=============================================================================
