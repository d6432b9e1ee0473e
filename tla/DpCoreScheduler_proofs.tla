----------------------- MODULE DpCoreScheduler_proofs -----------------------
(***************************************************************************)
(* Proofs about DpCoreScheduler for any ports, any programs and any number *)
(* of runs: the accounts of the core agree with its nodes, only one assert *)
(* can fail and only by a start that follows the quit, every run is        *)
(* reported once and ends for a reason of its own, and counted loops make  *)
(* as many rounds as they should.                                          *)
(*                                                                         *)
(* A failed assert stops the process, so that the facts about a core in    *)
(* operation are stated for failed = Quiet; types and the choice of the    *)
(* assert that may fail are stated for every state.                        *)
(***************************************************************************)
EXTENDS DpCoreScheduler, FiniteSetTheorems, TLAPS

(* The list of a port holds nodes of its current run, none if it is idle.  *)
Lists ==
  \A p \in Ports :
    /\ IsFiniteSet(listed[p])
    /\ \A id \in listed[p] : id[1] = p /\ id[2] = event[p]
    /\ pstate[p] = "IDLE" => listed[p] = {}
    /\ pstate[p] # "IDLE" => event[p] > 0

(* State, heap and lists of the nodes; memory of later runs is untouched.  *)
InHeap(hp) == {id \in NodeIds : hp[id] > 0}

PlacesOf(nodes, hp) ==
  /\ IsFiniteSet(InHeap(hp))
  /\ \A id \in NodeIds :
       /\ hp[id] = IF nodes[id].state \in {"ACTIVE", "FREE"} THEN 1 ELSE 0
       /\ id \in listed[id[1]] <=> nodes[id].state \in {"ACTIVE", "INACTIVE"}
       /\ nodes[id].state # "GONE" => id[2] <= event[id[1]]

Places == PlacesOf(node, heap)

(* A node leads to nodes of its list, has packets to send while it is      *)
(* active, and is paused with its port.                                    *)
Fields(n, p) ==
  /\ n.next = NoNode \/ n.next \in listed[p]
  /\ ~n.cont => n.refill > 0 /\ n.bursts > 0
  /\ ~n.cont /\ n.state = "ACTIVE" => n.single > 0 /\ n.multi > 0
  /\ n.pause <=> pstate[p] = "PAUSE"

ContentsOf(nodes) == \A p \in Ports : \A id \in listed[p] : Fields(nodes[id], p)

Contents == ContentsOf(node)

CountsOf(nodes, cnts) == \A p \in Ports : cnts[p] = Cardinality(Active(nodes, p))

Counts == CountsOf(node, activeCnt)

(* A core in its idle loop that no message has changed has an empty heap.  *)
IdleEmpty == loop = "idle" /\ core = "IDLE" => InHeap(heap) = {} /\ timers = {} /\ exits = 0

TimersOfRuns == \A t \in timers : t[2] <= event[t[1]]

Good == Lists /\ Places /\ Contents /\ Counts /\ IdleEmpty /\ TimersOfRuns /\ ReportedOnce

(* EXIT_SCHED is there only after a quit, which no start follows.          *)
Quitting ==
  /\ nonActive = Cardinality(timers)
  /\ exits > 0 => terminated
  /\ terminated /\ ~LateStart => core = "TERMINATE"
  /\ failed \in {Quiet, "remove_all"}
  /\ ~LateStart => failed = Quiet

DpInv == TypeOK /\ Quitting /\ (failed = Quiet => Good)

-----------------------------------------------------------------------------
(***************************************************************************)
(* Names of nodes, their records, finite sets.                             *)
(***************************************************************************)
LEMMA SlotType == Slots \subseteq Nat \ {0}
<1> SUFFICES ASSUME NEW prog \in Programs, NEW i \in DOMAIN prog PROVE i \in Nat \ {0}
  BY DEF Slots
<1>1. prog \in Seq(Stream)
  BY ProgramsAssumption
<1>2. DOMAIN prog = 1 .. Len(prog) /\ Len(prog) \in Nat
  BY <1>1
<1> QED BY <1>2

LEMMA RunsType == Runs \subseteq Nat \ {0} /\ MaxRuns \in Nat
BY LimitsAssumption DEF Runs

LEMMA IdFacts ==
  ASSUME NEW id \in NodeIds
  PROVE  /\ id[1] \in Ports /\ id[2] \in Runs /\ id[3] \in Slots /\ id[2] \in Nat \ {0}
         /\ id = <<id[1], id[2], id[3]>> /\ id # NoNode
<1>1. id[1] \in Ports /\ id[2] \in Runs /\ id[3] \in Slots /\ id = <<id[1], id[2], id[3]>>
  BY DEF NodeIds
<1>2. id[2] \in Nat \ {0}
  BY <1>1, RunsType
<1>3. NoNode[2] = 0
  BY DEF NoNode
<1> QED BY <1>1, <1>2, <1>3

LEMMA NodeFields ==
  ASSUME NEW n \in NodeRecord
  PROVE  /\ n.state \in {"GONE", "FREE", "INACTIVE", "ACTIVE"}
         /\ n.single \in Nat /\ n.multi \in Nat /\ n.refill \in Nat /\ n.bursts \in Nat
         /\ n.action \in Nat /\ n.loops \in Nat /\ n.next \in NodeIds \cup {NoNode}
         /\ n.pause \in BOOLEAN /\ n.cont \in BOOLEAN
BY DEF NodeRecord

(* What does not change while a node is in use. *)
SameStream(m, n) ==
  /\ m.next = n.next /\ m.cont = n.cont /\ m.pause = n.pause
  /\ m.refill = n.refill /\ m.bursts = n.bursts /\ m.loops = n.loops

LEMMA NodeUpdates ==
  ASSUME NEW n \in NodeRecord, NEW k \in Nat
  PROVE  /\ [n EXCEPT !.single = k] \in NodeRecord /\ [n EXCEPT !.multi = k] \in NodeRecord
         /\ [n EXCEPT !.action = k] \in NodeRecord
         /\ SameStream([n EXCEPT !.single = k], n) /\ SameStream([n EXCEPT !.multi = k], n)
         /\ SameStream([n EXCEPT !.action = k], n)
         /\ [n EXCEPT !.single = k].single = k /\ [n EXCEPT !.single = k].multi = n.multi
         /\ [n EXCEPT !.single = k].state = n.state
         /\ [n EXCEPT !.multi = k].multi = k /\ [n EXCEPT !.multi = k].single = n.single
         /\ [n EXCEPT !.multi = k].state = n.state
         /\ [n EXCEPT !.action = k].action = k /\ [n EXCEPT !.action = k].state = n.state
BY DEF NodeRecord, SameStream

LEMMA StateUpdates ==
  ASSUME NEW n \in NodeRecord, NEW s \in {"GONE", "FREE", "INACTIVE", "ACTIVE"}
  PROVE  /\ [n EXCEPT !.state = s] \in NodeRecord /\ SameStream([n EXCEPT !.state = s], n)
         /\ [n EXCEPT !.state = s].state = s
BY DEF NodeRecord, SameStream

LEMMA GoneType == Gone \in NodeRecord /\ Gone.state = "GONE"
                  /\ Marked \in NodeRecord /\ Marked.state = "FREE"
<1>1. Gone \in NodeRecord /\ Gone.state = "GONE"
  BY DEF Gone, NodeRecord
<1>2. [Gone EXCEPT !.state = "FREE"] \in NodeRecord /\ [Gone EXCEPT !.state = "FREE"].state = "FREE"
  BY <1>1, StateUpdates
<1> QED BY <1>1, <1>2 DEF Marked

LEMMA Finiteness ==
  /\ IsFiniteSet(Ports \X Runs)
  /\ \A T \in SUBSET (Ports \X Runs) : IsFiniteSet(T) /\ Cardinality(T) \in Nat
<1>1. IsFiniteSet(Runs)
  BY RunsType, FS_Interval DEF Runs
<1>2. IsFiniteSet(Ports \X Runs)
  BY <1>1, PortsAssumption, FS_Product
<1>3. ASSUME NEW T \in SUBSET (Ports \X Runs) PROVE IsFiniteSet(T) /\ Cardinality(T) \in Nat
  BY <1>2, FS_Subset, FS_CardinalityType
<1> QED BY <1>2, <1>3

LEMMA EmptyCount ==
  /\ IsFiniteSet({}) /\ Cardinality({}) = 0
  /\ \A S : IsFiniteSet(S) => (Cardinality(S) = 0 <=> S = {}) /\ Cardinality(S) \in Nat
BY FS_EmptySet, FS_CardinalityType

(* The entries of the heap are finitely many, and none if their number is 0. *)
LEMMA QueueEmpty ==
  ASSUME TypeOK, Places
  PROVE  /\ Cardinality(Queued) \in Nat
         /\ Cardinality(Queued) = 0 <=> InHeap(heap) = {}
<1> DEFINE H == InHeap(heap)
           Q == Queued
           b == [id \in H |-> <<id, 1>>]
<1>1. \A id \in NodeIds : heap[id] \in {0, 1}
  BY DEF Places, PlacesOf
<1>2. \A id \in H : id \in NodeIds /\ heap[id] = 1
  BY <1>1 DEF InHeap
<1>3. \A id \in H : <<id, 1>> \in Q
  <2> SUFFICES ASSUME NEW id \in H PROVE <<id, 1>> \in Q
    OBVIOUS
  <2>1. 1 \in 1 .. heap[id] /\ id \in NodeIds
    BY <1>2
  <2> HIDE DEF H
  <2>2. <<id, 1>> \in {id} \X (1 .. heap[id])
    BY <2>1
  <2> QED BY <2>1, <2>2 DEF Queued
<1>4. \A e \in Q : e[1] \in H /\ e = <<e[1], 1>>
  <2> SUFFICES ASSUME NEW id \in NodeIds, NEW e \in {id} \X (1 .. heap[id])
               PROVE  e[1] \in H /\ e = <<e[1], 1>>
    BY DEF Queued
  <2>1. e = <<e[1], e[2]>> /\ e[1] = id /\ e[2] \in 1 .. heap[id]
    OBVIOUS
  <2>2. heap[id] = 1 /\ e[2] = 1
    BY <1>1, <2>1
  <2> QED BY <2>1, <2>2 DEF InHeap
<1>5. IsFiniteSet(H)
  BY DEF Places, PlacesOf
<1> HIDE DEF H, Q
<1>6. b \in [H -> Q] /\ \A i, j \in H : b[i] = b[j] => i = j
  BY <1>3
<1>7. \A e \in Q : \E i \in H : b[i] = e
  BY <1>4
<1>8. b \in Bijection(H, Q)
  BY <1>6, <1>7 DEF Bijection, Injection, Surjection, IsInjective
<1>9. IsFiniteSet(Q) /\ Cardinality(Q) = Cardinality(H)
  BY <1>5, <1>8, FS_Bijection DEF ExistsBijection
<1> QED BY <1>5, <1>9, EmptyCount DEF H, Q

-----------------------------------------------------------------------------
(***************************************************************************)
(* stop_traffic.                                                           *)
(***************************************************************************)
LEMMA ActiveFacts ==
  ASSUME Lists, NEW nodes, NEW p \in Ports
  PROVE  /\ IsFiniteSet(Active(nodes, p)) /\ Cardinality(Active(nodes, p)) \in Nat
         /\ Active(nodes, p) = {} <=> Cardinality(Active(nodes, p)) = 0
         /\ pstate[p] = "IDLE" => Active(nodes, p) = {}
<1>1. Active(nodes, p) \in SUBSET listed[p] /\ IsFiniteSet(listed[p])
  BY DEF Active, Lists
<1>2. IsFiniteSet(Active(nodes, p))
  BY <1>1, FS_Subset
<1>3. pstate[p] = "IDLE" => listed[p] = {}
  BY DEF Lists
<1> QED BY <1>1, <1>2, <1>3, EmptyCount

StopTypes ==
  /\ pstate \in [Ports -> {"IDLE", "TRANSMITTING", "PAUSE"}]
  /\ activeCnt \in [Ports -> Nat] /\ listed \in [Ports -> SUBSET NodeIds]
  /\ node \in [NodeIds -> NodeRecord] /\ reports \in [Ports -> [Runs -> Nat]]

LEMMA StopPortIgnored ==
  ASSUME TypeOK, Lists, ReportedOnce, failed = Quiet, NEW p \in Ports, NEW old \in BOOLEAN,
         NEW nodes \in [NodeIds -> NodeRecord], NEW cnt \in Nat,
         PlacesOf(nodes, heap'), ContentsOf(nodes), CountsOf(nodes, [activeCnt EXCEPT ![p] = cnt]),
         event' = event, StopPort(p, old, nodes, cnt), pstate[p] = "IDLE" \/ old
  PROVE  Lists' /\ Places' /\ Contents' /\ Counts' /\ ReportedOnce' /\ failed' = Quiet /\ StopTypes'
<1>1. /\ node' = nodes /\ activeCnt' = [activeCnt EXCEPT ![p] = cnt]
      /\ failed' = IF pstate[p] = "IDLE" /\ cnt # 0 THEN "idle_but_active" ELSE failed
      /\ UNCHANGED <<listed, pstate, reports>>
  BY Zenon DEF StopPort
<1>2. cnt = Cardinality(Active(nodes, p))
  BY DEF CountsOf, TypeOK
<1>3. failed' = Quiet
  BY <1>1, <1>2, ActiveFacts DEF Quiet
<1>4. Lists' /\ ReportedOnce' /\ StopTypes'
  BY <1>1, <1>3 DEF Lists, ReportedOnce, StopTypes, TypeOK
<1>5. Places'
  BY <1>1 DEF Places, PlacesOf, InHeap
<1>6. Contents'
  BY <1>1 DEF Contents, ContentsOf, Fields
<1>7. Counts'
  <2>1. \A q \in Ports : Active(node, q)' = Active(nodes, q)
    BY <1>1 DEF Active
  <2> QED BY <1>1, <2>1 DEF Counts, CountsOf
<1> QED BY <1>3, <1>4, <1>5, <1>6, <1>7

LEMMA StopPortStops ==
  ASSUME TypeOK, Lists, ReportedOnce, failed = Quiet, NEW p \in Ports, NEW old \in BOOLEAN,
         NEW nodes \in [NodeIds -> NodeRecord], NEW cnt \in Nat,
         PlacesOf(nodes, heap'), ContentsOf(nodes), CountsOf(nodes, [activeCnt EXCEPT ![p] = cnt]),
         event' = event, StopPort(p, old, nodes, cnt), ~(pstate[p] = "IDLE" \/ old)
  PROVE  Lists' /\ Places' /\ Contents' /\ Counts' /\ ReportedOnce' /\ failed' = Quiet /\ StopTypes'
<1>1. /\ node' = [id \in NodeIds |->
                     IF id \notin listed[p] THEN nodes[id]
                     ELSE IF nodes[id].state = "ACTIVE" THEN Marked ELSE Gone]
      /\ activeCnt' = [activeCnt EXCEPT ![p] = cnt - Cardinality(Active(nodes, p))]
      /\ failed' = IF activeCnt'[p] = 0 THEN failed ELSE "stopped_but_active"
      /\ listed' = [listed EXCEPT ![p] = {}]
      /\ pstate' = [pstate EXCEPT ![p] = "IDLE"]
      /\ reports' = [reports EXCEPT ![p][event[p]] = @ + 1]
  BY Zenon DEF StopPort
<1>2. cnt = Cardinality(Active(nodes, p)) /\ \A q \in Ports \ {p} : activeCnt[q] = Cardinality(Active(nodes, q))
  BY DEF CountsOf, TypeOK
<1>3. activeCnt' = [activeCnt EXCEPT ![p] = 0]
  <2>1. cnt - Cardinality(Active(nodes, p)) = 0
    BY <1>2
  <2> QED BY <1>1, <2>1
<1>4. failed' = Quiet
  BY <1>1, <1>3 DEF TypeOK
<1>5. /\ listed'[p] = {} /\ \A q \in Ports \ {p} : listed'[q] = listed[q]
      /\ pstate'[p] = "IDLE" /\ \A q \in Ports \ {p} : pstate'[q] = pstate[q]
      /\ activeCnt'[p] = 0 /\ \A q \in Ports \ {p} : activeCnt'[q] = activeCnt[q]
  BY <1>1, <1>3 DEF TypeOK
<1>6. \A q \in Ports \ {p} : \A id \in listed[q] : id \notin listed[p] /\ id \in NodeIds
  BY DEF Lists, TypeOK
<1>7. \A id \in NodeIds : id \notin listed[p] => node'[id] = nodes[id]
  BY <1>1
<1>8. \A id \in NodeIds : id \in listed[p] =>
        /\ nodes[id].state = "ACTIVE" => node'[id].state = "FREE"
        /\ nodes[id].state # "ACTIVE" => node'[id].state = "GONE"
  BY <1>1, GoneType
<1>9. Lists'
  BY <1>5, EmptyCount DEF Lists
<1>10. Places'
  <2>1. IsFiniteSet(InHeap(heap)')
    BY DEF PlacesOf, InHeap
  <2>2. ASSUME NEW id \in NodeIds
        PROVE  /\ heap'[id] = IF node'[id].state \in {"ACTIVE", "FREE"} THEN 1 ELSE 0
               /\ id \in listed'[id[1]] <=> node'[id].state \in {"ACTIVE", "INACTIVE"}
               /\ node'[id].state # "GONE" => id[2] <= event'[id[1]]
    <3>1. /\ heap'[id] = IF nodes[id].state \in {"ACTIVE", "FREE"} THEN 1 ELSE 0
          /\ id \in listed[id[1]] <=> nodes[id].state \in {"ACTIVE", "INACTIVE"}
          /\ nodes[id].state # "GONE" => id[2] <= event[id[1]]
      BY DEF PlacesOf
    <3>2. id[1] \in Ports
      BY IdFacts
    <3>3. CASE id \in listed[p]
      <4>1. id[1] = p
        BY <3>3 DEF Lists
      <4> QED BY <1>5, <1>8, <3>1, <3>3, <4>1
    <3>4. CASE id \notin listed[p]
      <4>1. node'[id] = nodes[id]
        BY <1>7, <3>4
      <4>2. id \in listed'[id[1]] <=> id \in listed[id[1]]
        BY <1>5, <3>2, <3>4
      <4> QED BY <3>1, <4>1, <4>2
    <3> QED BY <3>3, <3>4
  <2> QED BY <2>1, <2>2 DEF Places, PlacesOf
<1>11. Contents'
  <2> SUFFICES ASSUME NEW q \in Ports, NEW id \in listed'[q] PROVE Fields(node[id], q)'
    BY DEF Contents, ContentsOf
  <2>1. q # p /\ id \in listed[q] /\ listed'[q] = listed[q] /\ pstate'[q] = pstate[q]
    BY <1>5
  <2>2. node'[id] = nodes[id]
    BY <1>6, <1>7, <2>1
  <2>3. Fields(nodes[id], q)
    BY <2>1 DEF ContentsOf
  <2> QED BY <2>1, <2>2, <2>3 DEF Fields
<1>12. Counts'
  <2> SUFFICES ASSUME NEW q \in Ports PROVE activeCnt'[q] = Cardinality(Active(node, q)')
    BY DEF Counts, CountsOf
  <2>1. CASE q = p
    <3>1. Active(node, q)' = {}
      BY <1>5, <2>1 DEF Active
    <3> QED BY <1>5, <2>1, <3>1, EmptyCount
  <2>2. CASE q # p
    <3>1. Active(node, q)' = Active(nodes, q)
      BY <1>5, <1>6, <1>7, <2>2 DEF Active
    <3> QED BY <1>2, <1>5, <2>2, <3>1
  <2> QED BY <2>1, <2>2
<1>13. ReportedOnce'
  <2>1. event[p] \in Runs
    <3>1. event[p] > 0 /\ event[p] \in 0 .. MaxRuns
      BY DEF Lists, TypeOK
    <3> QED BY <3>1, RunsType DEF Runs
  <2> SUFFICES ASSUME NEW q \in Ports, NEW r \in Runs
               PROVE  reports'[q][r] = IF r < event[q] \/ (r = event[q] /\ pstate'[q] = "IDLE")
                                       THEN 1 ELSE 0
    BY DEF ReportedOnce
  <2>2. reports[q][r] = IF r < event[q] \/ (r = event[q] /\ pstate[q] = "IDLE") THEN 1 ELSE 0
    BY DEF ReportedOnce
  <2>3. reports'[q][r] = IF q = p /\ r = event[p] THEN reports[q][r] + 1 ELSE reports[q][r]
    BY <1>1, <2>1 DEF TypeOK
  <2>4. r \in Nat /\ event[q] \in Nat
    BY RunsType DEF TypeOK
  <2> QED BY <1>5, <2>2, <2>3, <2>4
<1>14. StopTypes'
  <2>1. event[p] \in Runs
    <3>1. event[p] > 0 /\ event[p] \in 0 .. MaxRuns
      BY DEF Lists, TypeOK
    <3> QED BY <3>1, RunsType DEF Runs
  <2>2. node' \in [NodeIds -> NodeRecord]
    BY <1>1, GoneType
  <2>3. reports' \in [Ports -> [Runs -> Nat]]
    BY <1>1, <2>1 DEF TypeOK
  <2> QED BY <1>1, <1>3, <2>2, <2>3 DEF StopTypes, TypeOK
<1> QED BY <1>4, <1>9, <1>10, <1>11, <1>12, <1>13, <1>14

LEMMA StopPortGood ==
  ASSUME TypeOK, Lists, ReportedOnce, failed = Quiet, NEW p \in Ports, NEW old \in BOOLEAN,
         NEW nodes \in [NodeIds -> NodeRecord], NEW cnt \in Nat,
         PlacesOf(nodes, heap'), ContentsOf(nodes), CountsOf(nodes, [activeCnt EXCEPT ![p] = cnt]),
         event' = event, StopPort(p, old, nodes, cnt)
  PROVE  Lists' /\ Places' /\ Contents' /\ Counts' /\ ReportedOnce' /\ failed' = Quiet /\ StopTypes'
BY StopPortIgnored, StopPortStops

-----------------------------------------------------------------------------
(***************************************************************************)
(* Messages to the core, except start_traffic.                             *)
(***************************************************************************)
LEMMA InitInv == Init => DpInv
<1> SUFFICES ASSUME Init PROVE DpInv
  OBVIOUS
<1>1. TypeOK
  <2>1. node \in [NodeIds -> NodeRecord]
    BY GoneType DEF Init
  <2>2. 0 \in 0 .. MaxRuns
    BY RunsType
  <2> QED BY <2>1, <2>2 DEF Init, TypeOK
<1>2. Quitting
  BY EmptyCount DEF Init, Quitting
<1>3. Lists
  BY EmptyCount DEF Init, Lists
<1>4. InHeap(heap) = {}
  BY DEF Init, InHeap
<1>5. Places
  <2>1. \A id \in NodeIds : id[1] \in Ports
    BY IdFacts
  <2> QED BY <1>4, <2>1, EmptyCount, GoneType DEF Init, Places, PlacesOf
<1>6. Contents
  BY DEF Init, Contents, ContentsOf
<1>7. Counts
  <2>1. \A p \in Ports : Active(node, p) = {}
    BY DEF Init, Active
  <2> QED BY <2>1, EmptyCount DEF Init, Counts, CountsOf
<1>8. IdleEmpty /\ TimersOfRuns
  BY <1>4 DEF Init, IdleEmpty, TimersOfRuns
<1>9. ReportedOnce
  <2>1. \A r \in Runs : r \in Nat /\ r > 0
    BY RunsType
  <2> QED BY <2>1 DEF Init, ReportedOnce
<1> QED BY <1>1, <1>2, <1>3, <1>5, <1>6, <1>7, <1>8, <1>9 DEF DpInv, Good

(* The count of a port is the one StopPort is called with. *)
LEMMA SameCount ==
  ASSUME TypeOK, Counts, NEW p \in Ports
  PROVE  CountsOf(node, [activeCnt EXCEPT ![p] = activeCnt[p]]) /\ activeCnt[p] \in Nat
<1>1. [activeCnt EXCEPT ![p] = activeCnt[p]] = activeCnt /\ activeCnt[p] \in Nat
  BY DEF TypeOK
<1> QED BY <1>1 DEF Counts

LEMMA StopStep ==
  ASSUME DpInv, NEW p \in Ports, StopTraffic(p)
  PROVE  DpInv'
<1>1. /\ failed = Quiet /\ StopPort(p, FALSE, node, activeCnt[p])
      /\ UNCHANGED <<threadVars, event, heap, queueVars, rounds>>
  BY DEF StopTraffic, Draining
<1>2. TypeOK /\ Good /\ Quitting
  BY <1>1 DEF DpInv
<1>3. CountsOf(node, [activeCnt EXCEPT ![p] = activeCnt[p]]) /\ activeCnt[p] \in Nat
  BY <1>2, SameCount DEF Good
<1>4. PlacesOf(node, heap') /\ ContentsOf(node)
  BY <1>1, <1>2 DEF Good, Places, Contents
<1>5. node \in [NodeIds -> NodeRecord]
  BY <1>2 DEF TypeOK
<1>6. Lists' /\ Places' /\ Contents' /\ Counts' /\ ReportedOnce' /\ failed' = Quiet /\ StopTypes'
  BY <1>1, <1>2, <1>3, <1>4, <1>5, StopPortGood DEF Good
<1>7. TypeOK'
  BY <1>1, <1>2, <1>6 DEF TypeOK, StopTypes, threadVars, queueVars, Quiet
<1>8. Quitting' /\ IdleEmpty' /\ TimersOfRuns'
  BY <1>1, <1>2, <1>6 DEF Quitting, Good, IdleEmpty, TimersOfRuns, threadVars, queueVars, InHeap
<1> QED BY <1>6, <1>7, <1>8 DEF DpInv, Good

(* Pausing changes one flag of the listed nodes. *)
LEMMA PauseFields ==
  ASSUME NEW n \in NodeRecord, NEW on \in BOOLEAN
  PROVE  LET m == [n EXCEPT !.pause = on] IN
           /\ m \in NodeRecord /\ m.state = n.state /\ m.next = n.next /\ m.cont = n.cont
           /\ m.refill = n.refill /\ m.bursts = n.bursts /\ m.single = n.single
           /\ m.multi = n.multi /\ m.pause = on
BY DEF NodeRecord

LEMMA PauseGood ==
  ASSUME DpInv, failed = Quiet, failed' = Quiet, NEW p \in Ports, NEW on \in BOOLEAN,
         SetPause(p, on), pstate[p] # "IDLE",
         pstate' = [pstate EXCEPT ![p] = IF on THEN "PAUSE" ELSE "TRANSMITTING"],
         UNCHANGED <<threadVars, event, activeCnt, listed, heap, queueVars, reports, rounds>>
  PROVE  DpInv'
<1> USE DEF threadVars, queueVars
<1>1. TypeOK /\ Good /\ Quitting
  BY DEF DpInv
<1>2. node' = [id \in NodeIds |-> IF id \in listed[p] THEN [node[id] EXCEPT !.pause = on]
                                                      ELSE node[id]]
  BY DEF SetPause
<1>3. \A id \in NodeIds : node[id] \in NodeRecord
  BY <1>1 DEF TypeOK
<1>4. \A id \in NodeIds :
        LET m == node'[id]
            n == node[id]
        IN  /\ m \in NodeRecord /\ m.state = n.state /\ m.next = n.next /\ m.cont = n.cont
            /\ m.refill = n.refill /\ m.bursts = n.bursts /\ m.single = n.single
            /\ m.multi = n.multi
            /\ m.pause = IF id \in listed[p] THEN on ELSE n.pause
  <2> SUFFICES ASSUME NEW id \in NodeIds
               PROVE  LET m == node'[id]
                          n == node[id]
                      IN  /\ m \in NodeRecord /\ m.state = n.state /\ m.next = n.next
                          /\ m.cont = n.cont
                          /\ m.refill = n.refill /\ m.bursts = n.bursts /\ m.single = n.single
                          /\ m.multi = n.multi
                          /\ m.pause = IF id \in listed[p] THEN on ELSE n.pause
    OBVIOUS
  <2>1. CASE id \in listed[p]
    <3>1. node'[id] = [node[id] EXCEPT !.pause = on]
      BY <1>2, <2>1
    <3> QED BY <1>3, <2>1, <3>1, PauseFields
  <2>2. CASE id \notin listed[p]
    <3>1. node'[id] = node[id]
      BY <1>2, <2>2
    <3> QED BY <1>3, <2>2, <3>1
  <2> QED BY <2>1, <2>2
<1>5. node' \in [NodeIds -> NodeRecord]
  BY <1>2, <1>4
<1>6. /\ pstate' \in [Ports -> {"IDLE", "TRANSMITTING", "PAUSE"}]
      /\ pstate'[p] = IF on THEN "PAUSE" ELSE "TRANSMITTING"
      /\ \A q \in Ports \ {p} : pstate'[q] = pstate[q]
  BY <1>1 DEF TypeOK
<1>7. TypeOK'
  BY <1>1, <1>5, <1>6 DEF TypeOK
<1>8. Lists'
  BY <1>1, <1>6 DEF Good, Lists
<1>9. Places'
  <2>1. \A id \in NodeIds : node'[id].state = node[id].state
    BY <1>4
  <2> QED BY <1>1, <2>1 DEF Good, Places, PlacesOf, InHeap
<1>10. Contents'
  <2> SUFFICES ASSUME NEW q \in Ports, NEW id \in listed[q] PROVE Fields(node[id], q)'
    BY DEF Contents, ContentsOf
  <2>1. id \in NodeIds /\ id[1] = q
    BY <1>1 DEF TypeOK, Good, Lists
  <2>2. Fields(node[id], q)
    BY <1>1 DEF Good, Contents, ContentsOf
  <2>3. node'[id].pause <=> pstate'[q] = "PAUSE"
    <3>1. CASE q = p
      BY <1>4, <1>6, <2>1, <3>1
    <3>2. CASE q # p
      <4>1. id \notin listed[p]
        BY <1>1, <2>1, <3>2 DEF Good, Lists
      <4>2. node'[id].pause = node[id].pause
        BY <1>4, <2>1, <4>1
      <4> QED BY <1>6, <2>2, <3>2, <4>2 DEF Fields
    <3> QED BY <3>1, <3>2
  <2> QED BY <1>4, <2>1, <2>2, <2>3 DEF Fields
<1>11. Counts'
  <2>1. \A q \in Ports : Active(node, q)' = Active(node, q)
    <3>1. \A q \in Ports : \A id \in listed[q] : node'[id].state = node[id].state
      BY <1>1, <1>4 DEF TypeOK
    <3> QED BY <3>1 DEF Active
  <2> QED BY <1>1, <2>1 DEF Good, Counts, CountsOf
<1>12. ReportedOnce'
  BY <1>1, <1>6 DEF Good, ReportedOnce
<1>13. Quitting' /\ IdleEmpty' /\ TimersOfRuns'
  BY <1>1 DEF Quitting, Good, IdleEmpty, TimersOfRuns, InHeap
<1> QED BY <1>7, <1>8, <1>9, <1>10, <1>11, <1>12, <1>13 DEF DpInv, Good

LEMMA PauseStep ==
  ASSUME DpInv, NEW p \in Ports, PauseTraffic(p) \/ ResumeTraffic(p)
  PROVE  DpInv'
<1>1. failed = Quiet
  BY DEF PauseTraffic, ResumeTraffic, Draining
<1>2. \A id \in listed[p] : node[id].pause <=> pstate[p] = "PAUSE"
  BY <1>1 DEF DpInv, Good, Contents, ContentsOf, Fields
<1>3. CASE PauseTraffic(p)
  <2>1. pstate[p] = "TRANSMITTING" /\ SetPause(p, TRUE) /\ pstate' = [pstate EXCEPT ![p] = "PAUSE"]
        /\ UNCHANGED <<threadVars, event, activeCnt, listed, heap, queueVars, reports, rounds>>
        /\ failed' = IF \E id \in listed[p] : node[id].pause THEN "pause" ELSE failed
    BY <1>3, Zenon DEF PauseTraffic
  <2>2. failed' = Quiet
    BY <1>1, <1>2, <2>1
  <2> QED BY <1>1, <2>1, <2>2, PauseGood
<1>4. CASE ResumeTraffic(p)
  <2>1. pstate[p] = "PAUSE" /\ SetPause(p, FALSE) /\ pstate' = [pstate EXCEPT ![p] = "TRANSMITTING"]
        /\ UNCHANGED <<threadVars, event, activeCnt, listed, heap, queueVars, reports, rounds>>
        /\ failed' = IF \E id \in listed[p] : ~node[id].pause THEN "resume" ELSE failed
    BY <1>4, Zenon DEF ResumeTraffic
  <2>2. failed' = Quiet
    BY <1>1, <1>2, <2>1
  <2> QED BY <1>1, <2>1, <2>2, PauseGood
<1> QED BY <1>3, <1>4

-----------------------------------------------------------------------------
(***************************************************************************)
(* The loops of the thread.                                                *)
(***************************************************************************)
LEMMA SamePorts ==
  ASSUME Good, failed' = failed, UNCHANGED <<portVars, node, heap, reports>>
  PROVE  Lists' /\ Places' /\ Contents' /\ Counts' /\ ReportedOnce'
<1> USE DEF portVars, Good
<1>1. Lists' /\ ReportedOnce'
  BY DEF Lists, ReportedOnce
<1>2. Places'
  BY DEF Places, PlacesOf, InHeap
<1>3. Contents'
  BY DEF Contents, ContentsOf, Fields
<1>4. Counts'
  BY DEF Counts, CountsOf, Active
<1> QED BY <1>1, <1>2, <1>3, <1>4

LEMMA ThreadStep ==
  ASSUME DpInv, QuitMainLoop \/ LeaveIdleLoop \/ FlowSync \/ UNCHANGED vars
  PROVE  DpInv'
<1> USE DEF vars, threadVars, queueVars
<1>1. /\ UNCHANGED <<portVars, node, heap, timers, nonActive, reports, rounds, failed>>
      /\ exits' \in {exits, exits + 1} /\ (exits' # exits => terminated')
      /\ terminated => terminated'
      /\ terminated' \in BOOLEAN
      /\ core' \in {core, "TERMINATE"} /\ (terminated' = terminated \/ core' = "TERMINATE")
      /\ loop' \in {loop, "gone", "sched", "sync"}
      /\ loop' = "idle" /\ core' = "IDLE" => loop = "idle" /\ core = "IDLE" /\ exits' = exits
  BY DEF QuitMainLoop, LeaveIdleLoop, FlowSync, DpInv, TypeOK
<1>2. TypeOK'
  BY <1>1 DEF DpInv, TypeOK, portVars
<1>3. Quitting'
  BY <1>1 DEF DpInv, Quitting, TypeOK
<1>4. ASSUME failed = Quiet PROVE Good'
  <2>1. Good
    BY <1>4 DEF DpInv
  <2>2. Lists' /\ Places' /\ Contents' /\ Counts' /\ ReportedOnce'
    BY <1>1, <2>1, SamePorts
  <2>3. IdleEmpty' /\ TimersOfRuns'
    BY <1>1, <2>1 DEF Good, IdleEmpty, TimersOfRuns, InHeap, portVars
  <2> QED BY <2>2, <2>3 DEF Good
<1> QED BY <1>1, <1>2, <1>3, <1>4 DEF DpInv

(* remove_all on a heap of marked nodes. *)
LEMMA LeaveGood ==
  ASSUME DpInv, failed = Quiet, LeaveScheduler, core # "TERMINATE",
         UNCHANGED <<terminated, portVars, reports, rounds>>,
         \/ InHeap(heap) = {}
         \/ LateStart
  PROVE  DpInv'
<1> USE DEF portVars
<1>1. TypeOK /\ Good /\ Quitting
  BY DEF DpInv
<1>2. /\ loop' = IF terminated THEN "gone" ELSE "idle"
      /\ core' = "IDLE"
      /\ failed' = IF \A id \in NodeIds : heap[id] > 0 => node[id].state = "FREE"
                   THEN failed ELSE "remove_all"
      /\ node' = [id \in NodeIds |-> IF heap[id] > 0 THEN Gone ELSE node[id]]
      /\ heap' = [id \in NodeIds |-> 0]
      /\ timers' = {} /\ exits' = 0
      /\ nonActive' = nonActive - Cardinality(timers)
  BY Zenon DEF LeaveScheduler
<1>3. nonActive' = 0
  <2>1. timers \in SUBSET (Ports \X Runs) /\ nonActive = Cardinality(timers)
    BY <1>1 DEF TypeOK, Quitting
  <2>2. Cardinality(timers) \in Nat
    BY <2>1, Finiteness
  <2> QED BY <1>2, <2>1, <2>2
<1>4. failed' \in {Quiet, "remove_all"} /\ (~LateStart => failed' = Quiet)
  <2>1. InHeap(heap) = {} => \A id \in NodeIds : heap[id] > 0 => node[id].state = "FREE"
    BY DEF InHeap
  <2> QED BY <1>2, <2>1
<1>5. TypeOK'
  <2>1. node' \in [NodeIds -> NodeRecord]
    BY <1>1, <1>2, GoneType DEF TypeOK
  <2>2. failed' \in {Quiet, "nodes_in_list", "idle_but_active", "stopped_but_active", "pause",
                     "resume", "remove_all", "next_is_free"}
    BY <1>4
  <2>3. loop' \in {"idle", "sched", "sync", "gone"}
    BY <1>2
  <2>4. heap' \in [NodeIds -> Nat]
    BY <1>2
  <2> QED BY <1>1, <1>2, <1>3, <2>1, <2>2, <2>3, <2>4 DEF TypeOK
<1>6. Quitting'
  <2>1. terminated => LateStart
    BY <1>1 DEF Quitting
  <2> QED BY <1>2, <1>3, <1>4, <2>1, EmptyCount DEF Quitting
<1>7. ASSUME failed' = Quiet PROVE Good'
  <2>1. \A id \in NodeIds : heap[id] > 0 => node[id].state = "FREE"
    BY <1>2, <1>7 DEF Quiet
  <2>2. \A id \in NodeIds :
          /\ node[id].state = "FREE" => node'[id].state = "GONE"
          /\ node[id].state # "FREE" => node'[id] = node[id]
    <3> SUFFICES ASSUME NEW id \in NodeIds
                 PROVE  /\ node[id].state = "FREE" => node'[id].state = "GONE"
                        /\ node[id].state # "FREE" => node'[id] = node[id]
      OBVIOUS
    <3>1. heap[id] = IF node[id].state \in {"ACTIVE", "FREE"} THEN 1 ELSE 0
      BY <1>1 DEF Good, Places, PlacesOf
    <3>2. node'[id] = IF heap[id] > 0 THEN Gone ELSE node[id]
      BY <1>2
    <3> QED BY <2>1, <3>1, <3>2, GoneType
  <2>3. \A id \in NodeIds : node[id].state # "ACTIVE"
    <3>1. \A id \in NodeIds : node[id].state = "ACTIVE" => heap[id] = 1
      BY <1>1 DEF Good, Places, PlacesOf
    <3> QED BY <2>1, <3>1
  <2>4. \A p \in Ports : \A id \in listed[p] : id \in NodeIds /\ node'[id] = node[id]
    <3> SUFFICES ASSUME NEW p \in Ports, NEW id \in listed[p]
                 PROVE  id \in NodeIds /\ node'[id] = node[id]
      OBVIOUS
    <3>1. id \in NodeIds /\ id[1] = p
      BY <1>1 DEF TypeOK, Good, Lists
    <3>2. node[id].state \in {"ACTIVE", "INACTIVE"}
      BY <1>1, <3>1 DEF Good, Places, PlacesOf
    <3> QED BY <2>2, <3>1, <3>2
  <2>5. InHeap(heap)' = {}
    BY <1>2 DEF InHeap
  <2>6. Places'
    <3>1. ASSUME NEW id \in NodeIds
          PROVE  /\ heap'[id] = IF node'[id].state \in {"ACTIVE", "FREE"} THEN 1 ELSE 0
                 /\ id \in listed'[id[1]] <=> node'[id].state \in {"ACTIVE", "INACTIVE"}
                 /\ node'[id].state # "GONE" => id[2] <= event'[id[1]]
      <4>1. /\ id \in listed[id[1]] <=> node[id].state \in {"ACTIVE", "INACTIVE"}
            /\ node[id].state # "GONE" => id[2] <= event[id[1]]
        BY <1>1 DEF Good, Places, PlacesOf
      <4>2. heap'[id] = 0
        BY <1>2
      <4> QED BY <2>2, <2>3, <4>1, <4>2
    <3> QED BY <2>5, <3>1, EmptyCount DEF Places, PlacesOf
  <2>7. Lists' /\ ReportedOnce'
    BY <1>1, <1>7 DEF Good, Lists, ReportedOnce
  <2>8. Contents'
    BY <1>1, <2>4 DEF Good, Contents, ContentsOf, Fields
  <2>9. Counts'
    <3>1. \A p \in Ports : Active(node, p)' = Active(node, p)
      BY <2>4 DEF Active
    <3> QED BY <1>1, <3>1 DEF Good, Counts, CountsOf
  <2>10. IdleEmpty' /\ TimersOfRuns'
    BY <1>2, <2>5 DEF IdleEmpty, TimersOfRuns
  <2> QED BY <2>6, <2>7, <2>8, <2>9, <2>10 DEF Good
<1> QED BY <1>5, <1>6, <1>7 DEF DpInv

(* The scheduler returns or goes on. *)
LEMMA SyncStep ==
  ASSUME DpInv, SyncDone \/ ExitSched
  PROVE  DpInv'
<1> USE DEF queueVars
<1>1. failed = Quiet /\ UNCHANGED <<terminated, portVars, reports, rounds>>
  BY DEF SyncDone, ExitSched
<1>2. TypeOK /\ Good /\ Quitting
  BY <1>1 DEF DpInv
<1>3. ASSUME loop' \in {"gone", "sched"}, UNCHANGED <<core, node, heap, queueVars, failed>>
      PROVE  DpInv'
  <2>1. TypeOK'
    BY <1>1, <1>2, <1>3 DEF TypeOK, portVars
  <2>2. Quitting'
    BY <1>1, <1>2, <1>3 DEF Quitting
  <2>3. Lists' /\ Places' /\ Contents' /\ Counts' /\ ReportedOnce'
    BY <1>1, <1>2, <1>3, SamePorts
  <2>4. IdleEmpty' /\ TimersOfRuns'
    BY <1>1, <1>2, <1>3 DEF Good, IdleEmpty, TimersOfRuns, portVars
  <2> QED BY <2>1, <2>2, <2>3, <2>4 DEF DpInv, Good
<1>4. ASSUME LeaveScheduler, InHeap(heap) = {} \/ core = "TERMINATE" \/ LateStart PROVE DpInv'
  <2>1. CASE core = "TERMINATE"
    <3>1. loop' = "gone" /\ UNCHANGED <<core, node, heap, queueVars, failed>>
      BY <1>4, <2>1, Zenon DEF LeaveScheduler
    <3> QED BY <1>3, <3>1
  <2>2. CASE core # "TERMINATE"
    BY <1>1, <1>4, <2>2, LeaveGood
  <2> QED BY <2>1, <2>2
<1>5. CASE SyncDone
  <2>1. \/ QueueSize = nonActive /\ LeaveScheduler
        \/ loop' = "sched" /\ UNCHANGED <<core, node, heap, queueVars, failed>>
    BY <1>5, Zenon DEF SyncDone
  <2>2. ASSUME QueueSize = nonActive PROVE InHeap(heap) = {}
    <3>1. Cardinality(Queued) + Cardinality(timers) + exits = Cardinality(timers)
      BY <1>2, <2>2 DEF QueueSize, Quitting
    <3>2. timers \in SUBSET (Ports \X Runs) /\ exits \in Nat
      BY <1>2 DEF TypeOK
    <3>3. Cardinality(timers) \in Nat
      BY <3>2, Finiteness
    <3>4. Cardinality(Queued) \in Nat
      BY <1>2, QueueEmpty DEF Good
    <3>5. Cardinality(Queued) = 0
      BY <3>1, <3>2, <3>3, <3>4
    <3> QED BY <1>2, <3>5, QueueEmpty DEF Good
  <2> QED BY <1>3, <1>4, <2>1, <2>2
<1>6. CASE ExitSched
  <2>1. exits > 0 /\ LeaveScheduler
    BY <1>6 DEF ExitSched
  <2>2. core = "TERMINATE" \/ LateStart
    BY <1>2, <2>1 DEF Quitting
  <2> QED BY <1>4, <2>1, <2>2
<1> QED BY <1>5, <1>6

-----------------------------------------------------------------------------
(***************************************************************************)
(* Nodes that come up.                                                     *)
(***************************************************************************)
LEMMA DurationStep ==
  ASSUME DpInv, NEW p \in Ports, NEW r \in Runs, DurationElapses(p, r)
  PROVE  DpInv'
<1> USE DEF threadVars
<1>1. /\ failed = Quiet /\ loop = "sched" /\ <<p, r>> \in timers
      /\ timers' = timers \ {<<p, r>>} /\ nonActive' = nonActive - 1
      /\ UNCHANGED <<threadVars, event, heap, exits, rounds>>
  BY DEF DurationElapses
<1>2. StopPort(p, r # event[p], node, activeCnt[p])
  BY DEF DurationElapses
<1>3. TypeOK /\ Good /\ Quitting
  BY <1>1 DEF DpInv
<1>4. CountsOf(node, [activeCnt EXCEPT ![p] = activeCnt[p]]) /\ activeCnt[p] \in Nat
  BY <1>3, SameCount DEF Good
<1>5. PlacesOf(node, heap') /\ ContentsOf(node)
  BY <1>1, <1>3 DEF Good, Places, Contents
<1>6. node \in [NodeIds -> NodeRecord] /\ (r # event[p]) \in BOOLEAN
  BY <1>3 DEF TypeOK
<1>7. Lists' /\ Places' /\ Contents' /\ Counts' /\ ReportedOnce' /\ failed' = Quiet /\ StopTypes'
  BY <1>1, <1>2, <1>3, <1>4, <1>5, <1>6, StopPortGood DEF Good
<1>8. timers' \in SUBSET (Ports \X Runs) /\ nonActive' = Cardinality(timers') /\ nonActive' \in Nat
  <2>1. timers \in SUBSET (Ports \X Runs) /\ nonActive = Cardinality(timers)
    BY <1>3 DEF TypeOK, Quitting
  <2>2. IsFiniteSet(timers)
    BY <2>1, Finiteness
  <2>3. Cardinality(timers \ {<<p, r>>}) = Cardinality(timers) - 1
    BY <1>1, <2>2, FS_RemoveElement
  <2>4. timers' \in SUBSET (Ports \X Runs)
    BY <1>1, <2>1
  <2>5. Cardinality(timers') \in Nat
    BY <2>4, Finiteness
  <2> QED BY <1>1, <2>1, <2>3, <2>4, <2>5
<1>9. TypeOK'
  BY <1>1, <1>3, <1>7, <1>8 DEF TypeOK, StopTypes, Quiet
<1>10. Quitting' /\ IdleEmpty' /\ TimersOfRuns'
  BY <1>1, <1>3, <1>7, <1>8 DEF Quitting, Good, IdleEmpty, TimersOfRuns
<1> QED BY <1>7, <1>9, <1>10 DEF DpInv, Good

LEMMA FreeStep ==
  ASSUME DpInv, NEW id \in NodeIds, FreeNode(id)
  PROVE  DpInv'
<1> USE DEF threadVars, queueVars, portVars
<1>1. /\ failed = Quiet /\ loop = "sched" /\ heap[id] > 0 /\ node[id].state = "FREE"
      /\ heap' = [heap EXCEPT ![id] = @ - 1] /\ node' = [node EXCEPT ![id] = Gone]
      /\ UNCHANGED <<threadVars, portVars, queueVars, reports, rounds, failed>>
  BY DEF FreeNode
<1>2. TypeOK /\ Good /\ Quitting
  BY <1>1 DEF DpInv
<1>3. heap[id] = 1
  BY <1>1, <1>2 DEF Good, Places, PlacesOf
<1>4. /\ heap'[id] = 0 /\ node'[id] = Gone /\ heap' \in [NodeIds -> Nat]
      /\ node' \in [NodeIds -> NodeRecord]
      /\ \A x \in NodeIds \ {id} : heap'[x] = heap[x] /\ node'[x] = node[x]
  BY <1>1, <1>2, <1>3, GoneType DEF TypeOK
<1>5. \A p \in Ports : \A x \in listed[p] : x \in NodeIds /\ x # id
  <2>1. id \notin listed[id[1]]
    BY <1>1, <1>2 DEF Good, Places, PlacesOf
  <2> QED BY <1>2, <2>1 DEF TypeOK, Good, Lists
<1>6. TypeOK'
  BY <1>1, <1>2, <1>4 DEF TypeOK
<1>7. Lists' /\ ReportedOnce' /\ Quitting' /\ IdleEmpty' /\ TimersOfRuns'
  BY <1>1, <1>2 DEF Good, Lists, ReportedOnce, Quitting, IdleEmpty, TimersOfRuns
<1>8. Places'
  <2>1. IsFiniteSet(InHeap(heap)')
    <3>1. InHeap(heap)' \in SUBSET InHeap(heap)
      BY <1>4 DEF InHeap
    <3>2. IsFiniteSet(InHeap(heap))
      BY <1>2 DEF Good, Places, PlacesOf
    <3> QED BY <3>1, <3>2, FS_Subset
  <2>2. ASSUME NEW x \in NodeIds
        PROVE  /\ heap'[x] = IF node'[x].state \in {"ACTIVE", "FREE"} THEN 1 ELSE 0
               /\ x \in listed'[x[1]] <=> node'[x].state \in {"ACTIVE", "INACTIVE"}
               /\ node'[x].state # "GONE" => x[2] <= event'[x[1]]
    <3>1. /\ heap[x] = IF node[x].state \in {"ACTIVE", "FREE"} THEN 1 ELSE 0
          /\ x \in listed[x[1]] <=> node[x].state \in {"ACTIVE", "INACTIVE"}
          /\ node[x].state # "GONE" => x[2] <= event[x[1]]
      BY <1>2 DEF Good, Places, PlacesOf
    <3>2. CASE x = id
      BY <1>1, <1>4, <3>1, <3>2, GoneType
    <3>3. CASE x # id
      BY <1>1, <1>4, <3>1, <3>3
    <3> QED BY <3>2, <3>3
  <2> QED BY <2>1, <2>2 DEF Places, PlacesOf
<1>9. Contents'
  BY <1>1, <1>2, <1>4, <1>5 DEF Good, Contents, ContentsOf, Fields
<1>10. Counts'
  <2>1. \A p \in Ports : Active(node, p)' = Active(node, p)
    BY <1>1, <1>4, <1>5 DEF Active
  <2> QED BY <1>1, <1>2, <2>1 DEF Good, Counts, CountsOf
<1> QED BY <1>6, <1>7, <1>8, <1>9, <1>10 DEF DpInv, Good

(* A node that comes up and is not marked is active and in the list of its *)
(* port, which is not idle.                                                *)
LEMMA BurstingNode ==
  ASSUME DpInv, NEW id \in NodeIds, Bursting(id)
  PROVE  /\ failed = Quiet /\ TypeOK /\ Good /\ Quitting /\ loop = "sched"
         /\ node[id] \in NodeRecord /\ node[id].state = "ACTIVE" /\ heap[id] = 1
         /\ id[1] \in Ports /\ id \in listed[id[1]] /\ pstate[id[1]] # "IDLE"
         /\ ~node[id].cont /\ Fields(node[id], id[1])
         /\ node[id].single > 0 /\ node[id].multi > 0
<1>1. /\ failed = Quiet /\ loop = "sched" /\ heap[id] > 0 /\ node[id].state # "FREE"
      /\ ~node[id].cont
  BY DEF Bursting
<1>2. TypeOK /\ Good /\ Quitting
  BY <1>1 DEF DpInv
<1>3. node[id] \in NodeRecord /\ id[1] \in Ports
  BY <1>2, IdFacts DEF TypeOK
<1>4. /\ heap[id] = IF node[id].state \in {"ACTIVE", "FREE"} THEN 1 ELSE 0
      /\ id \in listed[id[1]] <=> node[id].state \in {"ACTIVE", "INACTIVE"}
  BY <1>2 DEF Good, Places, PlacesOf
<1>5. node[id].state = "ACTIVE" /\ heap[id] = 1 /\ id \in listed[id[1]]
  BY <1>1, <1>4
<1>6. pstate[id[1]] # "IDLE"
  BY <1>2, <1>3, <1>5 DEF Good, Lists
<1>7. Fields(node[id], id[1])
  BY <1>2, <1>3, <1>5 DEF Good, Contents, ContentsOf
<1> QED BY <1>1, <1>2, <1>3, <1>5, <1>6, <1>7 DEF Fields

LEMMA BurstGood ==
  ASSUME DpInv, NEW id \in NodeIds, Bursting(id), NEW n \in NodeRecord,
         node' = [node EXCEPT ![id] = n], SameStream(n, node[id]),
         n.state = node[id].state, n.single > 0, n.multi > 0,
         UNCHANGED <<threadVars, portVars, heap, queueVars, reports, rounds, failed>>
  PROVE  DpInv'
<1> USE DEF threadVars, queueVars, portVars
<1>1. /\ failed = Quiet /\ TypeOK /\ Good /\ Quitting
      /\ id[1] \in Ports /\ id \in listed[id[1]] /\ Fields(node[id], id[1])
  BY BurstingNode
<1>2. /\ node' \in [NodeIds -> NodeRecord] /\ node'[id] = n
      /\ \A x \in NodeIds \ {id} : node'[x] = node[x]
      /\ \A x \in NodeIds : node'[x].state = node[x].state
  BY <1>1 DEF TypeOK
<1>3. TypeOK'
  BY <1>1, <1>2 DEF TypeOK
<1>4. Lists' /\ ReportedOnce' /\ Quitting' /\ IdleEmpty' /\ TimersOfRuns'
  BY <1>1 DEF Good, Lists, ReportedOnce, Quitting, IdleEmpty, TimersOfRuns, InHeap
<1>5. Places'
  BY <1>1, <1>2 DEF Good, Places, PlacesOf, InHeap
<1>6. Contents'
  <2> SUFFICES ASSUME NEW q \in Ports, NEW x \in listed[q] PROVE Fields(node[x], q)'
    BY DEF Contents, ContentsOf
  <2>1. x \in NodeIds /\ x[1] = q /\ Fields(node[x], q)
    BY <1>1 DEF TypeOK, Good, Lists, Contents, ContentsOf
  <2>2. CASE x = id
    BY <1>2, <2>1, <2>2 DEF Fields, SameStream
  <2>3. CASE x # id
    BY <1>2, <2>1, <2>3 DEF Fields
  <2> QED BY <2>2, <2>3
<1>7. Counts'
  <2>1. \A p \in Ports : \A x \in listed[p] : node'[x].state = node[x].state
    BY <1>1, <1>2 DEF TypeOK
  <2>2. \A p \in Ports : Active(node, p)' = Active(node, p)
    BY <2>1 DEF Active
  <2> QED BY <1>1, <2>2 DEF Good, Counts, CountsOf
<1> QED BY <1>3, <1>4, <1>5, <1>6, <1>7 DEF DpInv, Good

LEMMA BurstStep ==
  ASSUME DpInv, NEW id \in NodeIds, SendPacket(id) \/ NextBurst(id)
  PROVE  DpInv'
<1>1. /\ Bursting(id)
      /\ UNCHANGED <<threadVars, portVars, heap, queueVars, reports, rounds, failed>>
  BY DEF SendPacket, NextBurst
<1>2. /\ node[id] \in NodeRecord /\ node[id].single > 0 /\ node[id].multi > 0
      /\ ~node[id].cont /\ node[id].refill > 0 /\ TypeOK
  BY <1>1, BurstingNode DEF Fields
<1>3. node[id].single \in Nat /\ node[id].multi \in Nat /\ node[id].refill \in Nat
  BY <1>2, NodeFields
<1>4. CASE SendPacket(id)
  <2> DEFINE k == node[id].single - 1
             n == [node[id] EXCEPT !.single = k]
  <2>1. node[id].single # 1 /\ node' = [node EXCEPT ![id] = n]
    BY <1>4 DEF SendPacket
  <2>2. k \in Nat /\ k > 0
    BY <1>2, <1>3, <2>1
  <2> HIDE DEF k
  <2>3. /\ n \in NodeRecord /\ SameStream(n, node[id]) /\ n.state = node[id].state
        /\ n.single = k /\ n.multi = node[id].multi
    BY <1>2, <2>2, NodeUpdates
  <2> HIDE DEF n
  <2> QED BY <1>1, <1>2, <2>1, <2>2, <2>3, BurstGood
<1>5. CASE NextBurst(id)
  <2> DEFINE k == node[id].multi - 1
             m == [node[id] EXCEPT !.multi = k]
             n == [m EXCEPT !.single = node[id].refill]
  <2>1. node[id].multi # 1 /\ node' = [node EXCEPT ![id].multi = @ - 1, ![id].single = node[id].refill]
    BY <1>5 DEF NextBurst
  <2>2. k \in Nat /\ k > 0
    BY <1>2, <1>3, <2>1
  <2>3. node' = [node EXCEPT ![id] = n]
    BY <1>2, <2>1 DEF TypeOK
  <2> HIDE DEF k
  <2>4. /\ m \in NodeRecord /\ SameStream(m, node[id]) /\ m.state = node[id].state
        /\ m.multi = k
    BY <1>2, <2>2, NodeUpdates
  <2> HIDE DEF m
  <2>5. /\ n \in NodeRecord /\ SameStream(n, m) /\ n.state = m.state
        /\ n.single = node[id].refill /\ n.multi = m.multi
    BY <1>3, <2>4, NodeUpdates
  <2> HIDE DEF n
  <2>6. SameStream(n, node[id])
    BY <2>4, <2>5 DEF SameStream
  <2> QED BY <1>1, <1>2, <2>2, <2>3, <2>4, <2>5, <2>6, BurstGood
<1> QED BY <1>4, <1>5

-----------------------------------------------------------------------------
(***************************************************************************)
(* The end of a stream: set_stateless_next_node.                           *)
(***************************************************************************)
(* The nodes when stream id has sent its last packet. *)
Rested(nodes, id) ==
  /\ nodes \in [NodeIds -> NodeRecord]
  /\ \A x \in NodeIds \ {id} : nodes[x] = node[x]
  /\ SameStream(nodes[id], node[id]) /\ nodes[id].state = "INACTIVE"

LEMMA RestedAfterLast ==
  ASSUME DpInv, NEW id \in NodeIds, Bursting(id)
  PROVE  LET nodes == [node EXCEPT ![id].state = "INACTIVE", ![id].single = 0, ![id].multi = 0]
         IN  /\ Rested(nodes, id)
             /\ nodes[id].action \in Nat
             /\ \A k \in Nat : Rested([nodes EXCEPT ![id].action = k], id)
<1> DEFINE nodes == [node EXCEPT ![id].state = "INACTIVE", ![id].single = 0, ![id].multi = 0]
           a == [node[id] EXCEPT !.state = "INACTIVE"]
           b == [a EXCEPT !.single = 0]
           c == [b EXCEPT !.multi = 0]
<1>1. node[id] \in NodeRecord /\ node \in [NodeIds -> NodeRecord]
  BY BurstingNode DEF TypeOK
<1>2. nodes = [node EXCEPT ![id] = c]
  BY <1>1
<1>3. a \in NodeRecord /\ a.state = "INACTIVE" /\ SameStream(a, node[id])
  BY <1>1, StateUpdates
<1> HIDE DEF a
<1>4. b \in NodeRecord /\ b.state = a.state /\ SameStream(b, a)
  BY <1>3, NodeUpdates
<1> HIDE DEF b
<1>5. c \in NodeRecord /\ c.state = b.state /\ SameStream(c, b)
  BY <1>4, NodeUpdates
<1> HIDE DEF c, nodes
<1>6. SameStream(c, node[id]) /\ c.state = "INACTIVE" /\ c.action \in Nat
  BY <1>3, <1>4, <1>5, NodeFields DEF SameStream
<1>7. nodes \in [NodeIds -> NodeRecord] /\ nodes[id] = c /\ \A x \in NodeIds \ {id} : nodes[x] = node[x]
  BY <1>1, <1>2, <1>5
<1>8. Rested(nodes, id)
  BY <1>6, <1>7 DEF Rested
<1>9. ASSUME NEW k \in Nat PROVE Rested([nodes EXCEPT ![id].action = k], id)
  <2> DEFINE e == [c EXCEPT !.action = k]
             more == [nodes EXCEPT ![id] = e]
  <2>1. e \in NodeRecord /\ e.state = c.state /\ SameStream(e, c)
    BY <1>5, NodeUpdates
  <2>2. [nodes EXCEPT ![id].action = k] = more
    BY <1>7
  <2> HIDE DEF e
  <2>3. more \in [NodeIds -> NodeRecord] /\ more[id] = e
        /\ \A x \in NodeIds \ {id} : more[x] = node[x]
    BY <1>7, <2>1
  <2> HIDE DEF more
  <2>4. SameStream(e, node[id]) /\ e.state = "INACTIVE"
    BY <1>6, <2>1 DEF SameStream
  <2> QED BY <2>2, <2>3, <2>4 DEF Rested
<1> QED BY <1>6, <1>7, <1>8, <1>9 DEF nodes

LEMMA RestedFacts ==
  ASSUME DpInv, NEW id \in NodeIds, Bursting(id), NEW nodes, Rested(nodes, id)
  PROVE  /\ PlacesOf(nodes, [heap EXCEPT ![id] = @ - 1])
         /\ ContentsOf(nodes)
         /\ activeCnt[id[1]] - 1 \in Nat
         /\ CountsOf(nodes, [activeCnt EXCEPT ![id[1]] = activeCnt[id[1]] - 1])
         /\ Active(nodes, id[1]) = Active(node, id[1]) \ {id}
         /\ id \in Active(node, id[1])
<1> DEFINE p == id[1]
           hp == [heap EXCEPT ![id] = @ - 1]
<1>1. /\ TypeOK /\ Good /\ node[id] \in NodeRecord /\ node[id].state = "ACTIVE" /\ heap[id] = 1
      /\ p \in Ports /\ id \in listed[p] /\ ~node[id].cont /\ Fields(node[id], p)
  BY BurstingNode
<1>2. /\ \A x \in NodeIds \ {id} : nodes[x] = node[x]
      /\ SameStream(nodes[id], node[id]) /\ nodes[id].state = "INACTIVE"
  BY DEF Rested
<1>3. hp[id] = 0 /\ \A x \in NodeIds \ {id} : hp[x] = heap[x]
  BY <1>1 DEF TypeOK
<1>4. PlacesOf(nodes, hp)
  <2>1. IsFiniteSet(InHeap(hp))
    <3>1. InHeap(hp) \in SUBSET InHeap(heap)
      BY <1>3 DEF InHeap
    <3>2. IsFiniteSet(InHeap(heap))
      BY <1>1 DEF Good, Places, PlacesOf
    <3> QED BY <3>1, <3>2, FS_Subset
  <2> HIDE DEF hp
  <2>2. ASSUME NEW x \in NodeIds
        PROVE  /\ hp[x] = IF nodes[x].state \in {"ACTIVE", "FREE"} THEN 1 ELSE 0
               /\ x \in listed[x[1]] <=> nodes[x].state \in {"ACTIVE", "INACTIVE"}
               /\ nodes[x].state # "GONE" => x[2] <= event[x[1]]
    <3>1. /\ heap[x] = IF node[x].state \in {"ACTIVE", "FREE"} THEN 1 ELSE 0
          /\ x \in listed[x[1]] <=> node[x].state \in {"ACTIVE", "INACTIVE"}
          /\ node[x].state # "GONE" => x[2] <= event[x[1]]
      BY <1>1 DEF Good, Places, PlacesOf
    <3>2. CASE x = id
      BY <1>1, <1>2, <1>3, <3>1, <3>2
    <3>3. CASE x # id
      BY <1>2, <1>3, <3>1, <3>3
    <3> QED BY <3>2, <3>3
  <2> QED BY <2>1, <2>2 DEF PlacesOf
<1>5. \A q \in Ports : \A x \in listed[q] : x \in NodeIds /\ x[1] = q
  BY <1>1 DEF TypeOK, Good, Lists
<1>6. ContentsOf(nodes)
  <2> SUFFICES ASSUME NEW q \in Ports, NEW x \in listed[q] PROVE Fields(nodes[x], q)
    BY DEF ContentsOf
  <2>1. x \in NodeIds /\ x[1] = q /\ Fields(node[x], q)
    BY <1>1, <1>5 DEF Good, Contents, ContentsOf
  <2>2. CASE x = id
    BY <1>2, <2>1, <2>2 DEF Fields, SameStream
  <2>3. CASE x # id
    BY <1>2, <2>1, <2>3
  <2> QED BY <2>2, <2>3
<1>7. Active(nodes, p) = Active(node, p) \ {id} /\ id \in Active(node, p)
  BY <1>1, <1>2, <1>5 DEF Active
<1>8. \A q \in Ports \ {p} : Active(nodes, q) = Active(node, q)
  BY <1>2, <1>5 DEF Active
<1>9. IsFiniteSet(Active(node, p)) /\ IsFiniteSet(Active(nodes, p))
  BY <1>1, ActiveFacts DEF Good
<1>10. Cardinality(Active(nodes, p)) = Cardinality(Active(node, p)) - 1
       /\ Cardinality(Active(nodes, p)) \in Nat
  BY <1>7, <1>9, EmptyCount, FS_RemoveElement
<1>11. activeCnt \in [Ports -> Nat] /\ \A q \in Ports : activeCnt[q] = Cardinality(Active(node, q))
  BY <1>1 DEF TypeOK, Good, Counts, CountsOf
<1>12. activeCnt[p] - 1 = Cardinality(Active(nodes, p))
  BY <1>1, <1>10, <1>11
<1>13. CountsOf(nodes, [activeCnt EXCEPT ![p] = activeCnt[p] - 1])
  BY <1>1, <1>8, <1>11, <1>12 DEF CountsOf
<1> QED BY <1>4, <1>6, <1>7, <1>10, <1>12, <1>13

LEMMA EndChainGood ==
  ASSUME DpInv, NEW id \in NodeIds, Bursting(id), NEW nodes, Rested(nodes, id),
         EndChain(id, nodes), UNCHANGED <<threadVars, event, queueVars>>,
         rounds' \in [NodeIds -> Nat]
  PROVE  DpInv'
<1> USE DEF threadVars, queueVars
<1> DEFINE p == id[1]
           cnt == activeCnt[p] - 1
<1>1. /\ failed = Quiet /\ TypeOK /\ Good /\ Quitting /\ loop = "sched" /\ heap[id] = 1
      /\ p \in Ports
  BY BurstingNode
<1>2. /\ PlacesOf(nodes, [heap EXCEPT ![id] = @ - 1]) /\ ContentsOf(nodes) /\ cnt \in Nat
      /\ CountsOf(nodes, [activeCnt EXCEPT ![p] = cnt])
  BY RestedFacts
<1>3. heap' = [heap EXCEPT ![id] = @ - 1] /\ OneLess(p, nodes)
  BY DEF EndChain
<1>4. heap' \in [NodeIds -> Nat]
  BY <1>1, <1>3 DEF TypeOK
<1>5. nodes \in [NodeIds -> NodeRecord]
  BY DEF Rested
<1>6. Lists' /\ Places' /\ Contents' /\ Counts' /\ ReportedOnce' /\ failed' = Quiet /\ StopTypes'
  <2>1. CASE cnt = 0
    <3>1. StopPort(p, FALSE, nodes, 0)
      BY <1>3, <2>1 DEF OneLess
    <3> QED BY <1>1, <1>2, <1>3, <1>5, <2>1, <3>1, StopPortGood DEF Good
  <2>2. CASE cnt # 0
    <3>1. /\ activeCnt' = [activeCnt EXCEPT ![p] = cnt] /\ node' = nodes
          /\ UNCHANGED <<listed, pstate, reports, failed>>
      BY <1>3, <2>2 DEF OneLess
    <3> HIDE DEF cnt
    <3>2. Lists' /\ ReportedOnce' /\ failed' = Quiet
      BY <1>1, <3>1 DEF Good, Lists, ReportedOnce
    <3>3. Places'
      BY <1>2, <1>3, <3>1 DEF Places, PlacesOf, InHeap
    <3>4. Contents'
      BY <1>2, <3>1 DEF Contents, ContentsOf, Fields
    <3>5. Counts'
      <4>1. \A q \in Ports : Active(node, q)' = Active(nodes, q)
        BY <3>1 DEF Active
      <4> QED BY <1>2, <3>1, <4>1 DEF Counts, CountsOf
    <3>6. StopTypes'
      BY <1>1, <1>2, <1>5, <3>1 DEF StopTypes, TypeOK
    <3> QED BY <3>2, <3>3, <3>4, <3>5, <3>6
  <2> QED BY <2>1, <2>2
<1>7. TypeOK'
  BY <1>1, <1>4, <1>6 DEF TypeOK, StopTypes, Quiet
<1>8. Quitting' /\ IdleEmpty' /\ TimersOfRuns'
  BY <1>1, <1>6 DEF Quitting, Good, IdleEmpty, TimersOfRuns
<1> QED BY <1>6, <1>7, <1>8 DEF DpInv, Good

LEMMA RefreshedFields ==
  ASSUME NEW n \in NodeRecord
  PROVE  /\ Refreshed(n) \in NodeRecord /\ SameStream(Refreshed(n), n)
         /\ Refreshed(n).state = "ACTIVE"
         /\ Refreshed(n).single = n.refill /\ Refreshed(n).multi = n.bursts
<1> DEFINE a == [n EXCEPT !.state = "ACTIVE"]
           b == [a EXCEPT !.single = n.refill]
           c == [b EXCEPT !.multi = n.bursts]
<1>1. Refreshed(n) = c
  BY DEF Refreshed
<1>2. n.refill \in Nat /\ n.bursts \in Nat
  BY NodeFields
<1>3. a \in NodeRecord /\ a.state = "ACTIVE" /\ SameStream(a, n)
  BY StateUpdates
<1> HIDE DEF a
<1>4. b \in NodeRecord /\ b.state = a.state /\ SameStream(b, a) /\ b.single = n.refill
  BY <1>2, <1>3, NodeUpdates
<1> HIDE DEF b
<1>5. c \in NodeRecord /\ c.state = b.state /\ SameStream(c, b) /\ c.single = b.single
      /\ c.multi = n.bursts
  BY <1>2, <1>4, NodeUpdates
<1> HIDE DEF c
<1> QED BY <1>1, <1>3, <1>4, <1>5 DEF SameStream

(* The successor takes the place of the stream that has ended, also when a *)
(* stream is its own successor.                                            *)
LEMMA ScheduleGood ==
  ASSUME DpInv, NEW id \in NodeIds, Bursting(id), NEW nodes, Rested(nodes, id),
         NEW next \in listed[id[1]], nodes[next].state = "INACTIVE", Schedule(id, next, nodes),
         UNCHANGED <<threadVars, event, queueVars>>, rounds' \in [NodeIds -> Nat]
  PROVE  DpInv'
<1> USE DEF threadVars, queueVars
<1> DEFINE p == id[1]
<1>1. /\ failed = Quiet /\ TypeOK /\ Good /\ Quitting /\ loop = "sched" /\ heap[id] = 1
      /\ p \in Ports
  BY BurstingNode
<1>2. /\ PlacesOf(nodes, [heap EXCEPT ![id] = @ - 1]) /\ ContentsOf(nodes)
      /\ Active(nodes, p) = Active(node, p) \ {id} /\ id \in Active(node, p)
  BY RestedFacts
<1>3. \A q \in Ports : \A x \in listed[q] : x \in NodeIds /\ x[1] = q
  BY <1>1 DEF TypeOK, Good, Lists
<1>4. next \in NodeIds /\ next[1] = p
  BY <1>1, <1>3
<1>5. /\ node' = [nodes EXCEPT ![next] = Refreshed(@)]
      /\ heap' = [x \in NodeIds |-> heap[x] - (IF x = id THEN 1 ELSE 0)
                                            + (IF x = next THEN 1 ELSE 0)]
      /\ UNCHANGED <<activeCnt, listed, pstate, reports, failed>>
  BY DEF Schedule
<1>6. nodes \in [NodeIds -> NodeRecord] /\ \A x \in NodeIds \ {id} : nodes[x] = node[x]
  BY DEF Rested
<1>7. /\ node' \in [NodeIds -> NodeRecord] /\ node'[next] = Refreshed(nodes[next])
      /\ \A x \in NodeIds \ {next} : node'[x] = nodes[x]
  <2>1. nodes[next] \in NodeRecord
    BY <1>4, <1>6
  <2>2. Refreshed(nodes[next]) \in NodeRecord
    BY <2>1, RefreshedFields
  <2> QED BY <1>4, <1>5, <1>6, <2>2
<1>8. /\ node'[next].state = "ACTIVE" /\ SameStream(node'[next], nodes[next])
      /\ node'[next].single = nodes[next].refill /\ node'[next].multi = nodes[next].bursts
  BY <1>4, <1>6, <1>7, RefreshedFields
<1>9. \A x \in NodeIds : /\ heap[x] = IF node[x].state \in {"ACTIVE", "FREE"} THEN 1 ELSE 0
                         /\ heap[x] \in Nat
  BY <1>1 DEF TypeOK, Good, Places, PlacesOf
<1>10. ASSUME NEW x \in NodeIds
       PROVE  /\ heap'[x] = IF x = next THEN 1 ELSE IF x = id THEN 0 ELSE heap[x]
              /\ heap'[x] \in Nat
  <2>1. heap'[x] = heap[x] - (IF x = id THEN 1 ELSE 0) + (IF x = next THEN 1 ELSE 0)
    BY <1>5
  <2>2. next # id => heap[next] = 0
    <3>1. next # id => node[next].state = "INACTIVE"
      BY <1>4, <1>6
    <3> QED BY <1>4, <1>9, <3>1
  <2> QED BY <1>1, <1>9, <2>1, <2>2
<1>11. heap' \in [NodeIds -> Nat]
  BY <1>5, <1>10
<1>12. TypeOK'
  BY <1>1, <1>5, <1>7, <1>11 DEF TypeOK
<1>13. Lists' /\ ReportedOnce' /\ Quitting' /\ IdleEmpty' /\ TimersOfRuns'
  BY <1>1, <1>5 DEF Good, Lists, ReportedOnce, Quitting, IdleEmpty, TimersOfRuns
<1>14. Places'
  <2>1. IsFiniteSet(InHeap(heap)')
    <3>1. InHeap(heap)' \in SUBSET (InHeap(heap) \cup {next})
      BY <1>1, <1>10 DEF InHeap
    <3>2. IsFiniteSet(InHeap(heap))
      BY <1>1 DEF Good, Places, PlacesOf
    <3>3. IsFiniteSet(InHeap(heap) \cup {next})
      BY <3>2, FS_AddElement
    <3> QED BY <3>1, <3>3, FS_Subset
  <2>2. ASSUME NEW x \in NodeIds
        PROVE  /\ heap'[x] = IF node'[x].state \in {"ACTIVE", "FREE"} THEN 1 ELSE 0
               /\ x \in listed'[x[1]] <=> node'[x].state \in {"ACTIVE", "INACTIVE"}
               /\ node'[x].state # "GONE" => x[2] <= event'[x[1]]
    <3>1. /\ [heap EXCEPT ![id] = @ - 1][x] = IF nodes[x].state \in {"ACTIVE", "FREE"} THEN 1 ELSE 0
          /\ x \in listed[x[1]] <=> nodes[x].state \in {"ACTIVE", "INACTIVE"}
          /\ nodes[x].state # "GONE" => x[2] <= event[x[1]]
      BY <1>2 DEF PlacesOf
    <3>2. x # id => [heap EXCEPT ![id] = @ - 1][x] = heap[x]
      BY <1>1 DEF TypeOK
    <3>3. CASE x = next
      BY <1>5, <1>8, <1>10, <3>1, <3>3
    <3>4. CASE x # next /\ x = id
      <4>1. node'[x] = nodes[x] /\ nodes[x].state = "INACTIVE" /\ heap'[x] = 0
        BY <1>7, <1>10, <3>4 DEF Rested
      <4> QED BY <1>5, <3>1, <4>1
    <3>5. CASE x # next /\ x # id
      <4>1. node'[x] = nodes[x] /\ heap'[x] = heap[x]
        BY <1>7, <1>10, <3>5
      <4> QED BY <1>5, <3>1, <3>2, <3>5, <4>1
    <3> QED BY <3>3, <3>4, <3>5
  <2> QED BY <2>1, <2>2 DEF Places, PlacesOf
<1>15. Contents'
  <2> SUFFICES ASSUME NEW q \in Ports, NEW x \in listed[q] PROVE Fields(node[x], q)'
    BY <1>5 DEF Contents, ContentsOf
  <2>1. x \in NodeIds /\ Fields(nodes[x], q)
    BY <1>2, <1>3 DEF ContentsOf
  <2>2. CASE x = next
    BY <1>5, <1>8, <2>1, <2>2 DEF Fields, SameStream
  <2>3. CASE x # next
    BY <1>5, <1>7, <2>1, <2>3 DEF Fields
  <2> QED BY <2>2, <2>3
<1>16. Counts'
  <2> SUFFICES ASSUME NEW q \in Ports PROVE activeCnt[q] = Cardinality(Active(node, q)')
    BY <1>5 DEF Counts, CountsOf
  <2>1. activeCnt[q] = Cardinality(Active(node, q))
    BY <1>1 DEF Good, Counts, CountsOf
  <2>2. CASE q = p
    <3> DEFINE A == Active(node, p)
    <3>1. Active(node, q)' = (A \ {id}) \cup {next}
      <4>1. \A x \in listed[p] : node'[x].state = "ACTIVE" <=> x = next \/ nodes[x].state = "ACTIVE"
        BY <1>1, <1>3, <1>7, <1>8
      <4>2. Active(node, q)' = Active(nodes, p) \cup {next}
        BY <1>5, <2>2, <4>1 DEF Active
      <4> QED BY <1>2, <4>2
    <3>2. next \notin A \ {id}
      BY <1>2 DEF Active
    <3>3. IsFiniteSet(A) /\ id \in A
      BY <1>1, <1>2, ActiveFacts DEF Good
    <3> HIDE DEF A
    <3>4. IsFiniteSet(A \ {id}) /\ Cardinality(A \ {id}) = Cardinality(A) - 1
      BY <3>3, FS_RemoveElement
    <3>5. Cardinality((A \ {id}) \cup {next}) = Cardinality(A \ {id}) + 1
      BY <3>2, <3>4, FS_AddElement
    <3>6. Cardinality(A) \in Nat
      BY <3>3, EmptyCount
    <3> QED BY <2>1, <2>2, <3>1, <3>4, <3>5, <3>6 DEF A
  <2>3. CASE q # p
    <3>1. \A x \in listed[q] : node'[x] = node[x]
      <4>1. \A x \in listed[q] : x \in NodeIds /\ x # id /\ x # next
        BY <1>3, <1>4, <2>3
      <4> QED BY <1>6, <1>7, <4>1
    <3>2. Active(node, q)' = Active(node, q)
      BY <1>5, <3>1 DEF Active
    <3> QED BY <2>1, <3>2
  <2> QED BY <2>2, <2>3
<1> QED BY <1>1, <1>5, <1>12, <1>13, <1>14, <1>15, <1>16 DEF DpInv, Good

(* Either the chain ends with the stream, or an inactive stream of the     *)
(* same list follows it.                                                   *)
LEMMA LastOutcome ==
  ASSUME DpInv, NEW id \in NodeIds, LastPacket(id)
  PROVE  /\ rounds' \in [NodeIds -> Nat]
         /\ \E nodes :
              /\ Rested(nodes, id)
              /\ \/ EndChain(id, nodes)
                 \/ \E next \in listed[id[1]] :
                      nodes[next].state = "INACTIVE" /\ Schedule(id, next, nodes)
<1> DEFINE nodes == [node EXCEPT ![id].state = "INACTIVE", ![id].single = 0, ![id].multi = 0]
           next == nodes[id].next
           turns == nodes[id].action
           spent == [nodes EXCEPT ![id].action = turns - 1]
<1>1. Bursting(id) /\ SetNextNode(id, nodes) /\ UNCHANGED <<threadVars, event, queueVars>>
  BY DEF LastPacket
<1>2. /\ TypeOK /\ Good /\ Fields(node[id], id[1]) /\ id[1] \in Ports
      /\ Rested(nodes, id) /\ turns \in Nat
      /\ \A k \in Nat : Rested([nodes EXCEPT ![id].action = k], id)
  <2>1. TypeOK /\ Good /\ Fields(node[id], id[1]) /\ id[1] \in Ports
    BY <1>1, BurstingNode
  <2>2. /\ Rested(nodes, id) /\ turns \in Nat
        /\ \A k \in Nat : Rested([nodes EXCEPT ![id].action = k], id)
    BY Zenon, <1>1, RestedAfterLast
  <2> QED BY <2>1, <2>2
<1>3. rounds' \in [NodeIds -> Nat]
  <2> DEFINE more == IF node[id].loops > 0 /\ rounds[id] < MaxRounds THEN rounds[id] + 1 ELSE rounds[id]
  <2>1. rounds' = [rounds EXCEPT ![id] = more]
    BY DEF LastPacket
  <2>2. more \in Nat /\ rounds \in [NodeIds -> Nat]
    <3>1. rounds \in [NodeIds -> Nat]
      BY DEF DpInv, TypeOK
    <3>2. more = rounds[id] \/ more = rounds[id] + 1
      OBVIOUS
    <3>3. rounds[id] \in Nat
      BY <3>1
    <3> HIDE DEF more
    <3> QED BY <3>1, <3>2, <3>3
  <2> HIDE DEF more
  <2> QED BY <2>1, <2>2
<1> HIDE DEF nodes
<1>4. next = NoNode \/ next \in listed[id[1]]
  BY <1>2 DEF Rested, SameStream, Fields
<1>5. turns > 0 => Rested(spent, id)
  <2> DEFINE k == turns - 1
  <2>1. turns > 0 => k \in Nat
    BY <1>2
  <2> HIDE DEF k
  <2>2. turns > 0 => Rested([nodes EXCEPT ![id].action = k], id)
    BY <1>2, <2>1
  <2> QED BY <2>2 DEF k
<1>6. ASSUME next # NoNode
      PROVE  /\ next \in NodeIds /\ nodes[next].state \in {"ACTIVE", "INACTIVE"}
             /\ turns > 0 => spent[next].state = nodes[next].state
  <2>1. next \in NodeIds /\ next[1] = id[1]
    BY <1>2, <1>4, <1>6 DEF TypeOK, Good, Lists
  <2>2. PlacesOf(nodes, [heap EXCEPT ![id] = @ - 1])
    BY <1>1, <1>2, RestedFacts
  <2>3. nodes[next].state \in {"ACTIVE", "INACTIVE"}
    BY <1>4, <1>6, <2>1, <2>2 DEF PlacesOf
  <2>4. turns > 0 => spent[next].state = nodes[next].state
    <3>1. next # id /\ turns > 0 => spent[next] = node[next] /\ nodes[next] = node[next]
      BY <1>2, <1>5, <2>1 DEF Rested
    <3>2. turns > 0 => spent[id].state = "INACTIVE" /\ nodes[id].state = "INACTIVE"
      BY <1>2, <1>5 DEF Rested
    <3> QED BY <3>1, <3>2
  <2> QED BY <2>1, <2>3, <2>4
<1>7. \/ EndChain(id, nodes)
      \/ turns > 0 /\ EndChain(id, spent)
      \/ next # NoNode /\ nodes[next].state = "INACTIVE" /\ Schedule(id, next, nodes)
      \/ next # NoNode /\ nodes[next].state = "INACTIVE" /\ turns > 0 /\ Schedule(id, next, spent)
  <2>1. CASE next = NoNode
    BY <1>1, <2>1 DEF SetNextNode
  <2>2. CASE next # NoNode /\ nodes[next].state = "ACTIVE"
    BY <1>1, <2>2 DEF SetNextNode
  <2>3. CASE next # NoNode /\ nodes[next].state = "INACTIVE"
    <3>1. CASE turns = 0
      BY <1>1, <2>3, <3>1 DEF SetNextNode
    <3>2. CASE turns = 1
      BY <1>1, <2>3, <3>2 DEF SetNextNode
    <3>3. CASE turns > 1
      BY <1>1, <1>2, <2>3, <3>3 DEF SetNextNode
    <3> QED BY <1>2, <3>1, <3>2, <3>3
  <2> QED BY <1>6, <2>1, <2>2, <2>3
<1> HIDE DEF spent, next, turns
<1>8. CASE EndChain(id, nodes)
  BY <1>2, <1>3, <1>8
<1>9. CASE turns > 0 /\ EndChain(id, spent)
  BY <1>3, <1>5, <1>9
<1>10. CASE next # NoNode /\ nodes[next].state = "INACTIVE" /\ Schedule(id, next, nodes)
  BY <1>2, <1>3, <1>4, <1>10
<1>11. CASE next # NoNode /\ nodes[next].state = "INACTIVE" /\ turns > 0 /\ Schedule(id, next, spent)
  BY <1>3, <1>4, <1>5, <1>6, <1>11
<1> QED BY <1>7, <1>8, <1>9, <1>10, <1>11

LEMMA LastStep ==
  ASSUME DpInv, NEW id \in NodeIds, LastPacket(id)
  PROVE  DpInv'
<1>1. Bursting(id) /\ UNCHANGED <<threadVars, event, queueVars>>
  BY DEF LastPacket
<1>2. rounds' \in [NodeIds -> Nat]
  BY LastOutcome
<1>3. PICK nodes : /\ Rested(nodes, id)
                   /\ \/ EndChain(id, nodes)
                      \/ \E next \in listed[id[1]] :
                           nodes[next].state = "INACTIVE" /\ Schedule(id, next, nodes)
  BY LastOutcome
<1>4. CASE EndChain(id, nodes)
  BY <1>1, <1>2, <1>3, <1>4, EndChainGood
<1>5. ASSUME NEW next \in listed[id[1]], nodes[next].state = "INACTIVE", Schedule(id, next, nodes)
      PROVE  DpInv'
  BY <1>1, <1>2, <1>3, <1>5, ScheduleGood
<1> QED BY <1>3, <1>4, <1>5

-----------------------------------------------------------------------------
(***************************************************************************)
(* start_traffic.                                                          *)
(***************************************************************************)
Mine(p, r, prog) == {<<p, r, i>> : i \in DOMAIN prog}
First(p, r, prog) == {<<p, r, i>> : i \in {j \in DOMAIN prog : prog[j].self}}

(* There is a run left for the port. *)
LEMMA NextRun ==
  ASSUME TypeOK, NEW p \in Ports, Cardinality(Started) < MaxRuns
  PROVE  event[p] \in Nat /\ event[p] + 1 \in Runs
<1> DEFINE e == event[p]
           S == 1 .. e
           f == [i \in S |-> <<p, i>>]
<1>1. e \in Nat /\ e <= MaxRuns
  BY RunsType DEF TypeOK
<1>2. IsFiniteSet(S) /\ Cardinality(S) = e
  <2>1. 1 \in Int /\ e \in Int
    BY <1>1
  <2> HIDE DEF e
  <2>2. IsFiniteSet(1 .. e) /\ Cardinality(1 .. e) = IF 1 > e THEN 0 ELSE e - 1 + 1
    BY <2>1, FS_Interval
  <2> QED BY <1>1, <2>2
<1>3. \A i \in S : <<p, i>> \in Started
  BY <1>1, RunsType DEF Started, Runs
<1>4. Started \in SUBSET (Ports \X Runs)
  BY DEF Started
<1>5. IsFiniteSet(Started) /\ Cardinality(Started) \in Nat
  BY <1>4, Finiteness
<1> HIDE DEF S, e
<1>6. f \in [S -> Started] /\ \A i, j \in S : f[i] = f[j] => i = j
  BY <1>3
<1>7. f \in Injection(S, Started)
  BY <1>6 DEF Injection, IsInjective
<1>8. Cardinality(S) <= Cardinality(Started)
  BY <1>5, <1>7, FS_Injection
<1>9. e + 1 \in 1 .. MaxRuns
  BY <1>1, <1>2, <1>5, <1>8, RunsType
<1> QED BY <1>1, <1>9 DEF e, Runs

LEMMA ProgFacts ==
  ASSUME NEW prog \in Programs
  PROVE  /\ Len(prog) \in Nat /\ DOMAIN prog = 1 .. Len(prog) /\ DOMAIN prog \subseteq Slots
         /\ \A i \in DOMAIN prog :
              /\ prog[i] \in Stream
              /\ prog[i].next = 0 \/ prog[i].next \in DOMAIN prog
              /\ ~prog[i].cont => prog[i].pkts > 0 /\ prog[i].bursts > 0
<1>1. prog \in Seq(Stream)
  BY ProgramsAssumption
<1>2. Len(prog) \in Nat /\ DOMAIN prog = 1 .. Len(prog) /\ \A i \in DOMAIN prog : prog[i] \in Stream
  BY <1>1
<1>3. DOMAIN prog \subseteq Slots
  BY DEF Slots
<1>4. \A i \in DOMAIN prog : /\ prog[i].next \in 0 .. Len(prog)
                             /\ ~prog[i].cont => prog[i].pkts > 0 /\ prog[i].bursts > 0
  BY ProgramsAssumption
<1>5. \A i \in DOMAIN prog : prog[i].next = 0 \/ prog[i].next \in DOMAIN prog
  BY <1>2, <1>4
<1> QED BY <1>2, <1>3, <1>4, <1>5

LEMMA MineFacts ==
  ASSUME NEW p \in Ports, NEW r \in Runs, NEW prog \in Programs
  PROVE  /\ Mine(p, r, prog) \subseteq NodeIds /\ IsFiniteSet(Mine(p, r, prog))
         /\ \A id \in Mine(p, r, prog) :
              id[1] = p /\ id[2] = r /\ id[3] \in DOMAIN prog /\ id = <<p, r, id[3]>>
         /\ First(p, r, prog) = {id \in Mine(p, r, prog) : prog[id[3]].self}
         /\ \A i \in DOMAIN prog : <<p, r, i>> \in Mine(p, r, prog)
<1> DEFINE S == DOMAIN prog
           M == Mine(p, r, prog)
           b == [i \in S |-> <<p, r, i>>]
<1>1. S \subseteq Slots /\ S = 1 .. Len(prog) /\ Len(prog) \in Nat
  BY ProgFacts
<1>2. \A id \in M : id[1] = p /\ id[2] = r /\ id[3] \in S /\ id = <<p, r, id[3]>>
  BY DEF Mine
<1>3. M \subseteq NodeIds
  BY <1>1 DEF Mine, NodeIds
<1>4. First(p, r, prog) = {id \in M : prog[id[3]].self}
  BY DEF First, Mine
<1>5. \A i \in S : <<p, r, i>> \in M
  BY DEF Mine
<1>6. IsFiniteSet(S)
  BY <1>1, FS_Interval
<1> HIDE DEF S, M
<1>7. b \in [S -> M] /\ \A i, j \in S : b[i] = b[j] => i = j
  BY <1>5
<1>8. \A e \in M : \E i \in S : b[i] = e
  BY <1>2
<1>9. b \in Bijection(S, M)
  BY <1>7, <1>8 DEF Bijection, Injection, Surjection, IsInjective
<1>10. IsFiniteSet(M)
  BY <1>6, <1>9, FS_Bijection DEF ExistsBijection
<1> QED BY <1>2, <1>3, <1>4, <1>5, <1>10 DEF M, S

LEMMA NewNodeFacts ==
  ASSUME NEW p \in Ports, NEW r \in Runs, NEW prog \in Programs, NEW i \in DOMAIN prog
  PROVE  LET n == NewNode(p, r, prog[i]) IN
           /\ n \in NodeRecord
           /\ n.state = IF prog[i].self THEN "ACTIVE" ELSE "INACTIVE"
           /\ n.next = NoNode \/ n.next \in Mine(p, r, prog)
           /\ ~n.cont => n.refill > 0 /\ n.bursts > 0 /\ n.single > 0 /\ n.multi > 0
           /\ ~n.pause
<1> DEFINE s == prog[i]
           n == NewNode(p, r, s)
           st == IF s.self THEN "ACTIVE" ELSE "INACTIVE"
           nx == IF s.next = 0 THEN NoNode ELSE <<p, r, s.next>>
<1>1. /\ s \in Stream /\ (s.next = 0 \/ s.next \in DOMAIN prog)
      /\ ~s.cont => s.pkts > 0 /\ s.bursts > 0
  BY ProgFacts
<1>2. s.pkts \in Nat /\ s.bursts \in Nat /\ s.action \in Nat /\ s.cont \in BOOLEAN
  BY <1>1 DEF Stream
<1>3. nx = NoNode \/ nx \in Mine(p, r, prog)
  BY <1>1, MineFacts
<1>4. nx \in NodeIds \cup {NoNode}
  BY <1>3, MineFacts
<1>5. st \in {"GONE", "FREE", "INACTIVE", "ACTIVE"}
  OBVIOUS
<1>6. n = [state |-> st, cont |-> s.cont, pause |-> FALSE, single |-> s.pkts, multi |-> s.bursts,
           refill |-> s.pkts, bursts |-> s.bursts, action |-> s.action, loops |-> s.action,
           next |-> nx]
  BY DEF NewNode
<1> HIDE DEF n, st, nx
<1>7. n \in NodeRecord
  BY <1>2, <1>4, <1>5, <1>6 DEF NodeRecord
<1>8. /\ n.state = st /\ n.next = nx /\ n.cont = s.cont /\ n.refill = s.pkts /\ n.bursts = s.bursts
      /\ n.single = s.pkts /\ n.multi = s.bursts
  BY <1>6
<1>9. ~n.pause
  BY <1>6
<1> QED BY <1>1, <1>3, <1>7, <1>8, <1>9 DEF n, st

LEMMA StartStep ==
  ASSUME DpInv, NEW p \in Ports, NEW prog \in Programs, NEW dur \in BOOLEAN,
         StartTraffic(p, prog, dur)
  PROVE  DpInv'
<1> DEFINE r == event[p] + 1
           mine == Mine(p, r, prog)
           first == First(p, r, prog)
<1>1. /\ failed = Quiet /\ pstate[p] = "IDLE" /\ Cardinality(Started) < MaxRuns
      /\ terminated => LateStart
      /\ failed' = IF listed[p] = {} THEN failed ELSE "nodes_in_list"
      /\ event' = [event EXCEPT ![p] = r]
      /\ activeCnt' = [activeCnt EXCEPT ![p] = Cardinality(first)]
      /\ listed' = [listed EXCEPT ![p] = mine]
      /\ node' = [id \in NodeIds |-> IF id \in mine THEN NewNode(p, r, prog[id[3]]) ELSE node[id]]
      /\ heap' = [id \in NodeIds |-> IF id \in first THEN heap[id] + 1 ELSE heap[id]]
      /\ pstate' = [pstate EXCEPT ![p] = "TRANSMITTING"]
      /\ core' = "TRANSMITTING"
      /\ UNCHANGED <<loop, terminated, exits, reports, rounds>>
  BY Zenon DEF StartTraffic, Draining, Mine, First
<1>2. \/ timers' = timers \cup {<<p, r>>} /\ nonActive' = nonActive + 1
      \/ UNCHANGED <<timers, nonActive>>
  BY Zenon DEF StartTraffic, AddPortDuration
<1>3. TypeOK /\ Good /\ Quitting
  BY <1>1 DEF DpInv
<1>4. event[p] \in Nat /\ r \in Runs /\ r \in Nat /\ r <= MaxRuns
  <2>1. event[p] \in Nat /\ r \in Runs
    BY <1>1, <1>3, NextRun
  <2> QED BY <2>1, RunsType DEF Runs
<1>5. /\ mine \subseteq NodeIds /\ IsFiniteSet(mine)
      /\ \A id \in mine : id[1] = p /\ id[2] = r /\ id[3] \in DOMAIN prog
      /\ first = {id \in mine : prog[id[3]].self}
  BY <1>4, MineFacts
<1>6. listed[p] = {} /\ failed' = Quiet
  BY <1>1, <1>3 DEF Good, Lists
<1>7. \A id \in mine :
        /\ node'[id] \in NodeRecord
        /\ node'[id].state = IF id \in first THEN "ACTIVE" ELSE "INACTIVE"
        /\ node'[id].next = NoNode \/ node'[id].next \in mine
        /\ ~node'[id].cont => /\ node'[id].refill > 0 /\ node'[id].bursts > 0
                              /\ node'[id].single > 0 /\ node'[id].multi > 0
        /\ ~node'[id].pause
  <2> SUFFICES ASSUME NEW id \in mine
               PROVE  /\ node'[id] \in NodeRecord
                      /\ node'[id].state = IF id \in first THEN "ACTIVE" ELSE "INACTIVE"
                      /\ node'[id].next = NoNode \/ node'[id].next \in mine
                      /\ ~node'[id].cont => /\ node'[id].refill > 0 /\ node'[id].bursts > 0
                                            /\ node'[id].single > 0 /\ node'[id].multi > 0
                      /\ ~node'[id].pause
    OBVIOUS
  <2>1. id \in NodeIds /\ id[3] \in DOMAIN prog /\ (id \in first <=> prog[id[3]].self)
    BY <1>5
  <2> HIDE DEF mine, first
  <2>2. node'[id] = NewNode(p, r, prog[id[3]])
    BY <1>1, <2>1
  <2> HIDE DEF r
  <2> QED BY <1>4, <2>1, <2>2, NewNodeFacts DEF mine
<1> HIDE DEF mine, first
<1>8. \A id \in NodeIds : id \notin mine => node'[id] = node[id] /\ heap'[id] = heap[id]
  BY <1>1, <1>5
<1>9. \A id \in mine : heap'[id] = IF id \in first THEN 1 ELSE 0
  <2> SUFFICES ASSUME NEW id \in mine PROVE heap'[id] = IF id \in first THEN 1 ELSE 0
    OBVIOUS
  <2>1. id \in NodeIds /\ id[1] = p /\ id[2] = r
    BY <1>5
  <2>2. ~(id[2] <= event[id[1]])
    BY <1>4, <2>1
  <2>3. heap[id] = 0
    BY <1>3, <2>1, <2>2 DEF Good, Places, PlacesOf
  <2>4. heap'[id] = IF id \in first THEN heap[id] + 1 ELSE heap[id]
    BY <1>1, <2>1
  <2> QED BY <2>3, <2>4
<1>10. /\ listed'[p] = mine /\ pstate'[p] = "TRANSMITTING" /\ event'[p] = r
       /\ activeCnt'[p] = Cardinality(first)
       /\ \A q \in Ports \ {p} : /\ listed'[q] = listed[q] /\ pstate'[q] = pstate[q]
                                 /\ event'[q] = event[q] /\ activeCnt'[q] = activeCnt[q]
  BY <1>1, <1>3 DEF TypeOK
<1>11. \A q \in Ports \ {p} : \A x \in listed[q] : x \in NodeIds /\ x \notin mine
  BY <1>3, <1>5 DEF TypeOK, Good, Lists
<1>12. first \in SUBSET mine /\ IsFiniteSet(first) /\ Cardinality(first) \in Nat
  <2>1. first \in SUBSET mine
    BY <1>5
  <2>2. IsFiniteSet(first)
    BY <1>5, <2>1, FS_Subset
  <2> QED BY <2>1, <2>2, EmptyCount
<1>13. timers' \in SUBSET (Ports \X Runs) /\ nonActive' = Cardinality(timers') /\ nonActive' \in Nat
  <2>1. timers \in SUBSET (Ports \X Runs) /\ nonActive = Cardinality(timers)
    BY <1>3 DEF TypeOK, Quitting
  <2>2. IsFiniteSet(timers) /\ Cardinality(timers) \in Nat
    BY <2>1, Finiteness
  <2>3. <<p, r>> \notin timers
    BY <1>3, <1>4 DEF Good, TimersOfRuns
  <2>4. Cardinality(timers \cup {<<p, r>>}) = Cardinality(timers) + 1
    BY <2>2, <2>3, FS_AddElement
  <2>5. timers \cup {<<p, r>>} \in SUBSET (Ports \X Runs)
    BY <1>4, <2>1
  <2> DEFINE T == timers \cup {<<p, r>>}
  <2>6. Cardinality(T) = Cardinality(timers) + 1 /\ T \in SUBSET (Ports \X Runs)
    BY <2>4, <2>5
  <2>7. (timers' = T /\ nonActive' = nonActive + 1) \/ (timers' = timers /\ nonActive' = nonActive)
    BY <1>2
  <2> HIDE DEF T
  <2>8. CASE timers' = T /\ nonActive' = nonActive + 1
    BY <2>1, <2>2, <2>6, <2>8
  <2>9. CASE timers' = timers /\ nonActive' = nonActive
    BY <2>1, <2>2, <2>9
  <2> QED BY <2>7, <2>8, <2>9
<1>14. TypeOK'
  <2>1. node' \in [NodeIds -> NodeRecord]
    <3>1. \A id \in NodeIds : node'[id] \in NodeRecord
      BY <1>3, <1>7, <1>8 DEF TypeOK
    <3> QED BY <1>1, <3>1
  <2>2. heap' \in [NodeIds -> Nat]
    <3>1. \A id \in NodeIds : heap'[id] \in Nat
      BY <1>3, <1>8, <1>9 DEF TypeOK
    <3> QED BY <1>1, <3>1
  <2>3. /\ event' \in [Ports -> 0 .. MaxRuns] /\ activeCnt' \in [Ports -> Nat]
        /\ listed' \in [Ports -> SUBSET NodeIds]
        /\ pstate' \in [Ports -> {"IDLE", "TRANSMITTING", "PAUSE"}]
    <3>1. r \in 0 .. MaxRuns
      BY <1>4, RunsType
    <3> HIDE DEF r
    <3>2. event' \in [Ports -> 0 .. MaxRuns]
      BY <1>1, <1>3, <3>1 DEF TypeOK
    <3>3. activeCnt' \in [Ports -> Nat]
      BY <1>1, <1>3, <1>12 DEF TypeOK
    <3>4. listed' \in [Ports -> SUBSET NodeIds]
      BY <1>1, <1>3, <1>5 DEF TypeOK
    <3>5. pstate' \in [Ports -> {"IDLE", "TRANSMITTING", "PAUSE"}]
      BY <1>1, <1>3 DEF TypeOK
    <3> QED BY <3>2, <3>3, <3>4, <3>5
  <2> QED BY <1>1, <1>3, <1>6, <1>13, <2>1, <2>2, <2>3 DEF TypeOK
<1>15. Quitting'
  BY <1>1, <1>3, <1>6, <1>13 DEF Quitting
<1>16. Lists'
  <2> SUFFICES ASSUME NEW q \in Ports
               PROVE  /\ IsFiniteSet(listed'[q])
                      /\ \A id \in listed'[q] : id[1] = q /\ id[2] = event'[q]
                      /\ pstate'[q] = "IDLE" => listed'[q] = {}
                      /\ pstate'[q] # "IDLE" => event'[q] > 0
    BY DEF Lists
  <2>1. CASE q = p
    BY <1>4, <1>5, <1>10, <2>1
  <2>2. CASE q # p
    BY <1>3, <1>10, <2>2 DEF Good, Lists
  <2> QED BY <2>1, <2>2
<1>17. Places'
  <2>1. IsFiniteSet(InHeap(heap)')
    <3>1. InHeap(heap)' \in SUBSET (InHeap(heap) \cup mine)
      BY <1>8 DEF InHeap
    <3>2. IsFiniteSet(InHeap(heap))
      BY <1>3 DEF Good, Places, PlacesOf
    <3>3. IsFiniteSet(InHeap(heap) \cup mine)
      BY <1>5, <3>2, FS_Union
    <3> QED BY <3>1, <3>3, FS_Subset
  <2>2. ASSUME NEW x \in NodeIds
        PROVE  /\ heap'[x] = IF node'[x].state \in {"ACTIVE", "FREE"} THEN 1 ELSE 0
               /\ x \in listed'[x[1]] <=> node'[x].state \in {"ACTIVE", "INACTIVE"}
               /\ node'[x].state # "GONE" => x[2] <= event'[x[1]]
    <3>1. /\ heap[x] = IF node[x].state \in {"ACTIVE", "FREE"} THEN 1 ELSE 0
          /\ x \in listed[x[1]] <=> node[x].state \in {"ACTIVE", "INACTIVE"}
          /\ node[x].state # "GONE" => x[2] <= event[x[1]]
      BY <1>3 DEF Good, Places, PlacesOf
    <3>2. x[1] \in Ports /\ x[2] \in Nat
      BY IdFacts
    <3>3. CASE x \in mine
      <4>1. x[1] = p /\ x[2] = r /\ x \in listed'[x[1]] /\ x[2] <= event'[x[1]]
        BY <1>4, <1>5, <1>10, <3>3
      <4> QED BY <1>7, <1>9, <3>3, <4>1
    <3>4. CASE x \notin mine
      <4>1. node'[x] = node[x] /\ heap'[x] = heap[x]
        BY <1>8, <3>4
      <4>2. x \in listed'[x[1]] <=> x \in listed[x[1]]
        BY <1>6, <1>10, <3>2, <3>4
      <4>3. x[2] <= event[x[1]] => x[2] <= event'[x[1]]
        BY <1>4, <1>10, <3>2
      <4> QED BY <3>1, <4>1, <4>2, <4>3
    <3> QED BY <3>3, <3>4
  <2> QED BY <2>1, <2>2 DEF Places, PlacesOf
<1>18. Contents'
  <2> SUFFICES ASSUME NEW q \in Ports, NEW x \in listed'[q] PROVE Fields(node[x], q)'
    BY DEF Contents, ContentsOf
  <2>1. CASE q = p
    BY <1>7, <1>10, <2>1 DEF Fields
  <2>2. CASE q # p
    <3>1. x \in listed[q] /\ listed'[q] = listed[q] /\ pstate'[q] = pstate[q] /\ node'[x] = node[x]
      BY <1>8, <1>10, <1>11, <2>2
    <3>2. Fields(node[x], q)
      BY <1>3, <3>1 DEF Good, Contents, ContentsOf
    <3> QED BY <3>1, <3>2 DEF Fields
  <2> QED BY <2>1, <2>2
<1>19. Counts'
  <2> SUFFICES ASSUME NEW q \in Ports PROVE activeCnt'[q] = Cardinality(Active(node, q)')
    BY DEF Counts, CountsOf
  <2>1. CASE q = p
    <3>1. Active(node, q)' = first
      BY <1>7, <1>10, <1>12, <2>1 DEF Active
    <3> QED BY <1>10, <2>1, <3>1
  <2>2. CASE q # p
    <3>1. Active(node, q)' = Active(node, q)
      BY <1>8, <1>10, <1>11, <2>2 DEF Active
    <3> QED BY <1>3, <1>10, <2>2, <3>1 DEF Good, Counts, CountsOf
  <2> QED BY <2>1, <2>2
<1>20. IdleEmpty' /\ TimersOfRuns'
  <2>1. IdleEmpty'
    BY <1>1 DEF IdleEmpty
  <2>2. TimersOfRuns'
    <3> SUFFICES ASSUME NEW t \in timers' PROVE t[2] <= event'[t[1]]
      BY DEF TimersOfRuns
    <3>1. t[1] \in Ports /\ t[2] \in Nat
      BY <1>13, RunsType
    <3>2. CASE t = <<p, r>>
      BY <1>4, <1>10, <3>2
    <3>3. CASE t \in timers
      <4>1. t[2] <= event[t[1]]
        BY <1>3, <3>3 DEF Good, TimersOfRuns
      <4> QED BY <1>4, <1>10, <3>1, <4>1
    <3> QED BY <1>2, <3>2, <3>3
  <2> QED BY <2>1, <2>2
<1>21. ReportedOnce'
  <2> SUFFICES ASSUME NEW q \in Ports, NEW s \in Runs
               PROVE  reports'[q][s] = IF s < event'[q] \/ (s = event'[q] /\ pstate'[q] = "IDLE")
                                       THEN 1 ELSE 0
    BY DEF ReportedOnce
  <2>1. reports[q][s] = IF s < event[q] \/ (s = event[q] /\ pstate[q] = "IDLE") THEN 1 ELSE 0
    BY <1>1, <1>3 DEF Good, ReportedOnce
  <2>2. s \in Nat /\ event[q] \in Nat
    BY <1>3, RunsType DEF TypeOK
  <2>3. CASE q = p
    BY <1>1, <1>4, <1>10, <2>1, <2>2, <2>3
  <2>4. CASE q # p
    BY <1>1, <1>10, <2>1, <2>4
  <2> QED BY <2>3, <2>4
<1> QED BY <1>14, <1>15, <1>16, <1>17, <1>18, <1>19, <1>20, <1>21 DEF DpInv, Good

-----------------------------------------------------------------------------
(***************************************************************************)
(* The results.                                                            *)
(***************************************************************************)
LEMMA NextInv == DpInv /\ [Next]_vars => DpInv'
<1> SUFFICES ASSUME DpInv, [Next]_vars PROVE DpInv'
  OBVIOUS
<1>1. ASSUME NEW p \in Ports, Message(p) PROVE DpInv'
  BY <1>1, StartStep, StopStep, PauseStep DEF Message
<1>2. CASE QuitMainLoop \/ LeaveIdleLoop \/ FlowSync \/ UNCHANGED vars
  BY <1>2, ThreadStep
<1>3. CASE SyncDone \/ ExitSched
  BY <1>3, SyncStep
<1>4. ASSUME NEW p \in Ports, NEW r \in Runs, DurationElapses(p, r) PROVE DpInv'
  BY <1>4, DurationStep
<1>5. ASSUME NEW id \in NodeIds, NodeStep(id) PROVE DpInv'
  BY <1>5, FreeStep, BurstStep, LastStep DEF NodeStep
<1> QED BY <1>1, <1>2, <1>3, <1>4, <1>5 DEF Next

(* The inductive invariant of the core: as long as no assert has failed,   *)
(* lists, heap, counters, pause flags and timers agree (start_traffic,     *)
(* stop_traffic, pause_traffic, set_stateless_next_node, remove_all), and  *)
(* the only assert that can fail is the one of remove_all, after a start   *)
(* that follows the quit.                                                  *)
THEOREM SchedulerInvariant == Spec => []DpInv
<1>1. Init => DpInv
  BY InitInv
<1>2. DpInv /\ [Next]_vars => DpInv'
  BY NextInv
<1> QED BY <1>1, <1>2, PTL DEF Spec

LEMMA InvAccounts == DpInv => NodesAccounted
<1> SUFFICES ASSUME DpInv PROVE NodesAccounted
  OBVIOUS
<1>1. TypeOK
  BY DEF DpInv
<1>2. CountIsActive
  BY DEF DpInv, Good, Counts, CountsOf, CountIsActive
<1>3. HeapMatchesNodes
  <2> SUFFICES ASSUME failed = Quiet, NEW id \in NodeIds
               PROVE  /\ heap[id] = IF node[id].state \in {"ACTIVE", "FREE"} THEN 1 ELSE 0
                      /\ (\E p \in Ports : id \in listed[p])
                           <=> node[id].state \in {"ACTIVE", "INACTIVE"}
    BY DEF HeapMatchesNodes
  <2>1. Lists /\ Places
    BY DEF DpInv, Good
  <2>2. \A p \in Ports : id \in listed[p] => id[1] = p
    BY <2>1 DEF Lists
  <2>3. /\ heap[id] = IF node[id].state \in {"ACTIVE", "FREE"} THEN 1 ELSE 0
        /\ id \in listed[id[1]] <=> node[id].state \in {"ACTIVE", "INACTIVE"}
    BY <2>1 DEF Places, PlacesOf
  <2>4. id[1] \in Ports
    BY IdFacts
  <2> QED BY <2>2, <2>3, <2>4
<1> QED BY <1>1, <1>2, <1>3 DEF NodesAccounted

(* For any streams the compiler may produce and any order of messages,     *)
(* durations and node events: m_active_streams counts the streams under    *)
(* way, and a node is in the heap exactly once while it is active or       *)
(* marked, and not otherwise (stop_traffic, add_stream, remove_all).       *)
THEOREM NodesStayAccounted == Spec => []NodesAccounted
<1>1. DpInv => NodesAccounted
  BY InvAccounts
<1> QED BY <1>1, SchedulerInvariant, PTL

(* stop_traffic reports the end of every run to the control plane exactly  *)
(* once, whichever of stop, duration and last packet comes first.          *)
THEOREM RunsReportedOnce == Spec => []ReportedOnce
<1>1. DpInv => ReportedOnce
  BY DEF DpInv, Good, ReportedOnce
<1> QED BY <1>1, SchedulerInvariant, PTL

LEMMA InvIdle == DpInv => IdleLoopHasNothing
<1> SUFFICES ASSUME DpInv, loop = "idle", core = "IDLE", failed = Quiet
             PROVE  /\ QueueSize = 0 /\ nonActive = 0
                    /\ \A p \in Ports : Active(node, p) = {}
  BY DEF IdleLoopHasNothing
<1>1. TypeOK /\ Good /\ Quitting
  BY DEF DpInv
<1>2. InHeap(heap) = {} /\ timers = {} /\ exits = 0
  BY <1>1 DEF Good, IdleEmpty
<1>3. Cardinality(timers) = 0
  BY <1>2, EmptyCount
<1>4. Cardinality(Queued) = 0
  BY <1>1, <1>2, QueueEmpty DEF Good
<1>5. ASSUME NEW p \in Ports PROVE Active(node, p) = {}
  <2> SUFFICES ASSUME NEW id \in Active(node, p) PROVE FALSE
    OBVIOUS
  <2>1. id \in NodeIds /\ node[id].state = "ACTIVE"
    BY <1>1 DEF Active, TypeOK
  <2>2. heap[id] = 1
    BY <1>1, <2>1 DEF Good, Places, PlacesOf
  <2> QED BY <1>2, <2>1, <2>2 DEF InHeap
<1> QED BY <1>1, <1>2, <1>3, <1>4, <1>5 DEF QueueSize, Quitting

(* A core whose thread waits in the idle loop has freed everything that    *)
(* was in its heap: no stream, no duration command and no count is left    *)
(* behind when the scheduler returns (idle_state_loop, remove_all).        *)
THEOREM IdleLoopIsEmpty == Spec => []IdleLoopHasNothing
<1>1. DpInv => IdleLoopHasNothing
  BY InvIdle
<1> QED BY <1>1, SchedulerInvariant, PTL

(* If the master sends no start behind its quit, no assert of the core     *)
(* fails: stop_traffic finds its count at zero, pause and resume their     *)
(* nodes as expected, set_stateless_next_node no freed successor, and      *)
(* remove_all nothing but stopped streams.                                 *)
THEOREM AssertsNeverFail ==
  ASSUME LateStart = FALSE
  PROVE  Spec => []AssertsHold
<1>1. DpInv => AssertsHold
  BY DEF DpInv, Quitting, AssertsHold
<1> QED BY <1>1, SchedulerInvariant, PTL

-----------------------------------------------------------------------------
(***************************************************************************)
(* Why a run ends.                                                         *)
(***************************************************************************)
EndsForReason(p) ==
  loop = "sched" /\ pstate[p] # "IDLE" /\ pstate'[p] = "IDLE" =>
    <<p, event[p]>> \in timers \ timers' \/ LastOneDone(p)

LEMMA DurationReason ==
  ASSUME DpInv, NEW p \in Ports, NEW q \in Ports, NEW r \in Runs, DurationElapses(q, r)
  PROVE  EndsForReason(p)
<1>1. /\ <<q, r>> \in timers /\ timers' = timers \ {<<q, r>>}
      /\ StopPort(q, r # event[q], node, activeCnt[q])
  BY DEF DurationElapses
<1>2. CASE pstate[q] = "IDLE" \/ r # event[q]
  BY Zenon, <1>1, <1>2 DEF StopPort, EndsForReason
<1>3. CASE pstate[q] # "IDLE" /\ r = event[q]
  <2>1. pstate' = [pstate EXCEPT ![q] = "IDLE"]
    BY Zenon, <1>1, <1>3 DEF StopPort
  <2>2. pstate \in [Ports -> {"IDLE", "TRANSMITTING", "PAUSE"}]
    BY DEF DpInv, TypeOK
  <2>3. p # q => pstate'[p] = pstate[p]
    BY <2>1, <2>2
  <2>4. p = q => <<p, event[p]>> \in timers \ timers'
    BY <1>1, <1>3
  <2> QED BY <2>3, <2>4 DEF EndsForReason
<1> QED BY <1>2, <1>3

LEMMA LastReason ==
  ASSUME DpInv, NEW p \in Ports, NEW id \in NodeIds, LastPacket(id)
  PROVE  EndsForReason(p)
<1>1. Bursting(id)
  BY DEF LastPacket
<1>2. PICK nodes : /\ Rested(nodes, id)
                   /\ \/ EndChain(id, nodes)
                      \/ \E next \in listed[id[1]] :
                           nodes[next].state = "INACTIVE" /\ Schedule(id, next, nodes)
  BY LastOutcome
<1>3. /\ TypeOK /\ Good /\ heap[id] = 1 /\ id[1] \in Ports /\ id \in listed[id[1]]
  BY <1>1, BurstingNode
<1>4. CASE UNCHANGED pstate
  BY <1>4 DEF EndsForReason
<1>5. CASE EndChain(id, nodes) /\ activeCnt[id[1]] - 1 = 0
  <2> DEFINE q == id[1]
  <2>1. heap' = [heap EXCEPT ![id] = @ - 1] /\ StopPort(q, FALSE, nodes, 0)
    BY Zenon, <1>5 DEF EndChain, OneLess
  <2>2. heap'[id] < heap[id]
    <3>1. heap'[id] = heap[id] - 1
      BY <1>3, <2>1 DEF TypeOK
    <3> QED BY <1>3, <3>1
  <2>3. pstate' = pstate \/ pstate' = [pstate EXCEPT ![q] = "IDLE"]
    BY Zenon, <2>1 DEF StopPort
  <2>4. pstate \in [Ports -> {"IDLE", "TRANSMITTING", "PAUSE"}]
    BY <1>3 DEF TypeOK
  <2>5. p # q => pstate'[p] = pstate[p]
    BY <2>3, <2>4
  <2>6. Active(node, q) = {id}
    <3>1. id \in Active(node, q) /\ Active(nodes, q) = Active(node, q) \ {id}
          /\ CountsOf(nodes, [activeCnt EXCEPT ![q] = activeCnt[q] - 1])
      BY <1>1, <1>2, RestedFacts
    <3>2. Cardinality(Active(nodes, q)) = 0
      <4>1. [activeCnt EXCEPT ![q] = activeCnt[q] - 1][q] = 0
        BY <1>3, <1>5 DEF TypeOK
      <4> QED BY <1>3, <3>1, <4>1 DEF CountsOf
    <3>3. Active(nodes, q) = {}
      BY <1>3, <3>2, ActiveFacts DEF Good
    <3> QED BY <3>1, <3>3
  <2>7. LastOneDone(q)
    BY <1>3, <2>2, <2>6 DEF LastOneDone
  <2> QED BY <2>5, <2>7 DEF EndsForReason
<1>6. CASE EndChain(id, nodes) /\ activeCnt[id[1]] - 1 # 0
  <2>1. UNCHANGED pstate
    BY Zenon, <1>6 DEF EndChain, OneLess
  <2> QED BY <1>4, <2>1
<1>7. ASSUME NEW next, Schedule(id, next, nodes) PROVE UNCHANGED pstate
  BY <1>7 DEF Schedule
<1> QED BY <1>2, <1>4, <1>5, <1>6, <1>7

LEMMA StepReason ==
  ASSUME DpInv, [Next]_vars, NEW p \in Ports
  PROVE  EndsForReason(p)
<1> USE DEF portVars
<1>1. ASSUME NEW q \in Ports, Message(q) PROVE EndsForReason(p)
  <2>1. Draining
    BY Zenon, <1>1 DEF Message, StartTraffic, StopTraffic, PauseTraffic, ResumeTraffic
  <2> QED BY <2>1 DEF Draining, EndsForReason
<1>2. CASE QuitMainLoop \/ LeaveIdleLoop \/ FlowSync \/ SyncDone \/ ExitSched \/ UNCHANGED vars
  <2>1. UNCHANGED pstate
    BY Zenon, <1>2 DEF QuitMainLoop, LeaveIdleLoop, FlowSync, SyncDone, ExitSched, vars
  <2> QED BY <2>1 DEF EndsForReason
<1>3. ASSUME NEW q \in Ports, NEW r \in Runs, DurationElapses(q, r) PROVE EndsForReason(p)
  BY <1>3, DurationReason
<1>4. ASSUME NEW id \in NodeIds, NodeStep(id) PROVE EndsForReason(p)
  <2>1. CASE FreeNode(id) \/ SendPacket(id) \/ NextBurst(id)
    <3>1. UNCHANGED pstate
      BY Zenon, <2>1 DEF FreeNode, SendPacket, NextBurst
    <3> QED BY <3>1 DEF EndsForReason
  <2>2. CASE LastPacket(id)
    BY <2>2, LastReason
  <2> QED BY <1>4, <2>1, <2>2 DEF NodeStep
<1> QED BY <1>1, <1>2, <1>3, <1>4 DEF Next

(* A run that no message ends is over because its own duration command     *)
(* came up (stop_traffic compares the event id) or because the last of its *)
(* active streams is done (update_number_of_active_streams): a stale       *)
(* duration command or a stream of another port never ends it.             *)
THEOREM RunsEndForTheirReason == Spec => RunsEndForAReason
<1>1. DpInv /\ [Next]_vars =>
        [\A p \in Ports :
           loop = "sched" /\ pstate[p] # "IDLE" /\ pstate'[p] = "IDLE" =>
             <<p, event[p]>> \in timers \ timers' \/ LastOneDone(p)]_vars
  BY StepReason DEF EndsForReason
<1> QED BY <1>1, SchedulerInvariant, PTL DEF Spec, RunsEndForAReason

-----------------------------------------------------------------------------
(***************************************************************************)
(* Counted loops.                                                          *)
(***************************************************************************)
(* The loops of action_count: a program with a counted stream starts one   *)
(* chain, which only that stream can end.  This is what load_pcap builds   *)
(* for a loop count.                                                       *)
ClosedLoop(prog) ==
  /\ \A i, j \in DOMAIN prog : prog[i].self /\ prog[j].self => i = j
  /\ \A i, j \in DOMAIN prog : prog[i].action > 0 /\ prog[j].action > 0 => i = j
  /\ \A i \in DOMAIN prog : prog[i].next # 0 /\ prog[i].action <= MaxRounds

LoopsAreClosed ==
  \A prog \in Programs : (\E i \in DOMAIN prog : prog[i].action > 0) => ClosedLoop(prog)

Looping(p) == \E x \in listed[p] : node[x].loops > 0

(* The rounds made and the turns left add up to the loop count.            *)
Turns(n, made) ==
  /\ n.next # NoNode
  /\ n.loops > 0 => n.action > 0 /\ made + n.action = n.loops /\ n.loops <= MaxRounds
  /\ n.loops = 0 => n.action = 0

LoopOK(p) ==
  Looping(p) =>
    /\ \A x, y \in Active(node, p) : x = y
    /\ \A x, y \in listed[p] : node[x].loops > 0 /\ node[y].loops > 0 => x = y
    /\ \A x \in listed[p] : Turns(node[x], rounds[x])

LoopInv ==
  /\ \A p \in Ports : LoopOK(p)
  /\ \A id \in NodeIds : node[id].loops > 0 => id \in listed[id[1]]
  /\ \A id \in NodeIds : id[2] > event[id[1]] => rounds[id] = 0

SameTurn(m, n) == m.loops = n.loops /\ m.action = n.action /\ m.next = n.next /\ m.state = n.state

LEMMA LoopFrame ==
  ASSUME NEW p \in Ports, LoopOK(p),
         \/ listed'[p] = {}
         \/ /\ listed'[p] = listed[p]
            /\ \A x \in listed[p] : rounds'[x] = rounds[x] /\ SameTurn(node'[x], node[x])
  PROVE  LoopOK(p)'
<1>1. CASE listed'[p] = {}
  BY <1>1 DEF LoopOK, Looping
<1>2. CASE /\ listed'[p] = listed[p]
           /\ \A x \in listed[p] : rounds'[x] = rounds[x] /\ SameTurn(node'[x], node[x])
  <2>1. Active(node, p)' = Active(node, p)
    BY <1>2 DEF Active, SameTurn
  <2>2. Looping(p)' = Looping(p)
    BY <1>2 DEF Looping, SameTurn
  <2>3. \A x \in listed[p] : Turns(node[x], rounds[x]) => Turns(node'[x], rounds'[x])
    BY <1>2 DEF Turns, SameTurn
  <2>4. \A x \in listed[p] : node'[x].loops = node[x].loops
    BY <1>2 DEF SameTurn
  <2> SUFFICES ASSUME Looping(p)
               PROVE  /\ \A x, y \in Active(node, p)' : x = y
                      /\ \A x, y \in listed'[p] :
                           node'[x].loops > 0 /\ node'[y].loops > 0 => x = y
                      /\ \A x \in listed'[p] : Turns(node'[x], rounds'[x])
    BY <2>2 DEF LoopOK, Turns
  <2> QED BY <1>2, <2>1, <2>3, <2>4 DEF LoopOK
<1> QED BY <1>1, <1>2

(* A step that leaves the turns of every stream alone, or frees it with    *)
(* its port.                                                               *)
LEMMA LoopKept ==
  ASSUME LoopInv, rounds' = rounds, event' = event,
         \A p \in Ports : listed'[p] \in {{}, listed[p]},
         \A id \in NodeIds : \/ SameTurn(node'[id], node[id]) /\ listed'[id[1]] = listed[id[1]]
                             \/ node'[id].loops = 0 /\ id \notin listed'[id[1]],
         TypeOK, Lists
  PROVE  LoopInv'
<1>1. \A id \in NodeIds : node'[id].loops > 0 => id \in listed'[id[1]]
  BY DEF LoopInv, SameTurn
<1>2. ASSUME NEW p \in Ports PROVE LoopOK(p)'
  <2>1. \A x \in listed[p] : x \in NodeIds /\ x[1] = p
    BY DEF TypeOK, Lists
  <2>2. CASE listed'[p] = {}
    BY <2>2, LoopFrame DEF LoopInv
  <2>3. CASE listed'[p] = listed[p]
    <3>1. \A x \in listed[p] : rounds'[x] = rounds[x] /\ SameTurn(node'[x], node[x])
      BY <2>1, <2>3
    <3> QED BY <2>3, <3>1, LoopFrame DEF LoopInv
  <2> QED BY <2>2, <2>3
<1> QED BY <1>1, <1>2 DEF LoopInv

LEMMA StopLoops ==
  ASSUME DpInv, failed = Quiet, LoopInv, NEW p \in Ports, NEW old \in BOOLEAN,
         StopPort(p, old, node, activeCnt[p]), rounds' = rounds, event' = event
  PROVE  LoopInv'
<1>1. TypeOK /\ Lists
  BY DEF DpInv, Good
<1>2. CASE pstate[p] = "IDLE" \/ old
  <2>1. node' = node /\ listed' = listed
    BY <1>2, Zenon DEF StopPort
  <2> QED BY <1>1, <2>1, LoopKept DEF SameTurn
<1>3. CASE ~(pstate[p] = "IDLE" \/ old)
  <2>1. /\ node' = [id \in NodeIds |->
                     IF id \notin listed[p] THEN node[id]
                     ELSE IF node[id].state = "ACTIVE" THEN Marked ELSE Gone]
        /\ listed' = [listed EXCEPT ![p] = {}]
    BY <1>3, Zenon DEF StopPort
  <2>2. Marked.loops = 0 /\ Gone.loops = 0
    BY DEF Marked, Gone
  <2>3. listed'[p] = {} /\ \A q \in Ports \ {p} : listed'[q] = listed[q]
    BY <1>1, <2>1 DEF TypeOK
  <2>4. \A id \in listed[p] : id[1] = p
    BY <1>1 DEF Lists
  <2>5. ASSUME NEW id \in NodeIds
        PROVE  \/ SameTurn(node'[id], node[id]) /\ listed'[id[1]] = listed[id[1]]
               \/ node'[id].loops = 0 /\ id \notin listed'[id[1]]
    <3>1. node'[id] = IF id \notin listed[p] THEN node[id]
                      ELSE IF node[id].state = "ACTIVE" THEN Marked ELSE Gone
      BY <2>1
    <3>2. id[1] \in Ports /\ (node[id].loops > 0 => id \in listed[id[1]]) /\ node[id].loops \in Nat
      BY <1>1, IdFacts, NodeFields DEF LoopInv, TypeOK
    <3>3. CASE id \in listed[p]
      BY <2>2, <2>3, <2>4, <3>1, <3>3
    <3>4. CASE id \notin listed[p]
      <4>1. node'[id] = node[id]
        BY <3>1, <3>4
      <4>2. CASE id[1] = p
        BY <2>3, <3>2, <3>4, <4>1, <4>2
      <4>3. CASE id[1] # p
        BY <2>3, <3>2, <4>1, <4>3 DEF SameTurn
      <4> QED BY <4>2, <4>3
    <3> QED BY <3>3, <3>4
  <2>6. \A q \in Ports : listed'[q] \in {{}, listed[q]}
    BY <2>3
  <2> QED BY <1>1, <2>5, <2>6, LoopKept
<1> QED BY <1>2, <1>3

LEMMA PauseLoops ==
  ASSUME DpInv, failed = Quiet, LoopInv, NEW p \in Ports, NEW on \in BOOLEAN,
         SetPause(p, on), listed' = listed, rounds' = rounds, event' = event
  PROVE  LoopInv'
<1>1. TypeOK /\ Lists
  BY DEF DpInv, Good
<1>2. ASSUME NEW id \in NodeIds PROVE SameTurn(node'[id], node[id])
  <2>1. node'[id] = IF id \in listed[p] THEN [node[id] EXCEPT !.pause = on] ELSE node[id]
    BY DEF SetPause
  <2>2. node[id] \in NodeRecord
    BY <1>1 DEF TypeOK
  <2>3. \A n \in NodeRecord : SameTurn([n EXCEPT !.pause = on], n) /\ SameTurn(n, n)
    BY DEF NodeRecord, SameTurn
  <2> QED BY <2>1, <2>2, <2>3
<1> QED BY <1>1, <1>2, LoopKept

LEMMA LeaveLoops ==
  ASSUME DpInv, failed = Quiet, LoopInv, LeaveScheduler, failed' = Quiet,
         listed' = listed, rounds' = rounds, event' = event
  PROVE  LoopInv'
<1>1. TypeOK /\ Lists /\ Places
  BY DEF DpInv, Good
<1>2. CASE core = "TERMINATE"
  <2>1. node' = node
    BY <1>2, Zenon DEF LeaveScheduler
  <2> QED BY <1>1, <2>1, LoopKept DEF SameTurn
<1>3. CASE core # "TERMINATE"
  <2>1. /\ node' = [id \in NodeIds |-> IF heap[id] > 0 THEN Gone ELSE node[id]]
        /\ failed' = IF \A id \in NodeIds : heap[id] > 0 => node[id].state = "FREE"
                     THEN failed ELSE "remove_all"
    BY <1>3, Zenon DEF LeaveScheduler
  <2>2. \A id \in NodeIds : heap[id] > 0 => node[id].state = "FREE"
    BY <2>1 DEF Quiet
  <2>3. ASSUME NEW id \in NodeIds
        PROVE  \/ SameTurn(node'[id], node[id])
               \/ node'[id].loops = 0 /\ id \notin listed[id[1]]
    <3>1. CASE heap[id] > 0
      <4>1. node'[id] = Gone /\ id \notin listed[id[1]]
        BY <1>1, <2>1, <2>2, <3>1 DEF Places, PlacesOf
      <4> QED BY <4>1 DEF Gone
    <3>2. CASE ~(heap[id] > 0)
      BY <2>1, <3>2 DEF SameTurn
    <3> QED BY <3>1, <3>2
  <2> QED BY <1>1, <2>3, LoopKept
<1> QED BY <1>2, <1>3

LEMMA FreeLoops ==
  ASSUME DpInv, LoopInv, NEW id \in NodeIds, FreeNode(id)
  PROVE  LoopInv'
<1>1. /\ failed = Quiet /\ node[id].state = "FREE" /\ node' = [node EXCEPT ![id] = Gone]
      /\ listed' = listed /\ rounds' = rounds /\ event' = event
  BY DEF FreeNode, portVars
<1>2. TypeOK /\ Lists /\ Places
  BY <1>1 DEF DpInv, Good
<1>3. id \notin listed[id[1]]
  BY <1>1, <1>2 DEF Places, PlacesOf
<1>4. ASSUME NEW x \in NodeIds
      PROVE  \/ SameTurn(node'[x], node[x])
             \/ node'[x].loops = 0 /\ x \notin listed[x[1]]
  <2>1. CASE x = id
    <3>1. node'[x] = Gone
      BY <1>1, <1>2, <2>1 DEF TypeOK
    <3> QED BY <1>3, <2>1, <3>1 DEF Gone
  <2>2. CASE x # id
    <3>1. node'[x] = node[x]
      BY <1>1, <1>2, <2>2 DEF TypeOK
    <3> QED BY <3>1 DEF SameTurn
  <2> QED BY <2>1, <2>2
<1> QED BY <1>1, <1>2, <1>4, LoopKept

LEMMA BurstLoops ==
  ASSUME DpInv, LoopInv, NEW id \in NodeIds, SendPacket(id) \/ NextBurst(id)
  PROVE  LoopInv'
<1>1. /\ failed = Quiet /\ listed' = listed /\ rounds' = rounds /\ event' = event
  BY DEF SendPacket, NextBurst, Bursting, portVars
<1>2. TypeOK /\ Lists
  BY <1>1 DEF DpInv, Good
<1>3. \A n \in NodeRecord : \A k :
        /\ SameTurn([n EXCEPT !.single = k], n)
        /\ SameTurn([n EXCEPT !.multi = k], n)
  BY DEF NodeRecord, SameTurn
<1>4. ASSUME NEW x \in NodeIds PROVE SameTurn(node'[x], node[x])
  <2>1. node[x] \in NodeRecord /\ node[id] \in NodeRecord
    BY <1>2 DEF TypeOK
  <2>2. CASE x # id
    <3>1. node'[x] = node[x]
      BY <1>2, <2>2 DEF SendPacket, NextBurst, TypeOK
    <3> QED BY <3>1 DEF SameTurn
  <2>3. CASE x = id /\ SendPacket(id)
    <3>1. node'[id] = [node[id] EXCEPT !.single = @ - 1]
      BY <1>2, <2>3 DEF SendPacket, TypeOK
    <3> QED BY <1>3, <2>1, <2>3, <3>1
  <2>4. CASE x = id /\ NextBurst(id)
    <3> DEFINE m == [node[id] EXCEPT !.multi = @ - 1]
    <3>1. node'[id] = [m EXCEPT !.single = node[id].refill]
      BY <1>2, <2>4 DEF NextBurst, TypeOK
    <3>2. node[id].multi # 1 /\ node[id].multi > 0 /\ node[id].multi \in Nat
      BY <2>1, <2>4, BurstingNode, NodeFields DEF NextBurst
    <3>3. m \in NodeRecord /\ SameTurn(m, node[id])
      <4> DEFINE k == node[id].multi - 1
      <4>1. k \in Nat
        BY <3>2
      <4> HIDE DEF k
      <4>2. [node[id] EXCEPT !.multi = k] \in NodeRecord
        BY <2>1, <4>1, NodeUpdates
      <4>3. SameTurn([node[id] EXCEPT !.multi = k], node[id])
        BY <1>3, <2>1
      <4> QED BY <4>2, <4>3 DEF k
    <3> HIDE DEF m
    <3>4. SameTurn(node'[id], m)
      BY <1>3, <3>1, <3>3
    <3> QED BY <2>4, <3>3, <3>4 DEF SameTurn
  <2> QED BY <2>2, <2>3, <2>4
<1> QED BY <1>1, <1>2, <1>4, LoopKept

LEMMA StartLoops ==
  ASSUME DpInv, LoopInv, LoopsAreClosed, NEW p \in Ports, NEW prog \in Programs,
         NEW dur \in BOOLEAN, StartTraffic(p, prog, dur)
  PROVE  LoopInv'
<1> DEFINE r == event[p] + 1
           mine == Mine(p, r, prog)
<1>1. /\ failed = Quiet /\ pstate[p] = "IDLE" /\ Cardinality(Started) < MaxRuns
      /\ event' = [event EXCEPT ![p] = r] /\ listed' = [listed EXCEPT ![p] = mine]
      /\ node' = [id \in NodeIds |-> IF id \in mine THEN NewNode(p, r, prog[id[3]]) ELSE node[id]]
      /\ rounds' = rounds
  BY Zenon DEF StartTraffic, Draining, Mine
<1>2. TypeOK /\ Lists
  BY <1>1 DEF DpInv, Good
<1>3. event[p] \in Nat /\ r \in Runs
  BY <1>1, <1>2, NextRun
<1>4. /\ mine \subseteq NodeIds
      /\ \A id \in mine : /\ id[1] = p /\ id[2] = r /\ id[3] \in DOMAIN prog
                          /\ id = <<p, r, id[3]>>
  BY <1>3, MineFacts
<1>5. listed[p] = {} /\ listed'[p] = mine /\ \A q \in Ports \ {p} : listed'[q] = listed[q]
  BY <1>1, <1>2 DEF Lists, TypeOK
<1>6. event'[p] = r /\ \A q \in Ports \ {p} : event'[q] = event[q]
  BY <1>1, <1>2 DEF TypeOK
<1>7. \A id \in mine : rounds[id] = 0
  BY <1>3, <1>4 DEF LoopInv
<1>8. \A x \in mine :
        /\ node'[x].loops = prog[x[3]].action /\ node'[x].action = prog[x[3]].action
        /\ node'[x].state = (IF prog[x[3]].self THEN "ACTIVE" ELSE "INACTIVE")
        /\ prog[x[3]].next # 0 => node'[x].next # NoNode
        /\ prog[x[3]].action \in Nat
  <2> SUFFICES ASSUME NEW x \in mine
               PROVE  /\ node'[x].loops = prog[x[3]].action /\ node'[x].action = prog[x[3]].action
                      /\ node'[x].state = (IF prog[x[3]].self THEN "ACTIVE" ELSE "INACTIVE")
                      /\ prog[x[3]].next # 0 => node'[x].next # NoNode
                      /\ prog[x[3]].action \in Nat
    OBVIOUS
  <2> DEFINE s == prog[x[3]]
             st == IF s.self THEN "ACTIVE" ELSE "INACTIVE"
             nx == IF s.next = 0 THEN NoNode ELSE <<p, r, s.next>>
             n == node'[x]
  <2>1. node'[x] = NewNode(p, r, s)
    BY <1>1, <1>4
  <2>2. s \in Stream /\ (s.next = 0 \/ s.next \in DOMAIN prog)
    BY <1>4, ProgFacts
  <2>3. n = [state |-> st, cont |-> s.cont, pause |-> FALSE, single |-> s.pkts, multi |-> s.bursts,
             refill |-> s.pkts, bursts |-> s.bursts, action |-> s.action, loops |-> s.action,
             next |-> nx]
    BY <2>1 DEF NewNode
  <2>4. s.next # 0 => nx \in mine
    BY <1>3, <2>2, MineFacts
  <2>5. s.next # 0 => nx # NoNode
    BY <1>4, <2>4, IdFacts
  <2> HIDE DEF st, nx, n
  <2>6. n.state = st /\ n.loops = s.action /\ n.action = s.action /\ n.next = nx
    BY <2>3
  <2> QED BY <2>2, <2>5, <2>6 DEF n, st, Stream
<1> HIDE DEF mine, r
<1>9. ASSUME NEW q \in Ports, q # p PROVE LoopOK(q)'
  <2>1. ASSUME NEW x \in listed[q] PROVE SameTurn(node'[x], node[x])
    <3>1. x \in NodeIds /\ x[1] = q
      BY <1>2, <2>1 DEF TypeOK, Lists
    <3>2. node'[x] = node[x]
      BY <1>1, <1>4, <1>9, <3>1
    <3> QED BY <3>2 DEF SameTurn
  <2> QED BY <1>1, <1>5, <1>9, <2>1, LoopFrame DEF LoopInv
<1>10. LoopOK(p)'
  <2> SUFFICES ASSUME NEW z \in mine, node'[z].loops > 0
               PROVE  /\ \A x, y \in mine :
                           node'[x].state = "ACTIVE" /\ node'[y].state = "ACTIVE" => x = y
                      /\ \A x, y \in mine : node'[x].loops > 0 /\ node'[y].loops > 0 => x = y
                      /\ \A x \in mine : Turns(node'[x], rounds'[x])
    BY <1>5 DEF LoopOK, Looping, Active, Turns
  <2>1. ClosedLoop(prog)
    BY <1>4, <1>8 DEF LoopsAreClosed
  <2>2. ASSUME NEW x \in mine, NEW y \in mine, x[3] = y[3] PROVE x = y
    BY <1>4, <2>2
  <2>3. \A x, y \in mine : node'[x].state = "ACTIVE" /\ node'[y].state = "ACTIVE" => x = y
    BY <1>4, <1>8, <2>1, <2>2 DEF ClosedLoop
  <2>4. \A x, y \in mine : node'[x].loops > 0 /\ node'[y].loops > 0 => x = y
    BY <1>4, <1>8, <2>1, <2>2 DEF ClosedLoop
  <2>5. ASSUME NEW x \in mine PROVE Turns(node'[x], rounds'[x])
    <3>1. prog[x[3]].next # 0 /\ prog[x[3]].action <= MaxRounds
      BY <1>4, <2>1 DEF ClosedLoop
    <3>2. rounds'[x] = 0
      BY <1>1, <1>7
    <3> QED BY <1>8, <3>1, <3>2 DEF Turns
  <2> QED BY <2>3, <2>4, <2>5
<1>11. ASSUME NEW id \in NodeIds, node'[id].loops > 0 PROVE id \in listed'[id[1]]
  <2>1. CASE id \in mine
    BY <1>4, <1>5, <2>1
  <2>2. CASE id \notin mine
    <3>1. id \in listed[id[1]] /\ id[1] \in Ports
      BY <1>1, <1>11, <2>2, IdFacts DEF LoopInv
    <3> QED BY <1>5, <3>1
  <2> QED BY <2>1, <2>2
<1>12. ASSUME NEW id \in NodeIds, id[2] > event'[id[1]] PROVE rounds'[id] = 0
  <2>1. id[1] \in Ports /\ id[2] \in Nat /\ event[id[1]] \in Nat
    BY <1>2, IdFacts DEF TypeOK
  <2>2. id[2] > event[id[1]]
    BY <1>3, <1>6, <1>12, <2>1 DEF r
  <2> QED BY <1>1, <2>2 DEF LoopInv
<1> QED BY <1>9, <1>10, <1>11, <1>12 DEF LoopInv

(* What set_stateless_next_node does with the stream of a closed loop.     *)
LEMMA LastTurn ==
  ASSUME DpInv, LoopInv, NEW id \in NodeIds, LastPacket(id), Looping(id[1])
  PROVE  /\ Active(node, id[1]) = {id} /\ Turns(node[id], rounds[id])
         /\ node[id].next \in listed[id[1]]
         /\ \E nodes :
              /\ Rested(nodes, id)
              /\ \/ /\ node[id].action # 1
                    /\ nodes[id].action = IF node[id].action = 0 THEN 0 ELSE node[id].action - 1
                    /\ Schedule(id, node[id].next, nodes)
                 \/ node[id].action = 1 /\ EndChain(id, nodes)
<1> DEFINE nodes == [node EXCEPT ![id].state = "INACTIVE", ![id].single = 0, ![id].multi = 0]
           next == nodes[id].next
           turns == nodes[id].action
           spent == [nodes EXCEPT ![id].action = turns - 1]
           p == id[1]
<1>1. Bursting(id) /\ SetNextNode(id, nodes)
  BY DEF LastPacket
<1>2. /\ TypeOK /\ Good /\ Fields(node[id], p) /\ p \in Ports /\ id \in listed[p]
      /\ node[id] \in NodeRecord /\ node[id].state = "ACTIVE"
  BY <1>1, BurstingNode
<1>3. /\ Rested(nodes, id) /\ turns \in Nat
      /\ \A k \in Nat : Rested([nodes EXCEPT ![id].action = k], id)
  BY Zenon, <1>1, RestedAfterLast
<1>4. turns = node[id].action
  <2> DEFINE a == [node[id] EXCEPT !.state = "INACTIVE"]
             b == [a EXCEPT !.single = 0]
             c == [b EXCEPT !.multi = 0]
  <2>1. nodes[id] = c
    BY <1>2 DEF TypeOK
  <2>2. a \in NodeRecord /\ a.action = node[id].action
    BY <1>2 DEF NodeRecord
  <2> HIDE DEF a
  <2>3. b \in NodeRecord /\ b.action = a.action
    BY <2>2 DEF NodeRecord
  <2> HIDE DEF b
  <2>4. c.action = b.action
    BY <2>3 DEF NodeRecord
  <2> HIDE DEF nodes, c
  <2> QED BY <2>1, <2>2, <2>3, <2>4
<1> HIDE DEF nodes
<1>5. /\ \A x, y \in Active(node, p) : x = y
      /\ \A x \in listed[p] : Turns(node[x], rounds[x])
  BY <1>2 DEF LoopInv, LoopOK
<1>6. id \in Active(node, p)
  BY <1>2 DEF Active
<1>7. Active(node, p) = {id}
  BY <1>5, <1>6
<1>8. Turns(node[id], rounds[id])
  BY <1>2, <1>5
<1>9. next = node[id].next /\ next # NoNode /\ next \in listed[p]
  <2>1. next = node[id].next
    BY <1>3 DEF Rested, SameStream
  <2>2. node[id].next # NoNode /\ node[id].next \in listed[p]
    BY <1>2, <1>8 DEF Turns, Fields
  <2> QED BY <2>1, <2>2
<1>10. nodes[next].state = "INACTIVE"
  <2>1. CASE next = id
    BY <1>3, <2>1 DEF Rested
  <2>2. CASE next # id
    <3>1. next \in NodeIds /\ next[1] = p
      BY <1>2, <1>9 DEF TypeOK, Good, Lists
    <3>2. node[next].state \in {"ACTIVE", "INACTIVE"}
      BY <1>2, <1>9, <3>1 DEF Good, Places, PlacesOf
    <3>3. node[next].state # "ACTIVE"
      BY <1>7, <1>9, <2>2 DEF Active
    <3>4. nodes[next] = node[next]
      BY <1>3, <2>2, <3>1 DEF Rested
    <3> QED BY <3>2, <3>3, <3>4
  <2> QED BY <2>1, <2>2
<1>11. turns > 0 => Rested(spent, id) /\ spent[id].action = turns - 1
  <2> SUFFICES ASSUME turns > 0 PROVE Rested(spent, id) /\ spent[id].action = turns - 1
    OBVIOUS
  <2> DEFINE k == turns - 1
  <2>1. k \in Nat
    BY <1>3
  <2> HIDE DEF k
  <2>2. Rested([nodes EXCEPT ![id].action = k], id)
    BY <1>3, <2>1
  <2>3. [nodes EXCEPT ![id].action = k][id].action = k
    <3>1. nodes \in [NodeIds -> NodeRecord] /\ nodes[id] \in NodeRecord
      BY <1>3 DEF Rested
    <3>2. [nodes EXCEPT ![id].action = k][id] = [nodes[id] EXCEPT !.action = k]
      BY <3>1
    <3>3. [nodes[id] EXCEPT !.action = k].action = k
      BY <2>1, <3>1, NodeUpdates
    <3> QED BY <3>2, <3>3
  <2> QED BY <2>2, <2>3 DEF k
<1>12. CASE turns = 0
  <2>1. Schedule(id, next, nodes)
    BY <1>1, <1>9, <1>10, <1>12 DEF SetNextNode
  <2> QED BY <1>3, <1>4, <1>7, <1>8, <1>9, <1>12, <2>1
<1>13. CASE turns = 1
  <2>1. EndChain(id, spent)
    BY <1>1, <1>9, <1>10, <1>13 DEF SetNextNode
  <2> HIDE DEF spent
  <2> QED BY <1>4, <1>7, <1>8, <1>9, <1>11, <1>13, <2>1
<1>14. CASE turns > 1
  <2>1. Schedule(id, next, spent)
    BY <1>1, <1>3, <1>9, <1>10, <1>14 DEF SetNextNode
  <2> HIDE DEF spent
  <2>2. Rested(spent, id) /\ spent[id].action = turns - 1 /\ turns # 0 /\ turns # 1
    BY <1>3, <1>11, <1>14
  <2>3. spent[id].action = IF node[id].action = 0 THEN 0 ELSE node[id].action - 1
    BY <1>4, <2>2
  <2> HIDE DEF turns
  <2> QED BY <1>4, <1>7, <1>8, <1>9, <2>1, <2>2, <2>3
<1> QED BY <1>3, <1>12, <1>13, <1>14

LEMMA ChainEnds ==
  ASSUME DpInv, NEW id \in NodeIds, Bursting(id), NEW nodes, Rested(nodes, id), EndChain(id, nodes)
  PROVE  /\ heap' = [heap EXCEPT ![id] = @ - 1]
         /\ \/ /\ Active(nodes, id[1]) # {}
               /\ listed' = listed /\ node' = nodes /\ pstate' = pstate
            \/ /\ Active(nodes, id[1]) = {}
               /\ listed' = [listed EXCEPT ![id[1]] = {}] /\ pstate' = [pstate EXCEPT ![id[1]] = "IDLE"]
               /\ node' = [x \in NodeIds |->
                             IF x \notin listed[id[1]] THEN nodes[x]
                             ELSE IF nodes[x].state = "ACTIVE" THEN Marked ELSE Gone]
<1> DEFINE p == id[1]
<1>1. TypeOK /\ Good /\ p \in Ports /\ pstate[p] # "IDLE"
  BY BurstingNode
<1>2. heap' = [heap EXCEPT ![id] = @ - 1] /\ OneLess(p, nodes)
  BY DEF EndChain
<1>3. activeCnt[p] - 1 = Cardinality(Active(nodes, p))
  <2>1. CountsOf(nodes, [activeCnt EXCEPT ![p] = activeCnt[p] - 1])
    BY RestedFacts
  <2>2. [activeCnt EXCEPT ![p] = activeCnt[p] - 1][p] = activeCnt[p] - 1
    BY <1>1 DEF TypeOK
  <2> QED BY <1>1, <2>1, <2>2 DEF CountsOf
<1>4. Active(nodes, p) = {} <=> activeCnt[p] - 1 = 0
  BY <1>1, <1>3, ActiveFacts DEF Good
<1>5. CASE activeCnt[p] - 1 = 0
  <2>1. StopPort(p, FALSE, nodes, 0)
    BY Zenon, <1>2, <1>5 DEF OneLess
  <2>2. /\ listed' = [listed EXCEPT ![p] = {}] /\ pstate' = [pstate EXCEPT ![p] = "IDLE"]
        /\ node' = [x \in NodeIds |->
                      IF x \notin listed[p] THEN nodes[x]
                      ELSE IF nodes[x].state = "ACTIVE" THEN Marked ELSE Gone]
    BY Zenon, <1>1, <2>1 DEF StopPort
  <2> QED BY <1>2, <1>4, <1>5, <2>2
<1>6. CASE activeCnt[p] - 1 # 0
  <2>1. listed' = listed /\ node' = nodes /\ pstate' = pstate
    BY Zenon, <1>2, <1>6 DEF OneLess
  <2> QED BY <1>2, <1>4, <1>6, <2>1
<1> QED BY <1>5, <1>6

LEMMA ChainGoesOn ==
  ASSUME DpInv, NEW id \in NodeIds, Bursting(id), NEW nodes, Rested(nodes, id),
         NEW next \in listed[id[1]], Schedule(id, next, nodes)
  PROVE  /\ listed' = listed /\ pstate' = pstate
         /\ \A x \in NodeIds : /\ node'[x].loops = node[x].loops /\ node'[x].next = node[x].next
                               /\ node'[x].action = nodes[x].action
                               /\ x # next => node'[x] = nodes[x]
                               /\ x[1] # id[1] => node'[x] = node[x] /\ heap'[x] = heap[x]
<1>1. /\ node' = [nodes EXCEPT ![next] = Refreshed(@)] /\ listed' = listed /\ pstate' = pstate
      /\ heap' = [x \in NodeIds |-> heap[x] - (IF x = id THEN 1 ELSE 0)
                                            + (IF x = next THEN 1 ELSE 0)]
  BY DEF Schedule
<1>2. TypeOK /\ Good /\ id[1] \in Ports
  BY BurstingNode
<1>3. next \in NodeIds /\ next[1] = id[1]
  BY <1>2 DEF TypeOK, Good, Lists
<1>4. /\ nodes \in [NodeIds -> NodeRecord] /\ SameStream(nodes[id], node[id])
      /\ \A x \in NodeIds \ {id} : nodes[x] = node[x]
  BY DEF Rested
<1>5. node'[next] = Refreshed(nodes[next]) /\ \A x \in NodeIds \ {next} : node'[x] = nodes[x]
  BY <1>1, <1>3, <1>4
<1>6. \A n \in NodeRecord : Refreshed(n).action = n.action
  <2> SUFFICES ASSUME NEW n \in NodeRecord PROVE Refreshed(n).action = n.action
    OBVIOUS
  <2> DEFINE a == [n EXCEPT !.state = "ACTIVE"]
             b == [a EXCEPT !.single = n.refill]
             c == [b EXCEPT !.multi = n.bursts]
  <2>1. Refreshed(n) = c
    BY DEF Refreshed
  <2>2. a \in NodeRecord /\ a.action = n.action /\ n.refill \in Nat
    BY DEF NodeRecord
  <2> HIDE DEF a
  <2>3. b \in NodeRecord /\ b.action = a.action
    BY <2>2 DEF NodeRecord
  <2> HIDE DEF b
  <2>4. c.action = b.action
    BY <2>3 DEF NodeRecord
  <2> HIDE DEF c
  <2> QED BY <2>1, <2>2, <2>3, <2>4
<1>7. ASSUME NEW x \in NodeIds PROVE nodes[x].loops = node[x].loops /\ nodes[x].next = node[x].next
  BY <1>4 DEF SameStream
<1>8. /\ node'[next].loops = nodes[next].loops /\ node'[next].next = nodes[next].next
      /\ node'[next].action = nodes[next].action
  <2>1. nodes[next] \in NodeRecord
    BY <1>3, <1>4
  <2> QED BY <1>5, <1>6, <2>1, RefreshedFields DEF SameStream
<1>9. ASSUME NEW x \in NodeIds, x[1] # id[1] PROVE node'[x] = node[x] /\ heap'[x] = heap[x]
  <2>1. x # id /\ x # next
    BY <1>3, <1>9
  <2>2. heap'[x] = heap[x]
    <3>1. heap'[x] = heap[x] - 0 + 0 /\ heap[x] \in Nat
      BY <1>1, <1>2, <2>1 DEF TypeOK
    <3> QED BY <3>1
  <2> QED BY <1>4, <1>5, <2>1, <2>2
<1> QED BY <1>1, <1>5, <1>7, <1>8, <1>9

(* The end of a stream concerns its own port only, which goes on or stops. *)
LEMMA LastView ==
  ASSUME DpInv, LoopInv, NEW id \in NodeIds, LastPacket(id)
  PROVE  /\ \A x \in NodeIds : x # id => rounds'[x] = rounds[x]
         /\ \A x \in NodeIds : x[1] # id[1] => node'[x] = node[x] /\ heap'[x] = heap[x]
         /\ \A q \in Ports \ {id[1]} : listed'[q] = listed[q] /\ pstate'[q] = pstate[q]
         /\ \/ /\ listed'[id[1]] = {}
               /\ \A x \in NodeIds : x[1] = id[1] => node'[x].loops = 0
            \/ /\ listed'[id[1]] = listed[id[1]]
               /\ \A x \in NodeIds : x[1] = id[1] => node'[x].loops = node[x].loops
<1> DEFINE p == id[1]
<1>1. Bursting(id)
  BY DEF LastPacket
<1>2. TypeOK /\ Good /\ p \in Ports /\ pstate[p] # "IDLE"
  BY <1>1, BurstingNode
<1>3. \A x \in NodeIds : x # id => rounds'[x] = rounds[x]
  BY <1>2 DEF LastPacket, TypeOK
<1>4. PICK nodes : /\ Rested(nodes, id)
                   /\ \/ EndChain(id, nodes)
                      \/ \E next \in listed[id[1]] :
                           nodes[next].state = "INACTIVE" /\ Schedule(id, next, nodes)
  BY LastOutcome
<1>5. ASSUME NEW next \in listed[p], Schedule(id, next, nodes)
      PROVE  /\ \A x \in NodeIds : x[1] # p => node'[x] = node[x] /\ heap'[x] = heap[x]
             /\ \A q \in Ports \ {p} : listed'[q] = listed[q] /\ pstate'[q] = pstate[q]
             /\ listed'[p] = listed[p]
             /\ \A x \in NodeIds : x[1] = p => node'[x].loops = node[x].loops
  BY <1>1, <1>4, <1>5, ChainGoesOn
<1>6. CASE EndChain(id, nodes)
  <2>1. \A x \in NodeIds : x # id => heap'[x] = heap[x]
    BY <1>1, <1>2, <1>4, <1>6, ChainEnds DEF TypeOK
  <2>2. /\ \A x \in NodeIds \ {id} : nodes[x] = node[x]
        /\ nodes[id].loops = node[id].loops
    BY <1>4 DEF Rested, SameStream
  <2>3. CASE listed' = listed /\ node' = nodes /\ pstate' = pstate
    BY <1>3, <2>1, <2>2, <2>3
  <2>4. CASE /\ listed' = [listed EXCEPT ![p] = {}] /\ pstate' = [pstate EXCEPT ![p] = "IDLE"]
             /\ node' = [x \in NodeIds |->
                           IF x \notin listed[p] THEN nodes[x]
                           ELSE IF nodes[x].state = "ACTIVE" THEN Marked ELSE Gone]
    <3>1. /\ listed'[p] = {}
          /\ \A q \in Ports \ {p} : listed'[q] = listed[q] /\ pstate'[q] = pstate[q]
      BY <1>2, <2>4 DEF TypeOK
    <3>2. \A x \in listed[p] : x \in NodeIds /\ x[1] = p
      BY <1>2 DEF TypeOK, Good, Lists
    <3>3. \A x \in NodeIds : x[1] # p => node'[x] = node[x]
      BY <2>2, <2>4, <3>2
    <3>4. Marked.loops = 0 /\ Gone.loops = 0
      BY DEF Marked, Gone
    <3>5. ASSUME NEW x \in NodeIds, x[1] = p PROVE node'[x].loops = 0
      <4>1. CASE x \in listed[p]
        BY <2>4, <3>4, <4>1
      <4>2. CASE x \notin listed[p]
        <5>1. node[x].loops \in Nat /\ ~(node[x].loops > 0)
          BY <1>2, <3>5, <4>2, NodeFields DEF LoopInv, TypeOK
        <5>2. node'[x] = nodes[x]
          BY <2>4, <4>2
        <5>3. node[x].loops = 0
          BY <5>1
        <5> QED BY <2>2, <5>2, <5>3
      <4> QED BY <4>1, <4>2
    <3> QED BY <1>3, <2>1, <3>1, <3>3, <3>5
  <2> QED BY <1>1, <1>4, <1>6, <2>3, <2>4, ChainEnds
<1> QED BY <1>3, <1>4, <1>5, <1>6

(* What LoopTimes says of stream x in a step.                              *)
LoopStep(x) ==
  node[x].loops > 0 =>
    /\ rounds'[x] <= node[x].loops
    /\ LastOneDone(x[1]) /\ pstate'[x[1]] = "IDLE" /\ rounds'[x] > 0 => rounds'[x] = node[x].loops

(* A stream of a closed loop ends its round: the next one starts, with a   *)
(* turn less for the counted stream, or its turns are used up and the run  *)
(* is over.                                                                *)
LEMMA LastLooping ==
  ASSUME DpInv, LoopInv, NEW id \in NodeIds, LastPacket(id), Looping(id[1])
  PROVE  /\ LoopOK(id[1])'
         /\ \A x \in listed[id[1]] : LoopStep(x)
<1> DEFINE p == id[1]
<1>1. Bursting(id)
  BY DEF LastPacket
<1>2. /\ TypeOK /\ Good /\ p \in Ports /\ pstate[p] # "IDLE" /\ id \in listed[p]
      /\ node[id] \in NodeRecord
  BY <1>1, BurstingNode
<1>3. /\ Active(node, p) = {id} /\ Turns(node[id], rounds[id]) /\ node[id].next \in listed[p]
  BY LastTurn
<1>4. PICK nodes :
        /\ Rested(nodes, id)
        /\ \/ /\ node[id].action # 1
              /\ nodes[id].action = IF node[id].action = 0 THEN 0 ELSE node[id].action - 1
              /\ Schedule(id, node[id].next, nodes)
           \/ node[id].action = 1 /\ EndChain(id, nodes)
  BY LastTurn
<1>5. /\ \A x, y \in listed[p] : node[x].loops > 0 /\ node[y].loops > 0 => x = y
      /\ \A x \in listed[p] : Turns(node[x], rounds[x])
      /\ \A x \in listed[p] : x \in NodeIds /\ x[1] = p
  BY <1>2 DEF LoopInv, LoopOK, TypeOK, Good, Lists
<1>6. Active(nodes, p) = {}
  BY <1>1, <1>3, <1>4, RestedFacts
<1>7. /\ node[id].loops \in Nat /\ node[id].action \in Nat /\ rounds[id] \in Nat
      /\ MaxRounds \in Nat
  BY <1>2, NodeFields, LimitsAssumption DEF TypeOK
<1>8. /\ rounds'[id] = (IF node[id].loops > 0 /\ rounds[id] < MaxRounds
                        THEN rounds[id] + 1 ELSE rounds[id])
      /\ \A x \in listed[p] : x # id => rounds'[x] = rounds[x]
  BY <1>2, <1>5 DEF LastPacket, TypeOK
<1>9. /\ node[id].loops > 0 => rounds'[id] = rounds[id] + 1 /\ rounds[id] + node[id].action = node[id].loops
                               /\ node[id].action > 0 /\ node[id].loops <= MaxRounds
      /\ node[id].loops = 0 => rounds'[id] = rounds[id] /\ node[id].action = 0
  BY <1>3, <1>7, <1>8 DEF Turns
<1>10. \A x \in listed[p] : node[x].loops > 0 => rounds'[x] <= node[x].loops
  <2> SUFFICES ASSUME NEW x \in listed[p], node[x].loops > 0 PROVE rounds'[x] <= node[x].loops
    OBVIOUS
  <2>1. CASE x = id
    BY <1>7, <1>9, <2>1
  <2>2. CASE x # id
    <3>1. node[x].action \in Nat /\ node[x].loops \in Nat /\ rounds[x] \in Nat
      BY <1>2, <1>5, NodeFields DEF TypeOK
    <3>2. rounds[x] + node[x].action = node[x].loops
      BY <1>5 DEF Turns
    <3> QED BY <1>8, <2>2, <3>1, <3>2
  <2> QED BY <2>1, <2>2
<1>11. CASE node[id].action = 1 /\ EndChain(id, nodes)
  <2>1. listed' = [listed EXCEPT ![p] = {}]
    BY <1>1, <1>4, <1>6, <1>11, ChainEnds
  <2>2. listed'[p] = {}
    BY <1>2, <2>1 DEF TypeOK
  <2>3. LoopOK(p)'
    BY <2>2 DEF LoopOK, Looping
  <2>4. node[id].loops > 0 /\ rounds'[id] = node[id].loops
    BY <1>7, <1>9, <1>11
  <2>5. ASSUME NEW x \in listed[p], node[x].loops > 0 PROVE x = id
    BY <1>2, <1>5, <2>4, <2>5
  <2> QED BY <1>10, <2>3, <2>4, <2>5 DEF LoopStep
<1>12. CASE /\ node[id].action # 1
            /\ nodes[id].action = IF node[id].action = 0 THEN 0 ELSE node[id].action - 1
            /\ Schedule(id, node[id].next, nodes)
  <2> DEFINE next == node[id].next
  <2>1. /\ listed' = listed /\ pstate' = pstate
        /\ \A x \in NodeIds : /\ node'[x].loops = node[x].loops /\ node'[x].next = node[x].next
                              /\ node'[x].action = nodes[x].action
                              /\ x # next => node'[x] = nodes[x]
    BY <1>1, <1>3, <1>4, <1>12, ChainGoesOn
  <2>2. \A x \in Active(node, p)' : x = next
    BY <1>5, <1>6, <2>1 DEF Active
  <2>3. \A x \in NodeIds \ {id} : nodes[x] = node[x]
    BY <1>4 DEF Rested
  <2>4. ASSUME NEW x \in listed[p] PROVE Turns(node'[x], rounds'[x])
    <3>1. x \in NodeIds /\ Turns(node[x], rounds[x])
      BY <1>5
    <3>2. CASE x # id
      <4>1. node'[x].action = node[x].action /\ rounds'[x] = rounds[x]
        BY <1>8, <2>1, <2>3, <3>1, <3>2
      <4> QED BY <2>1, <3>1, <4>1 DEF Turns
    <3>3. CASE x = id
      <4>1. /\ node'[id].action = IF node[id].action = 0 THEN 0 ELSE node[id].action - 1
            /\ node'[id].loops = node[id].loops /\ node'[id].next = node[id].next
        BY <1>12, <2>1
      <4>2. CASE node[id].loops > 0
        <5>1. /\ node[id].action - 1 > 0
              /\ (rounds[id] + 1) + (node[id].action - 1) = node[id].loops
          BY <1>7, <1>9, <1>12, <4>2
        <5>2. node'[id].action = node[id].action - 1 /\ rounds'[id] = rounds[id] + 1
          BY <1>7, <1>9, <4>1, <4>2
        <5> QED BY <1>3, <1>7, <1>9, <3>3, <4>1, <4>2, <5>1, <5>2 DEF Turns
      <4>3. CASE node[id].loops = 0
        BY <1>3, <1>9, <3>3, <4>1, <4>3 DEF Turns
      <4> QED BY <1>7, <4>2, <4>3
    <3> QED BY <3>2, <3>3
  <2>5. \A x, y \in listed'[p] : node'[x].loops > 0 /\ node'[y].loops > 0 => x = y
    BY <1>5, <2>1
  <2>6. LoopOK(p)'
    BY <2>1, <2>2, <2>4, <2>5 DEF LoopOK, Turns
  <2>7. \A x \in listed[p] : pstate'[x[1]] # "IDLE"
    BY <1>2, <1>5, <2>1
  <2> QED BY <1>10, <2>6, <2>7 DEF LoopStep
<1> QED BY <1>4, <1>11, <1>12

LEMMA LastLoops ==
  ASSUME DpInv, LoopInv, NEW id \in NodeIds, LastPacket(id)
  PROVE  LoopInv' /\ \A x \in NodeIds : LoopStep(x)
<1> DEFINE p == id[1]
<1>1. Bursting(id) /\ event' = event
  BY DEF LastPacket
<1>2. /\ TypeOK /\ Good /\ p \in Ports /\ id \in listed[p]
  BY <1>1, BurstingNode
<1>3. \A q \in Ports : \A x \in listed[q] : x \in NodeIds /\ x[1] = q
  BY <1>2 DEF TypeOK, Good, Lists
<1>4. /\ \A x \in NodeIds : x # id => rounds'[x] = rounds[x]
      /\ \A x \in NodeIds : x[1] # p => node'[x] = node[x] /\ heap'[x] = heap[x]
      /\ \A q \in Ports \ {p} : listed'[q] = listed[q] /\ pstate'[q] = pstate[q]
  BY LastView
<1>5. \/ listed'[p] = {} /\ \A x \in NodeIds : x[1] = p => node'[x].loops = 0
      \/ listed'[p] = listed[p] /\ \A x \in NodeIds : x[1] = p => node'[x].loops = node[x].loops
  BY LastView
<1>6. \A x \in NodeIds : node[x].loops > 0 => x \in listed[x[1]] /\ x[1] \in Ports
  BY IdFacts DEF LoopInv
<1>7. ASSUME NEW q \in Ports, q # p PROVE LoopOK(q)'
  <2>1. \A x \in listed[q] : rounds'[x] = rounds[x] /\ SameTurn(node'[x], node[x])
    BY <1>3, <1>4, <1>7 DEF SameTurn
  <2> QED BY <1>4, <1>7, <2>1, LoopFrame DEF LoopInv
<1>8. LoopOK(p)'
  <2>1. CASE Looping(p)
    BY <2>1, LastLooping
  <2>2. CASE ~Looping(p)
    <3>1. ~Looping(p)'
      BY <1>2, <1>3, <1>5, <2>2 DEF Looping
    <3> QED BY <3>1 DEF LoopOK
  <2> QED BY <2>1, <2>2
<1>9. ASSUME NEW x \in NodeIds, node'[x].loops > 0 PROVE x \in listed'[x[1]]
  <2>1. CASE x[1] = p
    BY <1>5, <1>6, <1>9, <2>1
  <2>2. CASE x[1] # p
    BY <1>4, <1>6, <1>9, <2>2
  <2> QED BY <2>1, <2>2
<1>10. ASSUME NEW x \in NodeIds, x[2] > event'[x[1]] PROVE rounds'[x] = 0
  <2>1. id[2] = event[p] /\ event[p] \in Nat
    BY <1>2 DEF Good, Lists, TypeOK
  <2>2. x # id
    BY <1>1, <1>10, <2>1
  <2> QED BY <1>1, <1>4, <1>10, <2>2 DEF LoopInv
<1>11. ASSUME NEW x \in NodeIds PROVE LoopStep(x)
  <2> SUFFICES ASSUME node[x].loops > 0 PROVE LoopStep(x)
    BY DEF LoopStep
  <2>1. x \in listed[x[1]] /\ x[1] \in Ports
    BY <1>6
  <2>2. CASE x[1] = p
    BY <2>1, <2>2, LastLooping DEF Looping
  <2>3. CASE x[1] # p
    <3>1. ~LastOneDone(x[1])
      <4>1. \A y \in listed[x[1]] : heap'[y] = heap[y] /\ heap[y] \in Nat
        BY <1>2, <1>3, <1>4, <2>1, <2>3 DEF TypeOK
      <4> QED BY <4>1 DEF LastOneDone
    <3>2. x # id /\ rounds'[x] = rounds[x]
      BY <1>4, <2>3
    <3>3. Turns(node[x], rounds[x])
      BY <2>1 DEF LoopInv, LoopOK, Looping
    <3>4. rounds[x] \in Nat /\ node[x].action \in Nat /\ node[x].loops \in Nat
      BY <1>2, NodeFields DEF TypeOK
    <3>5. rounds[x] <= node[x].loops
      BY <3>3, <3>4 DEF Turns
    <3> QED BY <3>1, <3>2, <3>5 DEF LoopStep
  <2> QED BY <2>2, <2>3
<1>12. ASSUME NEW q \in Ports PROVE LoopOK(q)'
  BY <1>7, <1>8
<1> QED BY <1>9, <1>10, <1>11, <1>12 DEF LoopInv

LEMMA OtherSteps ==
  ASSUME DpInv, LoopInv, failed = Quiet, rounds' = rounds,
         \A p \in Ports : LastOneDone(p) => pstate'[p] # "IDLE"
  PROVE  \A x \in NodeIds : LoopStep(x)
<1> SUFFICES ASSUME NEW x \in NodeIds, node[x].loops > 0 PROVE LoopStep(x)
  BY DEF LoopStep
<1>1. TypeOK
  BY DEF DpInv
<1>2. x \in listed[x[1]] /\ x[1] \in Ports
  BY IdFacts DEF LoopInv
<1>3. Turns(node[x], rounds[x])
  BY <1>2 DEF LoopInv, LoopOK, Looping
<1>4. rounds[x] \in Nat /\ node[x].action \in Nat /\ node[x].loops \in Nat
  BY <1>1, NodeFields DEF TypeOK
<1>5. rounds[x] <= node[x].loops
  BY <1>3, <1>4 DEF Turns
<1> QED BY <1>2, <1>5 DEF LoopStep

(* Nothing listed leaves the heap. *)
LEMMA HeapKept ==
  ASSUME DpInv, LoopInv, failed = Quiet, rounds' = rounds,
         \A p \in Ports : \A x \in listed[p] : heap'[x] \in Nat /\ heap'[x] >= heap[x]
  PROVE  \A x \in NodeIds : LoopStep(x)
<1>1. \A p \in Ports : \A x \in listed[p] :
        heap[x] \in Nat /\ heap'[x] \in Nat /\ heap'[x] >= heap[x]
  BY DEF DpInv, TypeOK
<1>2. \A p \in Ports : ~LastOneDone(p)
  <2> SUFFICES ASSUME NEW p \in Ports, NEW y \in listed[p], heap'[y] < heap[y] PROVE FALSE
    BY DEF LastOneDone
  <2>1. heap[y] \in Nat /\ heap'[y] \in Nat /\ heap'[y] >= heap[y]
    BY <1>1
  <2> QED BY <2>1
<1> QED BY <1>2, OtherSteps

LEMMA LoopNext ==
  ASSUME DpInv, failed = Quiet, LoopInv, LoopsAreClosed, [Next]_vars
  PROVE  (failed' = Quiet => LoopInv') /\ \A x \in NodeIds : LoopStep(x)
<1> USE DEF portVars, threadVars, queueVars
<1>1. TypeOK /\ Good
  BY DEF DpInv
<1>2. \A p \in Ports : \A x \in listed[p] : heap[x] \in Nat /\ x \in NodeIds /\ x[1] = p
  BY <1>1 DEF TypeOK, Good, Lists
<1>3. ASSUME UNCHANGED <<heap, rounds>> PROVE \A x \in NodeIds : LoopStep(x)
  BY <1>2, <1>3, HeapKept
<1>4. ASSUME NEW p \in Ports, Message(p)
      PROVE  (failed' = Quiet => LoopInv') /\ \A x \in NodeIds : LoopStep(x)
  <2>1. ASSUME NEW prog \in Programs, NEW dur \in BOOLEAN, StartTraffic(p, prog, dur)
        PROVE  LoopInv' /\ \A x \in NodeIds : LoopStep(x)
    <3> DEFINE first == {<<p, event[p] + 1, i>> : i \in {j \in DOMAIN prog : prog[j].self}}
    <3>1. /\ heap' = [id \in NodeIds |-> IF id \in first THEN heap[id] + 1 ELSE heap[id]]
          /\ rounds' = rounds
      BY <2>1, Zenon DEF StartTraffic
    <3> HIDE DEF first
    <3>2. \A q \in Ports : \A x \in listed[q] : heap'[x] \in Nat /\ heap'[x] >= heap[x]
      BY <1>2, <3>1
    <3> QED BY <2>1, <3>1, <3>2, StartLoops, HeapKept
  <2>2. CASE StopTraffic(p)
    <3>1. /\ StopPort(p, FALSE, node, activeCnt[p]) /\ UNCHANGED <<event, heap, rounds>>
      BY <2>2 DEF StopTraffic
    <3> QED BY <1>3, <3>1, StopLoops
  <2>3. CASE PauseTraffic(p) \/ ResumeTraffic(p)
    <3>1. /\ SetPause(p, TRUE) \/ SetPause(p, FALSE)
          /\ UNCHANGED <<event, listed, heap, rounds>>
      BY <2>3, Zenon DEF PauseTraffic, ResumeTraffic
    <3> QED BY <1>3, <3>1, PauseLoops
  <2> QED BY <1>4, <2>1, <2>2, <2>3 DEF Message
<1>5. CASE QuitMainLoop \/ LeaveIdleLoop \/ FlowSync \/ UNCHANGED vars
  <2>1. UNCHANGED <<event, listed, node, heap, rounds>>
    BY <1>5, Zenon DEF QuitMainLoop, LeaveIdleLoop, FlowSync, vars
  <2>2. LoopInv'
    BY <1>1, <2>1, LoopKept DEF SameTurn, Good
  <2> QED BY <1>3, <2>1, <2>2
<1>6. CASE SyncDone \/ ExitSched
  <2>1. /\ UNCHANGED <<pstate, event, listed, rounds>>
        /\ LeaveScheduler \/ UNCHANGED node
    BY <1>6, Zenon DEF SyncDone, ExitSched
  <2>2. \A p \in Ports : LastOneDone(p) => pstate'[p] # "IDLE"
    BY <1>1, <2>1 DEF LastOneDone, Good, Lists
  <2>3. CASE LeaveScheduler
    BY <2>1, <2>2, <2>3, LeaveLoops, OtherSteps
  <2>4. CASE UNCHANGED node
    <3>1. LoopInv'
      BY <1>1, <2>1, <2>4, LoopKept DEF SameTurn, Good
    <3> QED BY <2>1, <2>2, <3>1, OtherSteps
  <2> QED BY <2>1, <2>3, <2>4
<1>7. ASSUME NEW p \in Ports, NEW r \in Runs, DurationElapses(p, r)
      PROVE  LoopInv' /\ \A x \in NodeIds : LoopStep(x)
  <2>1. /\ StopPort(p, r # event[p], node, activeCnt[p]) /\ UNCHANGED <<event, heap, rounds>>
    BY <1>7 DEF DurationElapses
  <2>2. (r # event[p]) \in BOOLEAN
    OBVIOUS
  <2>3. LoopInv'
    BY <2>1, <2>2, StopLoops
  <2> QED BY <1>3, <2>1, <2>3
<1>8. ASSUME NEW id \in NodeIds, NodeStep(id)
      PROVE  LoopInv' /\ \A x \in NodeIds : LoopStep(x)
  <2>1. CASE FreeNode(id)
    <3>1. /\ node[id].state = "FREE" /\ heap' = [heap EXCEPT ![id] = @ - 1] /\ rounds' = rounds
      BY <2>1 DEF FreeNode
    <3>2. id \notin listed[id[1]]
      BY <1>1, <3>1 DEF Good, Places, PlacesOf
    <3>3. \A p \in Ports : \A x \in listed[p] : heap'[x] \in Nat /\ heap'[x] >= heap[x]
      <4> SUFFICES ASSUME NEW p \in Ports, NEW x \in listed[p]
                   PROVE  heap'[x] \in Nat /\ heap'[x] >= heap[x]
        OBVIOUS
      <4>1. x # id /\ x \in NodeIds /\ heap[x] \in Nat
        BY <1>2, <3>2
      <4>2. heap'[x] = heap[x]
        BY <1>1, <3>1, <4>1 DEF TypeOK
      <4> QED BY <4>1, <4>2
    <3> QED BY <2>1, <3>1, <3>3, FreeLoops, HeapKept
  <2>2. CASE SendPacket(id) \/ NextBurst(id)
    <3>1. UNCHANGED <<heap, rounds>>
      BY <2>2, Zenon DEF SendPacket, NextBurst
    <3> QED BY <1>3, <2>2, <3>1, BurstLoops
  <2>3. CASE LastPacket(id)
    BY <2>3, LastLoops
  <2> QED BY <1>8, <2>1, <2>2, <2>3 DEF NodeStep
<1> QED BY <1>4, <1>5, <1>6, <1>7, <1>8 DEF Next

LEMMA LoopInit == Init => LoopInv
<1> SUFFICES ASSUME Init PROVE LoopInv
  OBVIOUS
<1>1. \A p \in Ports : listed[p] = {}
  BY DEF Init
<1>2. \A id \in NodeIds : rounds[id] = 0 /\ node[id] = Gone
  BY DEF Init
<1>3. Gone.loops = 0
  BY DEF Gone
<1>4. \A p \in Ports : LoopOK(p)
  BY <1>1 DEF LoopOK, Looping
<1> QED BY <1>2, <1>3, <1>4 DEF LoopInv

(* After a failed assert there is no further step. *)
LEMMA FailedStops == ASSUME failed # Quiet, [Next]_vars PROVE UNCHANGED vars
<1>1. \A p \in Ports : ~Message(p)
  BY Zenon DEF Message, StartTraffic, StopTraffic, PauseTraffic, ResumeTraffic, Draining
<1>2. ~(QuitMainLoop \/ LeaveIdleLoop \/ FlowSync \/ SyncDone \/ ExitSched)
  BY Zenon DEF QuitMainLoop, LeaveIdleLoop, FlowSync, SyncDone, ExitSched, Draining
<1>3. \A p \in Ports, r \in Runs : ~DurationElapses(p, r)
  BY Zenon DEF DurationElapses
<1>4. \A id \in NodeIds : ~NodeStep(id)
  BY Zenon DEF NodeStep, FreeNode, SendPacket, NextBurst, LastPacket, Bursting
<1> QED BY <1>1, <1>2, <1>3, <1>4 DEF Next

(* A counted loop makes as many rounds as its action_count says: the       *)
(* stream that closes it (m_action_counter in set_stateless_next_node)     *)
(* never makes more, and if the run ends with its last active stream it    *)
(* has made them all.  The hypothesis describes the programs with a loop   *)
(* count that load_pcap builds: a single chain of streams, each with a     *)
(* successor, of which one is counted.  A program that enters a spent loop *)
(* again from elsewhere would go round without end, since refresh does not *)
(* refill m_action_counter.  MaxRounds is the bound up to which the model  *)
(* counts rounds.                                                          *)
THEOREM LoopsEndInTime ==
  ASSUME LoopsAreClosed
  PROVE  Spec => LoopTimes
<1> DEFINE LInv == DpInv /\ (failed = Quiet => LoopInv)
<1>1. Init => LInv
  BY InitInv, LoopInit
<1>2. LInv /\ [Next]_vars => LInv'
  <2> SUFFICES ASSUME LInv, [Next]_vars PROVE LInv'
    OBVIOUS
  <2>1. DpInv'
    BY NextInv
  <2>2. CASE failed = Quiet
    BY <2>1, <2>2, LoopNext
  <2>3. CASE failed # Quiet
    <3>1. failed' # Quiet
      BY <2>3, FailedStops DEF vars
    <3> QED BY <2>1, <3>1
  <2> QED BY <2>2, <2>3
<1>3. LInv /\ [Next]_vars =>
        [\A id \in NodeIds :
           node[id].loops > 0 =>
             /\ rounds'[id] <= node[id].loops
             /\ LastOneDone(id[1]) /\ pstate'[id[1]] = "IDLE" /\ rounds'[id] > 0
                  => rounds'[id] = node[id].loops]_vars
  <2> SUFFICES ASSUME LInv, [Next]_vars, ~UNCHANGED vars
               PROVE  \A id \in NodeIds : LoopStep(id)
    BY DEF LoopStep
  <2>1. failed = Quiet
    BY FailedStops
  <2> QED BY <2>1, LoopNext
<1> QED BY <1>1, <1>2, <1>3, PTL DEF Spec, LoopTimes
=============================================================================
