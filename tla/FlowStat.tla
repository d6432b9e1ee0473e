------------------------------ MODULE FlowStat ------------------------------
(***************************************************************************)
(* RX flow statistics (CFlowStatRuleMgr) under the ports that use it.      *)
(*                                                                         *)
(* A stream may ask for its packets to be counted under a user id, which   *)
(* several streams, also of different ports, can share.  While one of them *)
(* transmits, the user id owns one of the MAX_FLOW_STATS hardware ids, the *)
(* packets are marked with it (IP ID) and the card counts them by it.      *)
(*                                                                         *)
(* One manager serves all the ports and has no lock of its own.  Commands  *)
(* come from the RPC thread; the end of a run and the periodic report come *)
(* from the master thread.  Each call of the manager is one step here, so  *)
(* the loops over a port's streams interleave.                             *)
(***************************************************************************)
EXTENDS Integers, FiniteSets, FiniteSetsExt

CONSTANTS
  Ports, Users,   (* ports, and the user ids of m_rx_check                   *)
  Streams,        (* the streams a client may add                            *)
  Info,           (* their attributes, see StreamInfo                        *)
  NumHw,          (* MAX_FLOW_STATS                                          *)
  Overlap,        (* may a command run on a port the master is stopping?     *)
  MaxPkts,        (* bound: packets received for one user id                 *)
  MaxStarts       (* bound: streams counted as started but never stopped     *)

NoUser == "none"    \* m_rx_check.m_enabled is false
NoPort == "none"    \* the port of a thread that does nothing
Free   == -1        \* FREE_HW_ID: an unused slot, a user id without one
Wide   == 256       \* the reference counts are uint8_t

Hw == 0 .. NumHw - 1

(***************************************************************************)
(* supported: the parser finds an IPv4 TCP/UDP/ICMP header.  throws: the   *)
(* compiler raises an exception on the stream's field-engine program.      *)
(***************************************************************************)
StreamInfo == [port : Ports, user : Users \cup {NoUser}, proto : {"udp", "tcp"},
               enabled : BOOLEAN, supported : BOOLEAN, throws : BOOLEAN]

ASSUME FlowAssumption ==
  /\ IsFiniteSet(Streams) /\ IsFiniteSet(Users) /\ Cardinality(Streams) < Wide
  /\ Info \in [Streams -> StreamInfo]
  /\ NoUser \notin Users /\ NoPort \notin Ports
  /\ NumHw \in Nat \ {0} /\ Overlap \in BOOLEAN
  /\ MaxPkts \in Nat /\ MaxStarts \in 1 .. Wide \div 2

(***************************************************************************)
(* The streams a careful client restricts itself to: one protocol per user *)
(* id, packets the card can count, nothing disabled, programs that compile.*)
(* Such a client does not use validate either, and its user ids fit into   *)
(* the card.                                                               *)
(***************************************************************************)
Plain(s) ==
  /\ Info[s].enabled /\ Info[s].supported /\ ~Info[s].throws
  /\ Info[s].proto = "udp"

VARIABLES
  careful,    \* what the clients of this behaviour do, see Plain
  \* the ports
  state,      \* m_port_state; TX stands for PAUSE as well
  table,      \* the streams in the ports' m_stream_table
  mark,       \* the hardware id in the packet of the compiled, running stream
  \* CFlowStatUserIdMap; there is an entry exactly for m_ref_count # 0
  ref, trans, proto, hwId,
  rx, base,   \* m_rx_counter and m_rx_counter_base of one receiving port
  \* CFlowStatHwIdMap
  hwUser, numFree,
  \* the card, and the counters kept for it (m_rx_per_flow)
  rules, hwCnt,
  received,   \* history: packets of the user id that were received
  job,        \* what each thread is doing
  crashed     \* a missing entry has been dereferenced

portVars == <<state, table, mark>>
userVars == <<ref, trans, proto, hwId>>
cntVars  == <<rx, base, hwCnt, received>>
hwVars   == <<hwUser, numFree, rules>>
vars == <<careful, portVars, userVars, cntVars, hwVars, job, crashed>>

(* Nothing stated about the other clients depends on the counters. *)
PktBound == IF careful THEN MaxPkts ELSE 0

Threads == {"rpc", "master"}
Idle    == [op |-> "idle", port |-> NoPort, todo |-> {}]

Init ==
  /\ careful \in BOOLEAN
  /\ state = [p \in Ports |-> "IDLE"] /\ table = {}
  /\ mark = [s \in Streams |-> Free]
  /\ ref = [u \in Users |-> 0] /\ trans = [u \in Users |-> 0]
  /\ proto = [u \in Users |-> "udp"] /\ hwId = [u \in Users |-> Free]
  /\ rx = [u \in Users |-> 0] /\ base = [u \in Users |-> 0]
  /\ received = [u \in Users |-> 0]
  /\ hwUser = [h \in Hw |-> NoUser] /\ numFree = NumHw
  /\ rules = {} /\ hwCnt = [h \in Hw |-> 0]
  /\ job = [t \in Threads |-> Idle]
  /\ crashed = FALSE

Of(p) == {s \in table : Info[s].port = p}

(* A thread begins something new. *)
Begins(t) == ~crashed /\ job[t] = Idle

(* ... a command, on a port the master is not busy with. *)
Commands(p) == Begins("rpc") /\ (Overlap \/ job["master"].port # p)

-----------------------------------------------------------------------------
(***************************************************************************)
(* The stream table: RPC add_stream, remove_stream, remove_all_streams.    *)
(***************************************************************************)
(* Without an entry a user id looks like a new one. *)
Entry(u, count, pr) ==
  /\ ref' = [ref EXCEPT ![u] = count]
  /\ trans' = [trans EXCEPT ![u] = 0]
  /\ proto' = [proto EXCEPT ![u] = pr]
  /\ hwId' = [hwId EXCEPT ![u] = Free]
  /\ rx' = [rx EXCEPT ![u] = 0] /\ base' = [base EXCEPT ![u] = 0]
  /\ received' = [received EXCEPT ![u] = 0]
  /\ UNCHANGED hwCnt

(* Whatever is refused here is ignored by the port. *)
RuleAddStream(s) ==
  LET u == Info[s].user IN
  IF u = NoUser \/ ~Info[s].supported THEN UNCHANGED <<userVars, cntVars>>
  ELSE IF ref[u] = 0 THEN Entry(u, 1, Info[s].proto)
  ELSE /\ ref' = IF proto[u] = Info[s].proto
                 THEN [ref EXCEPT ![u] = (@ + 1) % Wide] ELSE ref
       /\ UNCHANGED <<trans, proto, hwId, cntVars>>

AddStream(s) ==
  LET p == Info[s].port IN
  /\ Commands(p)
  /\ careful => Plain(s)
  /\ state[p] \in {"IDLE", "STREAMS"}
  /\ s \notin table
  /\ table' = table \cup {s}
  /\ state' = [state EXCEPT ![p] = "STREAMS"]
  /\ RuleAddStream(s)
  /\ UNCHANGED <<careful, mark, hwVars, job, crashed>>

(* Faulty variant: the entry goes with its first stream. *)
RuleDelStreamFirst(s) ==
  LET u == Info[s].user IN
  IF u = NoUser \/ ref[u] = 0 THEN UNCHANGED <<userVars, cntVars>>
  ELSE Entry(u, 0, "udp")

RuleDelStream(s) ==
  LET u == Info[s].user IN
  IF u = NoUser \/ ref[u] = 0 THEN UNCHANGED <<userVars, cntVars>>
  ELSE IF ref[u] = 1 THEN Entry(u, 0, "udp")
  ELSE /\ ref' = [ref EXCEPT ![u] = @ - 1]
       /\ UNCHANGED <<trans, proto, hwId, cntVars>>

TakeOut(s) ==
  LET p == Info[s].port IN
  /\ RuleDelStream(s)
  /\ table' = table \ {s}
  /\ state' = [state EXCEPT ![p] = IF Of(p) = {s} THEN "IDLE" ELSE @]

RemoveStream(s) ==
  /\ Commands(Info[s].port)
  /\ state[Info[s].port] = "STREAMS"
  /\ s \in table
  /\ TakeOut(s)
  /\ UNCHANGED <<careful, mark, hwVars, job, crashed>>

Begin(t, o, p, streams) == job' = [job EXCEPT ![t] = [op |-> o, port |-> p, todo |-> streams]]

Doing(t, ops, s) ==
  /\ ~crashed
  /\ job[t].op \in ops
  /\ s \in job[t].todo

Next1(t, s) == job' = [job EXCEPT ![t].todo = @ \ {s}]

Done(t, ops) ==
  /\ ~crashed
  /\ job[t].op \in ops
  /\ job[t].todo = {}
  /\ job' = [job EXCEPT ![t] = Idle]

RemoveAllStreams(p) ==
  /\ Commands(p)
  /\ state[p] = "STREAMS"
  /\ Begin("rpc", "remove", p, Of(p))
  /\ UNCHANGED <<careful, portVars, userVars, cntVars, hwVars, crashed>>

RemoveNext(s) ==
  /\ Doing("rpc", {"remove"}, s)
  /\ TakeOut(s)
  /\ Next1("rpc", s)
  /\ UNCHANGED <<careful, mark, hwVars, crashed>>

-----------------------------------------------------------------------------
(***************************************************************************)
(* start_traffic and validate: the compiler starts the enabled streams one *)
(* by one, in the order of a hash table, and ignores the result.           *)
(***************************************************************************)
FreeHw == {h \in Hw : hwUser[h] = NoUser}

(* Faulty variant: the id is taken but not entered in the map. *)
RuleStartStreamUnmapped(s) ==
  LET u == Info[s].user IN
  /\ u # NoUser => trans' = [trans EXCEPT ![u] = @ + 1]
  /\ IF u = NoUser \/ trans[u] # 0 \/ FreeHw = {}
     THEN hwId' = hwId /\ mark' = IF u = NoUser THEN mark ELSE [mark EXCEPT ![s] = hwId[u]]
     ELSE /\ hwId' = [hwId EXCEPT ![u] = Min(FreeHw)]
          /\ mark' = [mark EXCEPT ![s] = Min(FreeHw)]
  /\ u = NoUser => UNCHANGED trans
  /\ UNCHANGED hwVars

(***************************************************************************)
(* With no free hardware id the stream is left unmarked and uncounted; a   *)
(* user id without an entry still takes a hardware id.                     *)
(***************************************************************************)
RuleStartStream(s) ==
  LET u == Info[s].user
      h == Min(FreeHw)
  IN
  IF u = NoUser \/ ~Info[s].supported THEN UNCHANGED <<mark, trans, hwId, hwVars>>
  ELSE IF ref[u] # 0 /\ trans[u] # 0
  THEN /\ trans' = [trans EXCEPT ![u] = (@ + 1) % Wide]
       /\ mark' = [mark EXCEPT ![s] = hwId[u]]
       /\ UNCHANGED <<hwId, hwVars>>
  ELSE IF FreeHw = {} THEN UNCHANGED <<mark, trans, hwId, hwVars>>
  ELSE /\ IF ref[u] # 0 /\ hwId[u] = Free
          THEN /\ hwId' = [hwId EXCEPT ![u] = h]
               /\ trans' = [trans EXCEPT ![u] = (@ + 1) % Wide]
          ELSE UNCHANGED <<hwId, trans>>
       /\ mark' = [mark EXCEPT ![s] = IF ref[u] = 0 THEN Free ELSE hwId'[u]]
       /\ hwUser' = [hwUser EXCEPT ![h] = u]
       /\ numFree' = numFree - 1
       /\ rules' = rules \cup {h}

(***************************************************************************)
(* What is started and never stopped, or stopped and never started, adds   *)
(* up, and so does the base: the model explores up to these bounds.        *)
(***************************************************************************)
WithinBounds ==
  \A u \in Users :
    /\ trans[u] \in 0 .. MaxStarts \cup Wide - MaxStarts .. Wide - 1
    /\ base[u] <= PktBound

CompileAll(p, o) ==
  /\ WithinBounds
  /\ Begin("rpc", o, p, {s \in Of(p) : Info[s].enabled})

StartTraffic(p) ==
  /\ Commands(p)
  /\ state[p] = "STREAMS"
  /\ CompileAll(p, "start")
  /\ UNCHANGED <<careful, portVars, userVars, cntVars, hwVars, crashed>>

(* Accepted in every state; the streams it starts are never stopped. *)
Validate(p) ==
  /\ Commands(p)
  /\ ~careful
  /\ Of(p) # {}
  /\ CompileAll(p, "validate")
  /\ UNCHANGED <<careful, portVars, userVars, cntVars, hwVars, crashed>>

(* An exception ends the command; what was started before stays started. *)
CompileNext(s) ==
  /\ Doing("rpc", {"start", "validate"}, s)
  /\ RuleStartStream(s)
  /\ IF Info[s].throws THEN job' = [job EXCEPT !["rpc"] = Idle] ELSE Next1("rpc", s)
  /\ UNCHANGED <<careful, state, table, ref, proto, cntVars, crashed>>

CompileDone ==
  /\ Done("rpc", {"start", "validate"})
  /\ state' = IF job["rpc"].op = "start"
              THEN [state EXCEPT ![job["rpc"].port] = "TX"] ELSE state
  /\ UNCHANGED <<careful, table, mark, userVars, cntVars, hwVars, crashed>>

-----------------------------------------------------------------------------
(***************************************************************************)
(* common_port_stop_actions, by a stop command or, at the end of a run, on *)
(* the master thread.  It walks over the whole table.                      *)
(***************************************************************************)
StopBegin(t, p) ==
  /\ state[p] = "TX"
  /\ state' = [state EXCEPT ![p] = "STREAMS"]
  /\ Begin(t, "stop", p, Of(p))
  /\ UNCHANGED <<careful, table, mark, userVars, cntVars, hwVars, crashed>>

StopTraffic(p) == Commands(p) /\ StopBegin("rpc", p)

RunFinished(p) ==
  /\ Begins("master")
  /\ Overlap \/ job["rpc"].port # p
  /\ StopBegin("master", p)

(***************************************************************************)
(* What the last read of a counter returns.  get_rx_stats stores it at     *)
(* stats[index], but stop_stream passes the address of one variable: for   *)
(* any index but 0 the variable keeps what happened to be in it, and the   *)
(* driver takes its reference value from the wrong slot as well.           *)
(***************************************************************************)
LastRead(h)    == IF h = 0 THEN {hwCnt[h]} ELSE 0 .. PktBound
LeftInCount(h) == IF h = 0 THEN {0} ELSE 0 .. PktBound

(* Faulty variants: the slot is not given back; the id is released early. *)
RuleStopStreamKeeps(s) ==
  LET u == Info[s].user IN
  /\ trans' = IF u = NoUser THEN trans ELSE [trans EXCEPT ![u] = (@ - 1) % Wide]
  /\ hwId' = IF u = NoUser \/ trans[u] # 1 THEN hwId ELSE [hwId EXCEPT ![u] = Free]
  /\ UNCHANGED <<rx, base, hwCnt, hwVars>>

RuleStopStreamEarly(s) ==
  LET u == Info[s].user
      h == hwId[u]
  IN
  IF u = NoUser \/ h = Free THEN UNCHANGED <<trans, hwId, rx, base, hwCnt, hwVars>>
  ELSE /\ trans' = [trans EXCEPT ![u] = (@ - 1) % Wide]
       /\ hwId' = [hwId EXCEPT ![u] = Free]
       /\ hwUser' = [hwUser EXCEPT ![h] = NoUser]
       /\ numFree' = numFree + 1 /\ rules' = rules \ {h}
       /\ hwCnt' = [hwCnt EXCEPT ![h] = 0]
       /\ UNCHANGED <<rx, base>>

(***************************************************************************)
(* Only the count that reaches zero gives the hardware id back: unmap      *)
(* first moves the counter into the base, then the last value is read.     *)
(***************************************************************************)
RuleStopStream(s) ==
  LET u == Info[s].user
      left == (trans[u] - 1) % Wide
      h == hwId[u]
  IN
  IF u = NoUser \/ ref[u] = 0 THEN UNCHANGED <<trans, hwId, rx, base, hwCnt, hwVars>>
  ELSE /\ trans' = [trans EXCEPT ![u] = left]
       /\ IF left # 0 THEN UNCHANGED <<hwId, rx, base, hwCnt, hwVars>>
          ELSE /\ hwId' = [hwId EXCEPT ![u] = Free]
               /\ base' = [base EXCEPT ![u] = @ + rx[u]]
               /\ IF h = Free
                  THEN rx' = [rx EXCEPT ![u] = 0] /\ UNCHANGED <<hwCnt, hwVars>>
                  ELSE /\ \E v \in LastRead(h) : rx' = [rx EXCEPT ![u] = v]
                       /\ \E v \in LeftInCount(h) : hwCnt' = [hwCnt EXCEPT ![h] = v]
                       /\ hwUser' = [hwUser EXCEPT ![h] = NoUser]
                       /\ numFree' = numFree + 1
                       /\ rules' = rules \ {h}

StopNext(t, s) ==
  /\ Doing(t, {"stop"}, s)
  /\ RuleStopStream(s)
  /\ Next1(t, s)
  /\ mark' = [mark EXCEPT ![s] = Free]
  /\ UNCHANGED <<careful, state, table, ref, proto, received, crashed>>

(* The commands that end without a change of the port's state. *)
LoopDone(t) ==
  /\ Done(t, {"stop", "remove"})
  /\ UNCHANGED <<careful, portVars, userVars, cntVars, hwVars, crashed>>

-----------------------------------------------------------------------------
(* The card receives a packet that a rule selects. *)
Packet(h) ==
  /\ ~crashed
  /\ h \in rules
  /\ hwUser[h] \in Users
  /\ received[hwUser[h]] < PktBound /\ hwCnt[h] < PktBound
  /\ hwCnt' = [hwCnt EXCEPT ![h] = @ + 1]
  /\ received' = [received EXCEPT ![hwUser[h]] = @ + 1]
  /\ UNCHANGED <<careful, portVars, userVars, rx, base, hwVars, job, crashed>>

(* The entry dump_json looks up for a counter that is not zero. *)
HasEntry(h) == hwUser[h] # NoUser /\ ref[hwUser[h]] # 0

(* dump_json, by the master twice a second and by publish_now. *)
DumpJson ==
  /\ ~crashed
  /\ \E t \in Threads : job[t] = Idle
  /\ LET counted == {h \in Hw : hwCnt[h] # 0} IN
       IF \A h \in counted : HasEntry(h)
       THEN /\ rx' = [u \in Users |->
                        LET mine == {h \in counted : hwUser[h] = u} IN
                        IF mine = {} THEN rx[u] ELSE hwCnt[Max(mine)]]
            /\ UNCHANGED crashed
       ELSE crashed' = TRUE /\ UNCHANGED rx
  /\ UNCHANGED <<careful, portVars, userVars, base, hwCnt, received, hwVars, job>>

RpcStep ==
  \/ \E s \in Streams : AddStream(s) \/ RemoveStream(s) \/ RemoveNext(s) \/ CompileNext(s)
  \/ \E p \in Ports : RemoveAllStreams(p) \/ StartTraffic(p) \/ Validate(p) \/ StopTraffic(p)
  \/ CompileDone

Next ==
  \/ RpcStep
  \/ \E p \in Ports : RunFinished(p)
  \/ \E t \in Threads : LoopDone(t) \/ \E s \in Streams : StopNext(t, s)
  \/ \E h \in Hw : Packet(h)
  \/ DumpJson

Spec == Init /\ [][Next]_vars

-----------------------------------------------------------------------------
(***************************************************************************)
(* Properties.                                                             *)
(***************************************************************************)

(* Stream s has been started for its user id and not yet stopped. *)
Started(s) ==
  LET p == Info[s].port
      In(t, o) == job[t].op = o /\ job[t].port = p
  IN
  /\ s \in table /\ Info[s].user # NoUser
  /\ \/ state[p] = "TX"
     \/ In("rpc", "start") /\ s \notin job["rpc"].todo
     \/ \E t \in Threads : In(t, "stop") /\ s \in job[t].todo

WithUser(u, S) == {s \in S : Info[s].user = u}
StartedOf(u) == {s \in WithUser(u, Streams) : Started(s)}

(* The counts stay within a byte, the maps within their ranges. *)
TypeOK ==
  /\ careful \in BOOLEAN /\ crashed \in BOOLEAN
  /\ state \in [Ports -> {"IDLE", "STREAMS", "TX"}]
  /\ table \subseteq Streams
  /\ mark \in [Streams -> Hw \cup {Free}]
  /\ ref \in [Users -> 0 .. Wide - 1] /\ trans \in [Users -> 0 .. Wide - 1]
  /\ proto \in [Users -> {"udp", "tcp"}]
  /\ hwId \in [Users -> Hw \cup {Free}]
  /\ rx \in [Users -> Nat] /\ base \in [Users -> Nat] /\ received \in [Users -> Nat]
  /\ hwUser \in [Hw -> Users \cup {NoUser}] /\ numFree \in 0 .. NumHw
  /\ rules \subseteq Hw /\ hwCnt \in [Hw -> Nat]
  /\ job \in [Threads -> [op : {"idle", "remove", "start", "validate", "stop"},
                          port : Ports \cup {NoPort}, todo : SUBSET Streams]]

(***************************************************************************)
(* Whatever the clients do, and however loops on different ports           *)
(* interleave, a user id that holds a hardware id is the one the card's    *)
(* counter is booked on: no two user ids count into each other.  The free  *)
(* count and the rules in the card agree with the map.                     *)
(***************************************************************************)
HwIdsExclusive ==
  /\ \A u \in Users : ref[u] # 0 /\ hwId[u] # Free => hwUser[hwId[u]] = u
  /\ numFree = Cardinality(FreeHw)
  /\ rules = Hw \ FreeHw

(***************************************************************************)
(* The maps of CFlowStatRuleMgr stay in their ranges and consistent with   *)
(* each other and with the card, for every client.                         *)
(***************************************************************************)
MapsAgree == TypeOK /\ HwIdsExclusive

(***************************************************************************)
(* For careful clients m_trans_ref_count is the number of streams between  *)
(* start_stream and stop_stream, over all ports, and a hardware id is      *)
(* leased exactly while that number is not zero: none leaks, and none is   *)
(* taken from a stream that still transmits.                               *)
(***************************************************************************)
LeasedWhileStarted ==
  careful =>
    /\ \A u \in Users : trans[u] = Cardinality(StartedOf(u))
    /\ \A u \in Users : hwId[u] # Free <=> StartedOf(u) # {}
    /\ \A h \in Hw : hwUser[h] # NoUser => hwId[hwUser[h]] = h

(***************************************************************************)
(* For careful clients the packets of every started stream carry the       *)
(* hardware id its user id holds now, also after other streams of that     *)
(* user id were stopped and started on another port: the comment "can't    *)
(* fail if we got here" in start_stream.                                   *)
(***************************************************************************)
MarkedWithOwnId ==
  careful =>
    \A u \in Users : \A s \in StartedOf(u) : mark[s] # Free /\ mark[s] = hwId[u]

(***************************************************************************)
(* For careful clients m_ref_count is the number of streams with the user  *)
(* id, and the entry that dump_json dereferences for a counter that is not *)
(* zero exists.  Only hardware id 0 can promise that: see LastRead.        *)
(***************************************************************************)
EntryWhileCounted ==
  careful =>
    /\ \A u \in Users : ref[u] = Cardinality(WithUser(u, table))
    /\ hwCnt[0] # 0 => HasEntry(0)

(***************************************************************************)
(* No more packets are reported than were received: m_rx_counter is        *)
(* commented as the packets "since stream start", m_rx_counter_base as     *)
(* those "before stream start".                                            *)
(***************************************************************************)
ReportedWereReceived ==
  careful => \A u \in Users : ref[u] # 0 => rx[u] + base[u] <= received[u]

=============================================================================
