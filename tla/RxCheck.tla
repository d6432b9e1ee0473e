------------------------------ MODULE RxCheck ------------------------------
(***************************************************************************)
(* RxCheckManager (rx_check.cpp): the receiver follows sampled flows of    *)
(* the stateful mode through the device under test and reports packets     *)
(* that were dropped, duplicated or reordered.  Every packet carries the   *)
(* flow, its direction, its index and the number of packets of that        *)
(* direction; a flow that is complete and clean leaves the table at once,  *)
(* any other one when its aging timer fires.                               *)
(*                                                                         *)
(* The receiver is one thread.  Around it, the network loses, damages,     *)
(* duplicates and reorders packets, and takes its time.  The timers are    *)
(* those of Deadlines, whose now is m_cur_time.                            *)
(*                                                                         *)
(* The counters of CRxCheckFlowTableStats are kept per flow: kinds of      *)
(* errors as a set, drops as a number.  The length of a direction is the   *)
(* same in all its packets, so m_err_flow_length_changed stays 0.          *)
(***************************************************************************)
EXTENDS Deadlines, FiniteSets

CONSTANTS
  Size,         \* Size[f][d]: m_flow_size of direction d of flow f, 0 if there is none
  Aging,        \* max(m_aging_sec, 5), in ticks of the clock
  HandleEvery,  \* the wheel is looked at every 256 lookups
  MaxTime,      \* bound: the clock stops here
  MaxFaults     \* bound on lost, damaged and duplicated packets

Flows == Handles

Dirs == {0, 1}

ASSUME RxAssumption ==
  /\ Size \in [Flows -> [Dirs -> Nat]]
  /\ {Aging, HandleEvery, MaxTime} \subseteq Nat \ {0}
  /\ MaxFaults \in Nat
  /\ \A t \in 1 .. MaxTime : t + Aging \in Times

VARIABLES
  ft,       \* m_ft: the object of a flow, or NoFlow
  lookups,  \* m_lookup, modulo HandleEvery
  errs,     \* the kinds of errors counted for a flow
  drops,    \* m_err_drop, the part a flow contributed
  clock,    \* now_sec()
  stopped,  \* the receiver has left its loop
  net,      \* net[p]: copies of packet p under way
  hist      \* history: the packets handled, lost and duplicated, and the
            \* flows that were reordered, aged too early or drained

flowVars == <<ft, lookups, errs, drops>>
envVars  == <<clock, stopped, net, hist>>
vars     == <<dvars, flowVars, envVars>>

NoFlow == [both |-> FALSE]

InDirection(f, d) == [flow : {f}, dir : {d}, id : 0 .. Size[f][d] - 1]

Packets == UNION {InDirection(f, 0) \cup InDirection(f, 1) : f \in Flows}

Of(f) == {p \in Packets : p.flow = f}

Init ==
  /\ DInit
  /\ ft = [f \in Flows |-> NoFlow]
  /\ lookups = 0
  /\ errs = [f \in Flows |-> {}]
  /\ drops = [f \in Flows |-> 0]
  /\ clock = 1
  /\ stopped = FALSE
  /\ net = [p \in Packets |-> 1]
  /\ hist = [seen |-> {}, lost |-> {}, dup |-> {},
             reordered |-> {}, late |-> {}, drained |-> {}]
-----------------------------------------------------------------------------
(* The network and the clock. *)

UnderWay(f) == {p \in Of(f) : net[p] > 0}

FaultLeft == Cardinality(hist.lost) + Cardinality(hist.dup) < MaxFaults

Tick ==
  /\ clock < MaxTime
  /\ clock' = clock + 1
  /\ UNCHANGED <<dvars, flowVars, stopped, net, hist>>

Lose(p) ==
  /\ net[p] > 0 /\ p \notin hist.dup
  /\ FaultLeft
  /\ net' = [net EXCEPT ![p] = 0]
  /\ hist' = [hist EXCEPT !.lost = @ \cup {p}]
  /\ UNCHANGED <<dvars, flowVars, clock, stopped>>

Duplicate(p) ==
  /\ net[p] > 0 /\ p \notin hist.dup
  /\ FaultLeft
  /\ net' = [net EXCEPT ![p] = 2]
  /\ hist' = [hist EXCEPT !.dup = @ \cup {p}]
  /\ UNCHANGED <<dvars, flowVars, clock, stopped>>

(* Packet p arrives before an earlier one of its direction. *)
Overtakes(p) == \E q \in UnderWay(p.flow) : q.dir = p.dir /\ q.id < p.id

Arrives(p) ==
  /\ net[p] > 0
  /\ net' = [net EXCEPT ![p] = @ - 1]
  /\ hist' = [hist EXCEPT !.seen = @ \cup {p},
                          !.reordered = IF Overtakes(p) THEN @ \cup {p.flow} ELSE @]
-----------------------------------------------------------------------------
(* CRxCheckFlow and its two directions. *)

Unseen == [size |-> 0, pkts |-> 0, seq |-> 0]

(* Mutant: the first packet is expected again. *)
FifExpectedAgain(size) == [size |-> size, pkts |-> 1, seq |-> 0]

set_fif_seen(size) == [size |-> size, pkts |-> 1, seq |-> 1]

is_fif_seen(dir) == dir.pkts > 0

NewFlow(p) ==
  [both |-> Size[p.flow][0] > 0 /\ Size[p.flow][1] > 0,
   dir  |-> [d \in Dirs |-> IF d = p.dir THEN set_fif_seen(Size[p.flow][d]) ELSE Unseen],
   oo   |-> p.id # 0]

(* Mutant: a flow that is expected in both directions ends with the first. *)
IgnoresOtherDir(lf) ==
  /\ \A d \in Dirs : lf.dir[d].pkts = lf.dir[d].size
  /\ ~lf.oo

is_all_pkts_seen(lf) ==
  /\ \A d \in Dirs : lf.dir[d].pkts = lf.dir[d].size
  /\ Cardinality({d \in Dirs : lf.dir[d].size > 0}) = IF lf.both THEN 2 ELSE 1
  /\ ~lf.oo

(* The error of packet id where seq was expected. *)
OrderError(seq, id) ==
  CASE id = seq     -> {}
    [] id = seq - 1 -> {"oo_dup"}
    [] id > seq     -> {"oo_late"}
    [] OTHER        -> {"oo_early"}

(* Mutant: a packet out of order is not counted. *)
NextInDirUncounted(dir, id) ==
  [dir EXCEPT !.pkts = IF id = dir.seq THEN @ + 1 ELSE @, !.seq = id + 1]

NextInDir(dir, id) == [dir EXCEPT !.pkts = @ + 1, !.seq = id + 1]

(* What handle_packet makes of the flow object, and the errors it counts. *)
Updated(p) ==
  LET lf  == ft[p.flow]
      dir == lf.dir[p.dir]
      bad == OrderError(dir.seq, p.id)
  IN IF lf = NoFlow             THEN NewFlow(p)
     ELSE IF ~is_fif_seen(dir)  THEN [lf EXCEPT !.dir[p.dir] = set_fif_seen(Size[p.flow][p.dir])]
     ELSE IF p.id = 0           THEN [lf EXCEPT !.dir[p.dir].pkts = @ + 1, !.oo = TRUE]
     ELSE [lf EXCEPT !.dir[p.dir] = NextInDir(@, p.id), !.oo = @ \/ bad # {}]

Counted(p) ==
  LET lf  == ft[p.flow]
      dir == lf.dir[p.dir]
  IN IF lf = NoFlow             THEN IF p.id = 0 THEN {} ELSE {"open_with_no_fif_pkt"}
     ELSE IF ~is_fif_seen(dir)  THEN {}
     ELSE IF p.id = 0           THEN {"fif_seen_twice"}
     ELSE OrderError(dir.seq, p.id)

(* RxCheckManager::handle_packet: the flow is updated and its timer started
   again, or the complete flow is removed and its timer stopped; from time to
   time a pass over the wheel follows. *)
handle_packet(p) ==
  LET f  == p.flow
      lf == Updated(p)
  IN /\ phase = "idle" /\ ~stopped
     /\ Arrives(p)
     /\ errs' = [errs EXCEPT ![f] = @ \cup Counted(p)]
     /\ now' = clock
     /\ IF is_all_pkts_seen(lf)
        THEN ft' = [ft EXCEPT ![f] = NoFlow] /\ deadline' = [deadline EXCEPT ![f] = Never]
        ELSE ft' = [ft EXCEPT ![f] = lf] /\ deadline' = [deadline EXCEPT ![f] = clock + Aging]
     /\ lookups' = (lookups + 1) % HandleEvery
     /\ phase' = IF lookups' = 0 THEN "try" ELSE "idle"
     /\ UNCHANGED <<drops, clock, stopped>>

(* The early returns of handle_packet: a header without its magic number or
   with an impossible index is counted and dropped. *)
handle_damaged(p) ==
  /\ phase = "idle" /\ ~stopped
  /\ net[p] > 0 /\ p \notin hist.dup
  /\ FaultLeft
  /\ net' = [net EXCEPT ![p] = 0]
  /\ hist' = [hist EXCEPT !.lost = @ \cup {p}]
  /\ \E e \in {"no_magic", "wrong_pkt_id"} : errs' = [errs EXCEPT ![p.flow] = @ \cup {e}]
  /\ UNCHANGED <<dvars, ft, lookups, drops, clock, stopped>>

Missing(lf) ==
  LET expected == lf.dir[0].size + lf.dir[1].size
      got      == lf.dir[0].pkts + lf.dir[1].pkts
  IN IF expected > got THEN expected - got ELSE 0

(* Mutant: the flow stays in the table when its timer has fired. *)
AgeNotRemoved(f) ==
  /\ DFire(f)
  /\ errs' = [errs EXCEPT ![f] = @ \cup {"aged"}]
  /\ drops' = [drops EXCEPT ![f] = @ + Missing(ft[f])]
  /\ hist' = [hist EXCEPT !.late = @ \cup {f}]
  /\ UNCHANGED <<ft, lookups, clock, stopped, net>>

(* flow_aging_callback and on_flow_end: an error unless the wheel is drained. *)
Age(f) ==
  /\ DFire(f)
  /\ ft' = [ft EXCEPT ![f] = NoFlow]
  /\ IF phase = "drain"
     THEN /\ hist' = [hist EXCEPT !.drained = @ \cup {f}]
          /\ UNCHANGED <<errs, drops>>
     ELSE /\ errs' = [errs EXCEPT ![f] = @ \cup {"aged"}]
          /\ drops' = [drops EXCEPT ![f] = @ + Missing(ft[f])]
          /\ hist' = [hist EXCEPT !.late = IF UnderWay(f) # {} THEN @ \cup {f} ELSE @]
  /\ UNCHANGED <<lookups, clock, stopped, net>>

EndPass ==
  /\ DEnd
  /\ UNCHANGED <<flowVars, envVars>>

(* The latency thread ends: tw_drain. *)
tw_drain ==
  /\ ~stopped
  /\ DDrain
  /\ stopped' = TRUE
  /\ UNCHANGED <<flowVars, clock, net, hist>>

Next ==
  \/ Tick
  \/ \E p \in Packets : Lose(p) \/ Duplicate(p) \/ handle_packet(p) \/ handle_damaged(p)
  \/ \E f \in Flows : Age(f)
  \/ EndPass
  \/ tw_drain

Spec == Init /\ [][Next]_vars
-----------------------------------------------------------------------------
ErrorKinds ==
  {"no_magic", "wrong_pkt_id", "open_with_no_fif_pkt", "fif_seen_twice",
   "oo_dup", "oo_late", "oo_early", "aged"}

Directions == [size : Nat, pkts : Nat, seq : Nat]

TypeOK ==
  /\ deadline \in [Flows -> Times \cup {Never}]
  /\ phase \in {"idle", "try", "drain"}
  /\ ft \in [Flows -> {NoFlow} \cup [both : BOOLEAN, dir : [Dirs -> Directions], oo : BOOLEAN]]
  /\ lookups \in 0 .. HandleEvery - 1
  /\ errs \in [Flows -> SUBSET ErrorKinds]
  /\ drops \in [Flows -> Nat]
  /\ net \in [Packets -> 0 .. 2]

(* A flow is in the table exactly while its aging timer runs: without a timer
   it would stay for ever, and a timer without a flow would call back into
   freed memory (handle_packet, on_flow_end, flow_aging_callback). *)
FlowHasTimer == \A f \in Flows : ft[f] # NoFlow <=> deadline[f] # Never

Clean(f) ==
  /\ Of(f) \cap (hist.lost \cup hist.dup) = {}
  /\ f \notin hist.reordered \cup hist.late

(* The flow table and its timers are sound (CRxCheckFlowTableMap and
   m_aging_timer_handle). *)
TableSound == TypeOK /\ FlowHasTimer

(* No false alarms: a flow whose packets all arrive once, in the order of
   their direction and in time, causes no error and leaves the table with its
   last packet, not by aging; whatever happens to other flows and however the
   two directions interleave (handle_packet, is_all_pkts_seen). *)
NoFalseAlarm ==
  \A f \in Flows :
    Clean(f) =>
      /\ errs[f] = {} /\ drops[f] = 0
      /\ UnderWay(f) = {} => ft[f] = NoFlow

(* The flow is over for the receiver, and not because the test was stopped. *)
Over(f) ==
  /\ UnderWay(f) = {} /\ ft[f] = NoFlow
  /\ f \notin hist.drained
  /\ Of(f) \cap hist.seen # {}

(* What the receiver cannot tell from a clean flow: a duplicate that stands in
   for a lost packet, and every packet coming twice. *)
Masked(f) ==
  \/ Of(f) \subseteq hist.dup
  \/ Of(f) \cap hist.dup # {} /\ Of(f) \cap hist.lost # {}

(* Faults of the device are reported: once a flow is over, a packet that was
   lost, duplicated or reordered has been counted as some error, unless two
   faults mask each other (handle_packet, is_all_pkts_seen, on_flow_end). *)
FaultsAreReported ==
  \A f \in Flows : Over(f) /\ ~Clean(f) /\ ~Masked(f) => errs[f] # {}

(* Without duplicates and aging ahead of time, the drops counted for a flow
   are packets that were lost. *)
DropsAreLosses ==
  \A f \in Flows :
    Of(f) \cap hist.dup = {} /\ f \notin hist.late
      => drops[f] <= Cardinality(Of(f) \cap hist.lost)

(* rx_check.h explains m_err_oo_late as "early packet ,expect 7 got 6", and the
   case "miss packet ,expect 1 got 2" as m_err_oo_early: a flow that only lost
   packets has none that come late. *)
GapsCountAsEarly ==
  \A f \in Flows :
    /\ Of(f) \cap hist.dup = {}
    /\ f \notin hist.reordered \cup hist.late
    => "oo_late" \notin errs[f]
=============================================================================
