---------------------------- MODULE RxCheck_proofs ----------------------------
(***************************************************************************)
(* Proofs about RxCheck for any flows, any sizes of their directions, any  *)
(* aging time and any faults of the network.                               *)
(*                                                                         *)
(* Three arguments, each about one flow at a time.  A clean flow is        *)
(* followed by two numbers, how many packets of each direction have come:  *)
(* they say what is under way and what its object holds.  One without      *)
(* duplicates is followed by sets: each packet is under way, seen or lost, *)
(* the object counts the seen ones.  A flow without a counted error is     *)
(* followed by its arrivals: as many as the object counts, and full rounds *)
(* of the flow.                                                            *)
(***************************************************************************)
EXTENDS RxCheck, FiniteSetTheorems, TLAPS

FlowObject == [both : BOOLEAN, dir : [Dirs -> Directions], oo : BOOLEAN]

(* Types of what TypeOK leaves out, and the end of the receiver's loop.    *)
Env ==
  /\ clock \in 1 .. MaxTime /\ stopped \in BOOLEAN /\ now \in Nat
  /\ hist \in [seen : SUBSET Packets, lost : SUBSET Packets, dup : SUBSET Packets,
               reordered : SUBSET Flows, late : SUBSET Flows, drained : SUBSET Flows]
  /\ phase = "drain" => stopped
  /\ \A f \in hist.drained : stopped /\ ft[f] = NoFlow

BothWays(f) == Size[f][0] > 0 /\ Size[f][1] > 0

-----------------------------------------------------------------------------
(* The first k[d] packets of every direction d have come, in their order.  *)
Counts(f) == {k \in [Dirs -> Nat] : \A d \in Dirs : k[d] <= Size[f][d]}

InDir(n, size) == IF n = 0 THEN Unseen ELSE [size |-> size, pkts |-> n, seq |-> n]

Following(f, k) ==
  [both |-> BothWays(f), dir |-> [d \in Dirs |-> InDir(k[d], Size[f][d])], oo |-> FALSE]

Untouched(k) == \A d \in Dirs : k[d] = 0

Complete(f, k) == \A d \in Dirs : k[d] = Size[f][d]

InOrder(f, k) ==
  /\ \A p \in Of(f) : net[p] = IF p.id < k[p.dir] THEN 0 ELSE 1
  /\ ft[f] = IF Untouched(k) \/ Complete(f, k) THEN NoFlow ELSE Following(f, k)

CleanInv(f) ==
  Clean(f) =>
    /\ errs[f] = {} /\ drops[f] = 0
    /\ f \notin hist.drained => \E k \in Counts(f) : InOrder(f, k)

-----------------------------------------------------------------------------
(* Every packet of a flow without duplicates is at one place.              *)
SeenIn(f, d) == InDirection(f, d) \cap hist.seen
LostIn(f, d) == InDirection(f, d) \cap hist.lost

OnePlace(f) ==
  /\ \A p \in Of(f) : net[p] = IF p \in hist.seen \cup hist.lost THEN 0 ELSE 1
  /\ Of(f) \cap hist.seen \cap hist.lost = {}

(* The object of the flow counts the packets that came.                    *)
Tallies(f) ==
  /\ ft[f].both = BothWays(f)
  /\ \A d \in Dirs :
       /\ ft[f].dir[d].pkts = Cardinality(SeenIn(f, d))
       /\ ft[f].dir[d].size = IF SeenIn(f, d) = {} THEN 0 ELSE Size[f][d]

Losses(f) == Of(f) \cap hist.lost

LossInv(f) ==
  Of(f) \cap hist.dup = {} /\ f \notin hist.late =>
    /\ OnePlace(f)
    /\ \/ ft[f] # NoFlow /\ Tallies(f) /\ drops[f] = 0
       \/ ft[f] = NoFlow /\ drops[f] = 0 /\ (Of(f) \cap hist.seen = {} \/ f \in hist.drained)
       \/ ft[f] = NoFlow /\ UnderWay(f) = {} /\ drops[f] <= Cardinality(Losses(f))

RxInv ==
  /\ TypeOK /\ FlowHasTimer /\ Env
  /\ \A f \in Flows : CleanInv(f) /\ LossInv(f)

-----------------------------------------------------------------------------
(***************************************************************************)
(* Packets and flow objects.                                               *)
(***************************************************************************)
LEMMA SizeType == \A f \in Flows, d \in Dirs : Size[f][d] \in Nat
BY RxAssumption

LEMMA PacketFacts ==
  ASSUME NEW p \in Packets
  PROVE  /\ p.flow \in Flows /\ p.dir \in Dirs /\ p.id \in Nat
         /\ p.id < Size[p.flow][p.dir] /\ Size[p.flow][p.dir] \in Nat
         /\ p = [flow |-> p.flow, dir |-> p.dir, id |-> p.id]
         /\ p \in Of(p.flow)
<1>1. PICK f \in Flows, d \in Dirs : p \in InDirection(f, d)
  BY DEF Packets, Dirs
<1>2. p.flow = f /\ p.dir = d /\ p.id \in 0 .. Size[f][d] - 1
      /\ p = [flow |-> p.flow, dir |-> p.dir, id |-> p.id]
  BY <1>1 DEF InDirection
<1> QED BY <1>2, SizeType DEF Of

LEMMA PacketMade ==
  ASSUME NEW f \in Flows, NEW d \in Dirs, NEW i \in Nat, i < Size[f][d]
  PROVE  [flow |-> f, dir |-> d, id |-> i] \in Of(f)
<1> DEFINE p == [flow |-> f, dir |-> d, id |-> i]
<1>1. i \in 0 .. Size[f][d] - 1
  BY SizeType
<1>2. p \in InDirection(f, d)
  BY <1>1 DEF InDirection
<1>3. p \in Packets
  BY <1>2 DEF Packets, Dirs
<1> QED BY <1>3 DEF Of

LEMMA OfFacts ==
  ASSUME NEW f \in Flows, NEW p \in Of(f)
  PROVE  /\ p \in Packets /\ p.flow = f /\ p.dir \in Dirs /\ p.id \in Nat
         /\ p.id < Size[f][p.dir]
BY PacketFacts DEF Of

LEMMA OtherFlow ==
  ASSUME NEW p \in Packets, NEW f \in Flows, f # p.flow
  PROVE  p \notin Of(f)
BY DEF Of

LEMMA ObjectIsNoNoFlow ==
  ASSUME NEW lf \in FlowObject
  PROVE  lf # NoFlow
<1>1. "oo" \in DOMAIN lf
  BY DEF FlowObject
<1>2. "oo" \notin DOMAIN NoFlow
  BY DEF NoFlow
<1> QED BY <1>1, <1>2

LEMMA ObjectType ==
  ASSUME NEW lf \in FlowObject, NEW d \in Dirs
  PROVE  /\ lf.dir[d] \in Directions /\ lf.dir[d].size \in Nat /\ lf.dir[d].pkts \in Nat
         /\ lf.dir[d].seq \in Nat
<1>1. lf.dir[d] \in Directions
  BY DEF FlowObject
<1> QED BY <1>1 DEF Directions

LEMMA FifType ==
  ASSUME NEW n \in Nat
  PROVE  set_fif_seen(n) \in Directions /\ Unseen \in Directions
BY DEF set_fif_seen, Unseen, Directions

LEMMA DirectionType ==
  ASSUME NEW x \in Directions, NEW i \in Nat
  PROVE  [x EXCEPT !.pkts = @ + 1] \in Directions /\ NextInDir(x, i) \in Directions
<1>1. x.pkts \in Nat /\ x.size \in Nat /\ x.seq \in Nat
  BY DEF Directions
<1>2. [x EXCEPT !.pkts = @ + 1] \in Directions
  BY <1>1 DEF Directions
<1>3. \A y \in Directions : [y EXCEPT !.seq = i + 1] \in Directions
  BY DEF Directions
<1>4. NextInDir(x, i) = [[x EXCEPT !.pkts = @ + 1] EXCEPT !.seq = i + 1]
  BY DEF NextInDir
<1> QED BY <1>2, <1>3, <1>4

LEMMA NewFlowType ==
  ASSUME NEW p \in Packets
  PROVE  NewFlow(p) \in FlowObject
<1>1. p.flow \in Flows /\ p.dir \in Dirs
  BY PacketFacts
<1>2. [d \in Dirs |-> IF d = p.dir THEN set_fif_seen(Size[p.flow][d]) ELSE Unseen]
        \in [Dirs -> Directions]
  BY <1>1, SizeType, FifType
<1>3. (p.id # 0) \in BOOLEAN /\ (Size[p.flow][0] > 0 /\ Size[p.flow][1] > 0) \in BOOLEAN
  OBVIOUS
<1> QED BY <1>2, <1>3, Zenon DEF NewFlow, FlowObject

LEMMA UpdatedType ==
  ASSUME TypeOK, NEW p \in Packets
  PROVE  Updated(p) \in FlowObject
<1> DEFINE f == p.flow
           d == p.dir
           lf == ft[f]
<1>1. f \in Flows /\ d \in Dirs /\ p.id \in Nat /\ Size[f][d] \in Nat
  BY PacketFacts
<1>2. lf = NoFlow \/ lf \in FlowObject
  BY <1>1 DEF TypeOK, FlowObject
<1>3. CASE lf = NoFlow
  BY <1>3, NewFlowType DEF Updated
<1>4. CASE lf \in FlowObject /\ lf # NoFlow
  <2>1. set_fif_seen(Size[f][d]) \in Directions
    BY <1>1, FifType
  <2>2. /\ [lf.dir[d] EXCEPT !.pkts = @ + 1] \in Directions
        /\ NextInDir(lf.dir[d], p.id) \in Directions
    <3>1. lf.dir[d] \in Directions
      BY <1>1, <1>4, ObjectType
    <3> QED BY <1>1, <3>1, DirectionType
  <2>3. \A x \in Directions : [lf EXCEPT !.dir[d] = x] \in FlowObject
    BY <1>1, <1>4 DEF FlowObject
  <2>4. \A lg \in FlowObject, b \in BOOLEAN : [lg EXCEPT !.oo = b] \in FlowObject
    BY DEF FlowObject
  <2> DEFINE bad == (lf.oo \/ OrderError(lf.dir[d].seq, p.id) # {})
  <2>5. bad \in BOOLEAN
    OBVIOUS
  <2>6. CASE ~is_fif_seen(lf.dir[d])
    BY <1>4, <2>1, <2>3, <2>6 DEF Updated
  <2>7. CASE is_fif_seen(lf.dir[d]) /\ p.id = 0
    <3>1. Updated(p) = [[lf EXCEPT !.dir[d] = [lf.dir[d] EXCEPT !.pkts = @ + 1]] EXCEPT !.oo = TRUE]
      BY <1>4, <2>7 DEF Updated
    <3> QED BY <2>2, <2>3, <2>4, <3>1
  <2>8. CASE is_fif_seen(lf.dir[d]) /\ p.id # 0
    <3>1. Updated(p) = [[lf EXCEPT !.dir[d] = NextInDir(lf.dir[d], p.id)] EXCEPT !.oo = bad]
      BY <1>4, <2>8 DEF Updated
    <3> HIDE DEF bad
    <3> QED BY <2>2, <2>3, <2>4, <2>5, <3>1
  <2> QED BY <2>6, <2>7, <2>8
<1> QED BY <1>2, <1>3, <1>4, ObjectIsNoNoFlow

-----------------------------------------------------------------------------
(***************************************************************************)
(* Types, timers and the end of the loop.                                  *)
(***************************************************************************)
Base == TypeOK /\ FlowHasTimer /\ Env

Hist == [seen : SUBSET Packets, lost : SUBSET Packets, dup : SUBSET Packets,
         reordered : SUBSET Flows, late : SUBSET Flows, drained : SUBSET Flows]

LEMMA HistType ==
  ASSUME NEW h \in Hist
  PROVE  /\ h.seen \in SUBSET Packets /\ h.lost \in SUBSET Packets /\ h.dup \in SUBSET Packets
         /\ h.reordered \in SUBSET Flows /\ h.late \in SUBSET Flows /\ h.drained \in SUBSET Flows
         /\ \A s \in SUBSET Packets : /\ [h EXCEPT !.seen = s] \in Hist
                                      /\ [h EXCEPT !.lost = s] \in Hist
                                      /\ [h EXCEPT !.dup = s] \in Hist
         /\ \A s \in SUBSET Flows : /\ [h EXCEPT !.reordered = s] \in Hist
                                    /\ [h EXCEPT !.late = s] \in Hist
                                    /\ [h EXCEPT !.drained = s] \in Hist
BY DEF Hist

(* What a step does to the history, field by field.                        *)
LEMMA HistStep ==
  ASSUME hist \in Hist, NEW p \in Packets, NEW f \in Flows
  PROVE  /\ hist' = [hist EXCEPT !.lost = @ \cup {p}] =>
              /\ hist' \in Hist /\ hist'.lost = hist.lost \cup {p}
              /\ hist'.seen = hist.seen /\ hist'.dup = hist.dup
              /\ hist'.reordered = hist.reordered /\ hist'.late = hist.late
              /\ hist'.drained = hist.drained
         /\ hist' = [hist EXCEPT !.dup = @ \cup {p}] =>
              /\ hist' \in Hist /\ hist'.dup = hist.dup \cup {p}
              /\ hist'.seen = hist.seen /\ hist'.lost = hist.lost
              /\ hist'.reordered = hist.reordered /\ hist'.late = hist.late
              /\ hist'.drained = hist.drained
         /\ hist' = [hist EXCEPT !.drained = @ \cup {f}] =>
              /\ hist' \in Hist /\ hist'.drained = hist.drained \cup {f}
              /\ hist'.seen = hist.seen /\ hist'.lost = hist.lost /\ hist'.dup = hist.dup
              /\ hist'.reordered = hist.reordered /\ hist'.late = hist.late
BY DEF Hist

LEMMA HistArrives ==
  ASSUME hist \in Hist, NEW p \in Packets, Arrives(p)
  PROVE  /\ hist' \in Hist /\ hist'.seen = hist.seen \cup {p}
         /\ hist'.reordered = IF Overtakes(p) THEN hist.reordered \cup {p.flow}
                              ELSE hist.reordered
         /\ hist'.lost = hist.lost /\ hist'.dup = hist.dup /\ hist'.late = hist.late
         /\ hist'.drained = hist.drained
<1> DEFINE s == hist.seen \cup {p}
           r == IF Overtakes(p) THEN hist.reordered \cup {p.flow} ELSE hist.reordered
           h == [hist EXCEPT !.seen = s]
<1>1. hist' = [h EXCEPT !.reordered = r]
  BY Zenon DEF Arrives, Hist
<1>2. s \in SUBSET Packets /\ r \in SUBSET Flows
  BY PacketFacts, HistType
<1> HIDE DEF s, r
<1>3. h \in Hist /\ h.seen = s /\ h.lost = hist.lost /\ h.dup = hist.dup
      /\ h.late = hist.late /\ h.drained = hist.drained
  BY <1>2 DEF Hist
<1> HIDE DEF h
<1>4. hist' \in Hist /\ hist'.seen = s /\ hist'.reordered = r /\ hist'.lost = hist.lost
      /\ hist'.dup = hist.dup /\ hist'.late = hist.late /\ hist'.drained = hist.drained
  BY <1>1, <1>2, <1>3 DEF Hist
<1> QED BY <1>4 DEF s, r

LEMMA HistAged ==
  ASSUME hist \in Hist, NEW f \in Flows,
         hist' = [hist EXCEPT !.late = IF UnderWay(f) # {} THEN @ \cup {f} ELSE @]
  PROVE  /\ hist' \in Hist
         /\ hist'.late = IF UnderWay(f) # {} THEN hist.late \cup {f} ELSE hist.late
         /\ hist'.seen = hist.seen /\ hist'.lost = hist.lost /\ hist'.dup = hist.dup
         /\ hist'.reordered = hist.reordered /\ hist'.drained = hist.drained
<1> DEFINE l == IF UnderWay(f) # {} THEN hist.late \cup {f} ELSE hist.late
<1>1. hist' = [hist EXCEPT !.late = l] /\ l \in SUBSET Flows
  BY HistType
<1> HIDE DEF l
<1>2. /\ hist' \in Hist /\ hist'.late = l
      /\ hist'.seen = hist.seen /\ hist'.lost = hist.lost /\ hist'.dup = hist.dup
      /\ hist'.reordered = hist.reordered /\ hist'.drained = hist.drained
  BY <1>1 DEF Hist
<1> QED BY <1>2 DEF l

LEMMA CountedType ==
  ASSUME NEW p \in Packets
  PROVE  Counted(p) \subseteq ErrorKinds
<1>1. \A a, b : OrderError(a, b) \subseteq ErrorKinds
  BY DEF OrderError, ErrorKinds
<1> QED BY <1>1 DEF Counted, ErrorKinds

LEMMA TimeFacts ==
  /\ \A t \in 1 .. MaxTime : t + Aging \in Times /\ t \in Nat
  /\ \A t \in Times : t \in Nat /\ t # Never
  /\ MaxTime \in Nat /\ MaxTime >= 1
BY RxAssumption, TimesAssumption DEF Never

LEMMA BaseInit == Init => Base
<1> SUFFICES ASSUME Init PROVE Base
  OBVIOUS
<1>1. TypeOK
  <2>1. 0 \in 0 .. HandleEvery - 1
    BY RxAssumption
  <2>2. {} \in SUBSET ErrorKinds
    OBVIOUS
  <2> QED BY <2>1, <2>2 DEF Init, DInit, TypeOK, Flows
<1>2. FlowHasTimer
  BY DEF Init, DInit, FlowHasTimer, Flows
<1>3. hist \in Hist /\ hist.drained = {}
  BY DEF Init, Hist
<1>4. clock \in 1 .. MaxTime /\ now \in Nat /\ phase # "drain"
  BY TimeFacts DEF Init, DInit
<1>5. stopped \in BOOLEAN
  BY DEF Init
<1>6. Env
  BY <1>3, <1>4, <1>5 DEF Env, Hist
<1> QED BY <1>1, <1>2, <1>6 DEF Base

LEMMA NetBase ==
  ASSUME Base, Tick \/ \E p \in Packets : Lose(p) \/ Duplicate(p) \/ handle_damaged(p)
  PROVE  Base'
<1> USE DEF Base
<1>1. CASE Tick
  <2>1. clock' \in 1 .. MaxTime
    BY <1>1, TimeFacts DEF Tick, Env
  <2> QED BY <1>1, <2>1 DEF Tick, TypeOK, FlowHasTimer, Env, dvars, flowVars
<1>2. ASSUME NEW p \in Packets, Lose(p) \/ Duplicate(p) PROVE Base'
  <2>1. net' \in [Packets -> 0 .. 2]
    BY <1>2 DEF Lose, Duplicate, TypeOK
  <2>2. hist' \in Hist /\ hist'.drained = hist.drained
    BY <1>2, HistStep DEF Lose, Duplicate, Env, Hist
  <2>3. UNCHANGED <<dvars, flowVars, clock, stopped>>
    BY <1>2 DEF Lose, Duplicate
  <2> QED BY <2>1, <2>2, <2>3 DEF TypeOK, FlowHasTimer, Env, Hist, dvars, flowVars
<1>3. ASSUME NEW p \in Packets, handle_damaged(p) PROVE Base'
  <2>1. net' \in [Packets -> 0 .. 2]
    BY <1>3 DEF handle_damaged, TypeOK
  <2>2. hist' \in Hist /\ hist'.drained = hist.drained
    BY <1>3, HistStep DEF handle_damaged, Env, Hist
  <2>3. UNCHANGED <<dvars, ft, lookups, drops, clock, stopped>>
    BY <1>3 DEF handle_damaged
  <2>4. errs' \in [Flows -> SUBSET ErrorKinds]
    <3>1. PICK e \in {"no_magic", "wrong_pkt_id"} :
                 errs' = [errs EXCEPT ![p.flow] = @ \cup {e}]
      BY <1>3 DEF handle_damaged
    <3>2. e \in ErrorKinds
      BY DEF ErrorKinds
    <3> QED BY <3>1, <3>2 DEF TypeOK
  <2> QED BY <2>1, <2>2, <2>3, <2>4 DEF TypeOK, FlowHasTimer, Env, Hist, dvars
<1> QED BY <1>1, <1>2, <1>3

LEMMA HandleBase ==
  ASSUME Base, NEW p \in Packets, handle_packet(p)
  PROVE  Base'
<1> USE DEF Base
<1> DEFINE f == p.flow
           lf == Updated(p)
<1>1. /\ phase = "idle" /\ ~stopped /\ Arrives(p)
      /\ errs' = [errs EXCEPT ![f] = @ \cup Counted(p)] /\ now' = clock
      /\ \/ ft' = [ft EXCEPT ![f] = NoFlow] /\ deadline' = [deadline EXCEPT ![f] = Never]
         \/ ft' = [ft EXCEPT ![f] = lf] /\ deadline' = [deadline EXCEPT ![f] = clock + Aging]
      /\ lookups' = (lookups + 1) % HandleEvery
      /\ phase' \in {"idle", "try"} /\ UNCHANGED <<drops, clock, stopped>>
  BY Zenon DEF handle_packet
<1>2. f \in Flows
  BY PacketFacts
<1>3. lf \in FlowObject /\ lf # NoFlow
  BY UpdatedType, ObjectIsNoNoFlow
<1> HIDE DEF lf
<1>4. clock + Aging \in Times /\ clock + Aging # Never /\ clock \in Nat
  BY TimeFacts DEF Env
<1>5. net' \in [Packets -> 0 .. 2]
  BY <1>1 DEF Arrives, TypeOK
<1>6. hist' \in Hist /\ hist'.drained = hist.drained
  BY <1>1, HistArrives DEF Env, Hist
<1>7. lookups' \in 0 .. HandleEvery - 1
  BY <1>1, RxAssumption DEF TypeOK
<1>8. errs' \in [Flows -> SUBSET ErrorKinds]
  BY <1>1, <1>2, CountedType DEF TypeOK
<1>9. /\ ft' \in [Flows -> {NoFlow} \cup FlowObject]
      /\ deadline' \in [Flows -> Times \cup {Never}]
  BY <1>1, <1>2, <1>3, <1>4 DEF TypeOK, FlowObject
<1>10. TypeOK'
  BY <1>1, <1>5, <1>7, <1>8, <1>9 DEF TypeOK, FlowObject
<1>11. FlowHasTimer'
  BY <1>1, <1>2, <1>3, <1>4 DEF FlowHasTimer, TypeOK
<1>12. Env'
  BY <1>1, <1>4, <1>6 DEF Env, Hist
<1> QED BY <1>10, <1>11, <1>12

LEMMA MissingType ==
  ASSUME NEW lf \in FlowObject
  PROVE  Missing(lf) \in Nat
<1>1. /\ lf.dir[0].size \in Nat /\ lf.dir[1].size \in Nat
      /\ lf.dir[0].pkts \in Nat /\ lf.dir[1].pkts \in Nat
  BY ObjectType DEF Dirs
<1> QED BY <1>1 DEF Missing

LEMMA AgeBase ==
  ASSUME Base, NEW f \in Flows, Age(f)
  PROVE  Base' /\ ft[f] \in FlowObject /\ ft[f] # NoFlow
<1> USE DEF Base
<1>1. /\ deadline[f] # Never /\ deadline' = [deadline EXCEPT ![f] = Never]
      /\ ft' = [ft EXCEPT ![f] = NoFlow]
      /\ UNCHANGED <<phase, now, lookups, clock, stopped, net>>
  BY DEF Age, DFire, Due
<1>2. ft[f] \in FlowObject /\ ft[f] # NoFlow
  BY <1>1 DEF FlowHasTimer, TypeOK, FlowObject
<1>3. /\ ft' \in [Flows -> {NoFlow} \cup FlowObject]
      /\ deadline' \in [Flows -> Times \cup {Never}]
  BY <1>1 DEF TypeOK, FlowObject
<1>4. FlowHasTimer'
  BY <1>1 DEF FlowHasTimer, TypeOK
<1>5. CASE phase = "drain"
  <2>1. hist' = [hist EXCEPT !.drained = @ \cup {f}] /\ UNCHANGED <<errs, drops>>
    BY <1>5 DEF Age
  <2>2. hist' \in Hist /\ hist'.drained = hist.drained \cup {f}
    <3>1. hist \in Hist
      BY DEF Env, Hist
    <3> QED BY <2>1, <3>1 DEF Hist
  <2>3. TypeOK' /\ Env'
    BY <1>1, <1>3, <1>5, <2>1, <2>2 DEF TypeOK, FlowObject, Env, Hist
  <2> QED BY <1>2, <1>4, <2>3
<1>6. CASE phase # "drain"
  <2>1. /\ errs' = [errs EXCEPT ![f] = @ \cup {"aged"}]
        /\ drops' = [drops EXCEPT ![f] = @ + Missing(ft[f])]
        /\ hist' = [hist EXCEPT !.late = IF UnderWay(f) # {} THEN @ \cup {f} ELSE @]
    BY <1>6 DEF Age
  <2>2. hist' \in Hist /\ hist'.drained = hist.drained
    BY <2>1, HistAged DEF Env, Hist
  <2>3. drops' \in [Flows -> Nat]
    BY <1>2, <2>1, MissingType DEF TypeOK
  <2>4. errs' \in [Flows -> SUBSET ErrorKinds]
    BY <2>1 DEF TypeOK, ErrorKinds
  <2>5. TypeOK' /\ Env'
    BY <1>1, <1>3, <2>2, <2>3, <2>4 DEF TypeOK, FlowObject, Env, Hist
  <2> QED BY <1>2, <1>4, <2>5
<1> QED BY <1>5, <1>6

LEMMA LoopBase ==
  ASSUME Base, EndPass \/ tw_drain
  PROVE  Base'
BY DEF Base, EndPass, tw_drain, DEnd, DDrain, TypeOK, FlowHasTimer, Env, flowVars, envVars

-----------------------------------------------------------------------------
(***************************************************************************)
(* A step for one flow leaves the others alone.                            *)
(***************************************************************************)
SameFlow(g) ==
  /\ ft'[g] = ft[g] /\ errs'[g] = errs[g] /\ drops'[g] = drops[g]
  /\ \A p \in Of(g) : /\ net'[p] = net[p]
                      /\ p \in hist'.seen <=> p \in hist.seen
                      /\ p \in hist'.lost <=> p \in hist.lost
                      /\ p \in hist'.dup <=> p \in hist.dup
  /\ g \in hist'.reordered <=> g \in hist.reordered
  /\ g \in hist'.late <=> g \in hist.late
  /\ g \in hist'.drained <=> g \in hist.drained

LEMMA InDirectionFacts ==
  ASSUME NEW f \in Flows, NEW d \in Dirs
  PROVE  InDirection(f, d) \subseteq Of(f) /\ \A p \in InDirection(f, d) : p.dir = d
<1>1. InDirection(f, d) \subseteq Packets
  BY DEF Packets, Dirs
<1> QED BY <1>1 DEF InDirection, Of

LEMMA InDirectionAll ==
  ASSUME NEW f \in Flows, NEW p \in Of(f)
  PROVE  p \in InDirection(f, p.dir)
<1>1. /\ p.flow = f /\ p.dir \in Dirs /\ p.id \in Nat /\ p.id < Size[f][p.dir]
      /\ Size[f][p.dir] \in Nat /\ p = [flow |-> p.flow, dir |-> p.dir, id |-> p.id]
  BY PacketFacts DEF Of
<1>2. p.id \in 0 .. Size[f][p.dir] - 1
  BY <1>1
<1> QED BY <1>1, <1>2 DEF InDirection

LEMMA CleanFrame ==
  ASSUME NEW g \in Flows, SameFlow(g), CleanInv(g)
  PROVE  CleanInv(g)'
<1>1. Clean(g)' <=> Clean(g)
  BY DEF SameFlow, Clean
<1>2. \A k : InOrder(g, k) => InOrder(g, k)'
  BY DEF SameFlow, InOrder
<1> QED BY <1>1, <1>2 DEF CleanInv, SameFlow

LEMMA LossFrame ==
  ASSUME NEW g \in Flows, SameFlow(g), LossInv(g)
  PROVE  LossInv(g)'
<1>1. \A d \in Dirs : SeenIn(g, d)' = SeenIn(g, d)
  BY InDirectionFacts DEF SameFlow, SeenIn
<1>2. Losses(g)' = Losses(g) /\ UnderWay(g)' = UnderWay(g)
  BY DEF SameFlow, Losses, UnderWay
<1>3. Of(g) \cap hist'.dup = Of(g) \cap hist.dup /\ Of(g) \cap hist'.seen = Of(g) \cap hist.seen
  BY DEF SameFlow
<1>4. OnePlace(g) => OnePlace(g)'
  BY DEF SameFlow, OnePlace
<1>5. Tallies(g) => Tallies(g)'
  BY <1>1 DEF SameFlow, Tallies
<1> QED BY <1>2, <1>3, <1>4, <1>5 DEF SameFlow, LossInv

OthersSame(f) == \A g \in Flows \ {f} : SameFlow(g)

LEMMA ClockSteps ==
  ASSUME RxInv, Tick \/ EndPass \/ tw_drain
  PROVE  RxInv'
<1>1. Base'
  BY NetBase, LoopBase DEF RxInv, Base
<1>2. UNCHANGED <<ft, errs, drops, net, hist>>
  BY DEF Tick, EndPass, tw_drain, flowVars, envVars
<1>3. \A g \in Flows : SameFlow(g)
  BY <1>2 DEF SameFlow
<1> QED BY <1>1, <1>3, CleanFrame, LossFrame DEF RxInv, Base

LEMMA FaultOthers ==
  ASSUME Base, NEW p \in Packets, Lose(p) \/ Duplicate(p) \/ handle_damaged(p)
  PROVE  OthersSame(p.flow)
<1> SUFFICES ASSUME NEW g \in Flows, g # p.flow PROVE SameFlow(g)
  BY DEF OthersSame
<1>1. p \notin Of(g) /\ \A q \in Of(g) : q \in Packets /\ q # p
  BY OtherFlow, OfFacts
<1>2. hist \in Hist
  BY DEF Base, Env, Hist
<1>3. /\ \/ hist' = [hist EXCEPT !.lost = @ \cup {p}]
         \/ hist' = [hist EXCEPT !.dup = @ \cup {p}]
      /\ ft' = ft /\ drops' = drops
      /\ net' = [net EXCEPT ![p] = 0] \/ net' = [net EXCEPT ![p] = 2]
  BY DEF Lose, Duplicate, handle_damaged, flowVars
<1>4. /\ \A q \in Of(g) : /\ q \in hist'.seen <=> q \in hist.seen
                          /\ q \in hist'.lost <=> q \in hist.lost
                          /\ q \in hist'.dup <=> q \in hist.dup
      /\ hist'.reordered = hist.reordered /\ hist'.late = hist.late
      /\ hist'.drained = hist.drained
  BY <1>1, <1>2, <1>3, HistStep
<1>5. errs'[g] = errs[g]
  <2>1. errs' = errs \/ \E e : errs' = [errs EXCEPT ![p.flow] = @ \cup {e}]
    BY Zenon DEF Lose, Duplicate, handle_damaged, flowVars
  <2> QED BY <2>1 DEF Base, TypeOK
<1>6. \A q \in Of(g) : net'[q] = net[q]
  BY <1>1, <1>3 DEF Base, TypeOK
<1> QED BY <1>3, <1>4, <1>5, <1>6 DEF SameFlow

LEMMA HandleOthers ==
  ASSUME Base, NEW p \in Packets, handle_packet(p)
  PROVE  OthersSame(p.flow)
<1> SUFFICES ASSUME NEW g \in Flows, g # p.flow PROVE SameFlow(g)
  BY DEF OthersSame
<1>1. p \notin Of(g) /\ \A q \in Of(g) : q \in Packets /\ q # p
  BY OtherFlow, OfFacts
<1>2. Arrives(p) /\ drops' = drops
  BY DEF handle_packet
<1>3. errs'[g] = errs[g] /\ ft'[g] = ft[g]
  <2>1. /\ errs' = [errs EXCEPT ![p.flow] = @ \cup Counted(p)]
        /\ \E x : ft' = [ft EXCEPT ![p.flow] = x]
    BY Zenon DEF handle_packet
  <2> QED BY <2>1 DEF Base, TypeOK
<1>4. /\ \A q \in Of(g) : /\ q \in hist'.seen <=> q \in hist.seen
                          /\ q \in hist'.lost <=> q \in hist.lost
                          /\ q \in hist'.dup <=> q \in hist.dup
      /\ g \in hist'.reordered <=> g \in hist.reordered
      /\ hist'.late = hist.late /\ hist'.drained = hist.drained
  <2>1. hist \in Hist
    BY DEF Base, Env, Hist
  <2>2. /\ hist'.seen = hist.seen \cup {p}
        /\ hist'.reordered \in {hist.reordered \cup {p.flow}, hist.reordered}
        /\ hist'.lost = hist.lost /\ hist'.dup = hist.dup /\ hist'.late = hist.late
        /\ hist'.drained = hist.drained
    BY <1>2, <2>1, HistArrives
  <2> QED BY <1>1, <2>2
<1>5. \A q \in Of(g) : net'[q] = net[q]
  BY <1>1, <1>2 DEF Arrives, Base, TypeOK
<1> QED BY <1>2, <1>3, <1>4, <1>5 DEF SameFlow

LEMMA AgeOthers ==
  ASSUME Base, NEW f \in Flows, Age(f)
  PROVE  OthersSame(f)
<1> SUFFICES ASSUME NEW g \in Flows, g # f PROVE SameFlow(g)
  BY DEF OthersSame
<1>1. ft'[g] = ft[g] /\ errs'[g] = errs[g] /\ drops'[g] = drops[g] /\ net' = net
  BY DEF Age, Base, TypeOK
<1>2. hist \in Hist
  BY DEF Base, Env, Hist
<1>3. /\ hist'.seen = hist.seen /\ hist'.lost = hist.lost /\ hist'.dup = hist.dup
      /\ hist'.reordered = hist.reordered
      /\ g \in hist'.late <=> g \in hist.late
      /\ g \in hist'.drained <=> g \in hist.drained
  <2>1. CASE phase = "drain"
    <3>1. hist' = [hist EXCEPT !.drained = @ \cup {f}]
      BY <2>1 DEF Age
    <3> QED BY <1>2, <3>1 DEF Hist
  <2>2. CASE phase # "drain"
    <3>1. hist' = [hist EXCEPT !.late = IF UnderWay(f) # {} THEN @ \cup {f} ELSE @]
      BY <2>2 DEF Age
    <3> QED BY <1>2, <3>1, HistAged
  <2> QED BY <2>1, <2>2
<1> QED BY <1>1, <1>3 DEF SameFlow

-----------------------------------------------------------------------------
(***************************************************************************)
(* Clean flows.                                                            *)
(***************************************************************************)
LEMMA RecordUpdates ==
  ASSUME NEW a, NEW g, NEW c, NEW d, NEW x
  PROVE  /\ [[both |-> a, dir |-> g, oo |-> c] EXCEPT !.dir[d] = x]
              = [both |-> a, dir |-> [g EXCEPT ![d] = x], oo |-> c]
         /\ [[both |-> a, dir |-> g, oo |-> c] EXCEPT !.oo = c]
              = [both |-> a, dir |-> g, oo |-> c]
OBVIOUS

LEMMA NextFields ==
  ASSUME NEW s, NEW n, NEW q, NEW i
  PROVE  NextInDir([size |-> s, pkts |-> n, seq |-> q], i)
           = [size |-> s, pkts |-> n + 1, seq |-> i + 1]
<1> DEFINE x == [size |-> s, pkts |-> n, seq |-> q]
<1>1. [x EXCEPT !.pkts = @ + 1] = [size |-> s, pkts |-> n + 1, seq |-> q]
  OBVIOUS
<1>2. \A m : [[size |-> s, pkts |-> m, seq |-> q] EXCEPT !.seq = i + 1]
               = [size |-> s, pkts |-> m, seq |-> i + 1]
  OBVIOUS
<1>3. NextInDir(x, i) = [[x EXCEPT !.pkts = @ + 1] EXCEPT !.seq = i + 1]
  BY DEF NextInDir
<1> QED BY <1>1, <1>2, <1>3

LEMMA DirCount ==
  ASSUME NEW S \in SUBSET Dirs
  PROVE  /\ 0 \in S /\ 1 \in S => Cardinality(S) = 2
         /\ 0 \in S /\ 1 \notin S => Cardinality(S) = 1
         /\ 0 \notin S /\ 1 \in S => Cardinality(S) = 1
         /\ 0 \notin S /\ 1 \notin S => Cardinality(S) = 0
<1>1. Cardinality({}) = 0 /\ IsFiniteSet({})
  BY FS_EmptySet
<1>2. Cardinality({0}) = 1 /\ IsFiniteSet({0}) /\ Cardinality({1}) = 1
  BY FS_Singleton
<1>3. Cardinality({0} \cup {1}) = 2
  BY <1>2, FS_AddElement
<1>4. CASE 0 \in S /\ 1 \in S
  <2>1. S = {0} \cup {1}
    BY <1>4 DEF Dirs
  <2> QED BY <1>3, <1>4, <2>1
<1>5. CASE 0 \in S /\ 1 \notin S
  <2>1. S = {0}
    BY <1>5 DEF Dirs
  <2> QED BY <1>2, <1>5, <2>1
<1>6. CASE 0 \notin S /\ 1 \in S
  <2>1. S = {1}
    BY <1>6 DEF Dirs
  <2> QED BY <1>2, <1>6, <2>1
<1>7. CASE 0 \notin S /\ 1 \notin S
  <2>1. S = {}
    BY <1>7 DEF Dirs
  <2> QED BY <1>1, <1>7, <2>1
<1> QED BY <1>4, <1>5, <1>6, <1>7

LEMMA InDirFields ==
  ASSUME NEW n \in Nat, NEW size \in Nat
  PROVE  /\ InDir(n, size).size = IF n = 0 THEN 0 ELSE size
         /\ InDir(n, size).pkts = n
         /\ InDir(n, size).seq = n
BY DEF InDir, Unseen

LEMMA FollowingFields ==
  ASSUME NEW f \in Flows, NEW k \in Counts(f), NEW d \in Dirs
  PROVE  /\ Following(f, k).dir[d] = InDir(k[d], Size[f][d])
         /\ Following(f, k).both = BothWays(f) /\ Following(f, k).oo = FALSE
BY DEF Following

(* The object is complete when, and only when, every packet has come: also *)
(* when one direction is over before the other one has begun.              *)
LEMMA AllSeen ==
  ASSUME NEW f \in Flows, NEW k \in Counts(f), ~Untouched(k)
  PROVE  is_all_pkts_seen(Following(f, k)) <=> Complete(f, k)
<1> DEFINE lf == Following(f, k)
           S == {d \in Dirs : lf.dir[d].size > 0}
<1>1. \A d \in Dirs : k[d] \in Nat /\ k[d] <= Size[f][d] /\ Size[f][d] \in Nat
  BY SizeType DEF Counts
<1>2. \A d \in Dirs : /\ lf.dir[d].size = IF k[d] = 0 THEN 0 ELSE Size[f][d]
                      /\ lf.dir[d].pkts = k[d]
  <2> SUFFICES ASSUME NEW d \in Dirs
               PROVE  /\ lf.dir[d].size = IF k[d] = 0 THEN 0 ELSE Size[f][d]
                      /\ lf.dir[d].pkts = k[d]
    OBVIOUS
  <2>1. lf.dir[d] = InDir(k[d], Size[f][d])
    BY FollowingFields
  <2>2. k[d] \in Nat /\ Size[f][d] \in Nat
    BY <1>1
  <2> QED BY <2>1, <2>2, InDirFields
<1>3. lf.both = BothWays(f) /\ lf.oo = FALSE
  BY DEF Following
<1> HIDE DEF lf
<1>4. PICK e \in Dirs : k[e] # 0
  BY DEF Untouched
<1>5. /\ 0 \in S <=> k[0] # 0
      /\ 1 \in S <=> k[1] # 0
      /\ S \in SUBSET Dirs
  BY <1>1, <1>2 DEF Dirs
<1> HIDE DEF S
<1>6. Cardinality(S) = (IF lf.both THEN 2 ELSE 1)
        <=> \A d \in Dirs : k[d] = 0 => Size[f][d] = 0
  <2>1. CASE BothWays(f)
    <3>1. Cardinality(S) = 2 <=> k[0] # 0 /\ k[1] # 0
      BY <1>5, DirCount
    <3>2. Size[f][0] # 0 /\ Size[f][1] # 0
      BY <1>1, <2>1 DEF BothWays, Dirs
    <3> QED BY <1>3, <2>1, <3>1, <3>2 DEF Dirs
  <2>2. CASE ~BothWays(f)
    <3>1. k[0] = 0 \/ k[1] = 0
      BY <1>1, <2>2 DEF BothWays, Dirs
    <3>2. Cardinality(S) = 1
      BY <1>4, <1>5, <3>1, DirCount DEF Dirs
    <3>3. \A d \in Dirs : k[d] = 0 => Size[f][d] = 0
      BY <1>1, <1>4, <2>2 DEF BothWays, Dirs
    <3> QED BY <1>3, <2>2, <3>2, <3>3
  <2> QED BY <2>1, <2>2
<1>7. (\A d \in Dirs : lf.dir[d].pkts = lf.dir[d].size)
        <=> \A d \in Dirs : k[d] # 0 => k[d] = Size[f][d]
  BY <1>1, <1>2
<1>8. is_all_pkts_seen(lf) <=> /\ \A d \in Dirs : lf.dir[d].pkts = lf.dir[d].size
                               /\ Cardinality(S) = (IF lf.both THEN 2 ELSE 1)
  BY <1>3 DEF is_all_pkts_seen, S
<1>9. Complete(f, k) <=> /\ \A d \in Dirs : k[d] # 0 => k[d] = Size[f][d]
                         /\ \A d \in Dirs : k[d] = 0 => Size[f][d] = 0
  BY DEF Complete
<1> QED BY <1>6, <1>7, <1>8, <1>9 DEF lf

(* The next packet of a clean flow is the one its object waits for.        *)
LEMMA NextInOrder ==
  ASSUME Base, NEW p \in Packets, NEW k \in Counts(p.flow), InOrder(p.flow, k),
         net[p] > 0, ~Overtakes(p)
  PROVE  p.id = k[p.dir] /\ k[p.dir] \in Nat /\ k[p.dir] < Size[p.flow][p.dir]
<1> DEFINE f == p.flow
           d == p.dir
<1>1. /\ f \in Flows /\ d \in Dirs /\ p.id \in Nat /\ p.id < Size[f][d] /\ Size[f][d] \in Nat
      /\ p \in Of(f)
  BY PacketFacts
<1>2. k[d] \in Nat
  BY <1>1 DEF Counts
<1>3. ~(p.id < k[d])
  BY <1>1 DEF InOrder
<1>4. ASSUME k[d] < p.id PROVE FALSE
  <2> DEFINE q == [flow |-> f, dir |-> d, id |-> k[d]]
  <2>1. q \in Of(f)
    BY <1>1, <1>2, <1>4, PacketMade
  <2>2. net[q] = 1
    BY <1>2, <2>1 DEF InOrder
  <2>3. q \in UnderWay(f) /\ q.dir = d /\ q.id < p.id
    BY <1>4, <2>1, <2>2 DEF UnderWay
  <2> QED BY <2>3 DEF Overtakes
<1> QED BY <1>1, <1>2, <1>3, <1>4

LEMMA OrderOfNext == \A n \in Nat : OrderError(n, n) = {}
BY DEF OrderError

LEMMA CleanArrival ==
  ASSUME Base, NEW p \in Packets, NEW k \in Counts(p.flow), InOrder(p.flow, k),
         net[p] > 0, ~Overtakes(p)
  PROVE  LET k2 == [k EXCEPT ![p.dir] = @ + 1] IN
           /\ Counted(p) = {}
           /\ k2 \in Counts(p.flow) /\ ~Untouched(k2)
           /\ Updated(p) = Following(p.flow, k2)
<1> DEFINE f == p.flow
           d == p.dir
           k2 == [k EXCEPT ![d] = @ + 1]
<1>1. /\ f \in Flows /\ d \in Dirs /\ p.id \in Nat
      /\ p.id = k[d] /\ k[d] \in Nat /\ k[d] < Size[f][d] /\ Size[f][d] \in Nat
  BY NextInOrder, PacketFacts
<1>2. \A e \in Dirs : k[e] \in Nat /\ k[e] <= Size[f][e] /\ Size[f][e] \in Nat
  BY <1>1, SizeType DEF Counts
<1>3. k2 \in Counts(f) /\ ~Untouched(k2) /\ k2 \in [Dirs -> Nat] /\ k2[d] = k[d] + 1
      /\ \A e \in Dirs \ {d} : k2[e] = k[e]
  BY <1>1, <1>2 DEF Counts, Untouched
<1>4. ~Complete(f, k)
  BY <1>1 DEF Complete
<1>5. CASE Untouched(k)
  <2>1. ft[f] = NoFlow /\ p.id = 0
    BY <1>1, <1>5 DEF InOrder, Untouched
  <2>2. Counted(p) = {} /\ Updated(p) = NewFlow(p)
    BY <2>1 DEF Counted, Updated
  <2>3. \A e \in Dirs : InDir(k2[e], Size[f][e])
                          = IF e = d THEN set_fif_seen(Size[f][e]) ELSE Unseen
    BY <1>1, <1>2, <1>3, <1>5 DEF InDir, set_fif_seen, Untouched
  <2>4. (p.id # 0) = FALSE
    BY <2>1
  <2>5. NewFlow(p) = Following(f, k2)
    BY <2>3, <2>4, Zenon DEF NewFlow, Following, BothWays
  <2> QED BY <1>3, <2>2, <2>5
<1>6. CASE ~Untouched(k)
  <2> DEFINE lf == Following(f, k)
             x == InDir(k2[d], Size[f][d])
  <2>1. ft[f] = lf
    BY <1>4, <1>6 DEF InOrder
  <2>2. lf \in FlowObject /\ lf # NoFlow
    <3>1. \A e \in Dirs : InDir(k[e], Size[f][e]) \in Directions
      BY <1>2 DEF InDir, Unseen, Directions
    <3>2. [e \in Dirs |-> InDir(k[e], Size[f][e])] \in [Dirs -> Directions]
      BY <3>1
    <3>3. BothWays(f) \in BOOLEAN /\ FALSE \in BOOLEAN
      BY DEF BothWays
    <3>4. lf \in FlowObject
      BY <3>2, <3>3, Zenon DEF Following, FlowObject
    <3> QED BY <3>4, ObjectIsNoNoFlow
  <2>3. lf.dir[d] = InDir(k[d], Size[f][d]) /\ lf.oo = FALSE
    BY <1>1, FollowingFields
  <2>4. [lf EXCEPT !.dir[d] = x] = Following(f, k2)
    <3>1. [[e \in Dirs |-> InDir(k[e], Size[f][e])] EXCEPT ![d] = x]
            = [e \in Dirs |-> InDir(k2[e], Size[f][e])]
      BY <1>1, <1>3
    <3>2. [lf EXCEPT !.dir[d] = x]
            = [both |-> BothWays(f),
               dir |-> [[e \in Dirs |-> InDir(k[e], Size[f][e])] EXCEPT ![d] = x], oo |-> FALSE]
      <4> DEFINE g == [e \in Dirs |-> InDir(k[e], Size[f][e])]
                 b == BothWays(f)
                 c == FALSE
      <4>1. lf = [both |-> b, dir |-> g, oo |-> c]
        BY DEF Following
      <4> HIDE DEF x, g, b, c, lf
      <4>2. [[both |-> b, dir |-> g, oo |-> c] EXCEPT !.dir[d] = x]
              = [both |-> b, dir |-> [g EXCEPT ![d] = x], oo |-> c]
        BY RecordUpdates
      <4>3. [lf EXCEPT !.dir[d] = x] = [both |-> b, dir |-> [g EXCEPT ![d] = x], oo |-> c]
        BY <4>1, <4>2
      <4> QED BY <4>3 DEF g, b, c
    <3> QED BY <3>1, <3>2, Zenon DEF Following
  <2>5. lf.dir[d].pkts = k[d] /\ lf.dir[d].seq = k[d]
    BY <1>1, <2>3, InDirFields
  <2>6. is_fif_seen(lf.dir[d]) <=> k[d] # 0
    BY <1>1, <2>5 DEF is_fif_seen
  <2>7. CASE k[d] = 0
    <3>1. x = set_fif_seen(Size[f][d])
      BY <1>1, <1>3, <2>7 DEF InDir, set_fif_seen
    <3>2. Counted(p) = {} /\ Updated(p) = [lf EXCEPT !.dir[d] = set_fif_seen(Size[f][d])]
      BY <2>1, <2>2, <2>6, <2>7 DEF Counted, Updated
    <3> QED BY <1>3, <2>4, <3>1, <3>2
  <2>8. CASE k[d] # 0
    <3>1. OrderError(lf.dir[d].seq, p.id) = {}
      BY <1>1, <2>5, OrderOfNext
    <3>2. NextInDir(lf.dir[d], p.id) = x
      <4>1. lf.dir[d] = [size |-> Size[f][d], pkts |-> k[d], seq |-> k[d]]
        BY <2>3, <2>8 DEF InDir
      <4>2. NextInDir(lf.dir[d], p.id) = [size |-> Size[f][d], pkts |-> k[d] + 1, seq |-> p.id + 1]
        BY <4>1, NextFields
      <4>3. x = [size |-> Size[f][d], pkts |-> k[d] + 1, seq |-> k[d] + 1]
        BY <1>1, <1>3 DEF InDir
      <4> QED BY <1>1, <4>2, <4>3
    <3>3. (lf.oo \/ OrderError(lf.dir[d].seq, p.id) # {}) = lf.oo
      BY <2>3, <3>1
    <3>4. Counted(p) = {}
      BY <1>1, <2>1, <2>2, <2>6, <2>8, <3>1 DEF Counted
    <3>5. Updated(p) = [[lf EXCEPT !.dir[d] = NextInDir(lf.dir[d], p.id)]
                          EXCEPT !.oo = (lf.oo \/ OrderError(lf.dir[d].seq, p.id) # {})]
      BY <1>1, <2>1, <2>2, <2>6, <2>8 DEF Updated
    <3>6. Updated(p) = [Following(f, k2) EXCEPT !.oo = FALSE]
      BY <2>3, <2>4, <3>2, <3>3, <3>5
    <3>7. [Following(f, k2) EXCEPT !.oo = FALSE] = Following(f, k2)
      BY RecordUpdates DEF Following
    <3> QED BY <1>3, <3>4, <3>6, <3>7
  <2> QED BY <2>7, <2>8
<1> QED BY <1>5, <1>6

(* With its last packet a clean flow leaves the table.                     *)
LEMMA CleanHandle ==
  ASSUME Base, NEW p \in Packets, CleanInv(p.flow), handle_packet(p)
  PROVE  CleanInv(p.flow)'
<1> DEFINE f == p.flow
           d == p.dir
           lf == Updated(p)
<1> SUFFICES ASSUME Clean(f)'
             PROVE  /\ errs'[f] = {} /\ drops'[f] = 0
                    /\ \E k \in Counts(f) : InOrder(f, k)'
  BY DEF CleanInv
<1>1. /\ ~stopped /\ Arrives(p) /\ drops' = drops
      /\ errs' = [errs EXCEPT ![f] = @ \cup Counted(p)]
      /\ ft' = IF is_all_pkts_seen(lf) THEN [ft EXCEPT ![f] = NoFlow] ELSE [ft EXCEPT ![f] = lf]
  BY Zenon DEF handle_packet
<1>2. hist \in Hist /\ f \in Flows /\ d \in Dirs /\ p \in Of(f)
  BY PacketFacts DEF Base, Env, Hist
<1>3. /\ hist'.reordered = IF Overtakes(p) THEN hist.reordered \cup {f} ELSE hist.reordered
      /\ hist'.lost = hist.lost /\ hist'.dup = hist.dup /\ hist'.late = hist.late
  BY <1>1, <1>2, HistArrives
<1>4. Clean(f) /\ ~Overtakes(p)
  BY <1>3 DEF Clean
<1>5. f \notin hist.drained
  BY <1>1, <1>2 DEF Base, Env
<1>6. PICK k \in Counts(f) : InOrder(f, k)
  BY <1>4, <1>5 DEF CleanInv
<1> DEFINE k2 == [k EXCEPT ![d] = @ + 1]
<1>7. net[p] > 0 /\ net' = [net EXCEPT ![p] = @ - 1]
  BY <1>1 DEF Arrives
<1>8. Counted(p) = {} /\ k2 \in Counts(f) /\ ~Untouched(k2) /\ lf = Following(f, k2)
  BY <1>4, <1>6, <1>7, CleanArrival
<1>9. p.id = k[d] /\ k[d] \in Nat
  BY <1>4, <1>6, <1>7, NextInOrder
<1>10. errs'[f] = {} /\ drops'[f] = 0
  BY <1>1, <1>2, <1>4, <1>8 DEF CleanInv, Base, TypeOK
<1>11. ASSUME NEW q \in Of(f) PROVE net'[q] = IF q.id < k2[q.dir] THEN 0 ELSE 1
  <2>1. q \in Packets /\ q.flow = f /\ q.dir \in Dirs /\ q.id \in Nat
    BY <1>2, <1>11, OfFacts
  <2>2. net[q] = IF q.id < k[q.dir] THEN 0 ELSE 1
    BY <1>6 DEF InOrder
  <2>3. k \in [Dirs -> Nat]
    BY <1>6 DEF Counts
  <2>4. CASE q = p
    <3>1. net[p] = 1
      BY <1>7, <2>2, <2>4
    <3>2. net'[p] = 0
      BY <1>7, <3>1 DEF Base, TypeOK
    <3>3. k2[d] = k[d] + 1
      BY <1>2, <2>3
    <3> QED BY <1>9, <2>4, <3>2, <3>3
  <2>5. CASE q # p
    <3>1. net'[q] = net[q]
      BY <1>7, <2>1, <2>5 DEF Base, TypeOK
    <3>2. q.dir # d => k2[q.dir] = k[q.dir]
      BY <2>1, <2>3
    <3>3. q.dir = d => q.id # k[d]
      <4>1. q = [flow |-> q.flow, dir |-> q.dir, id |-> q.id]
            /\ p = [flow |-> p.flow, dir |-> p.dir, id |-> p.id]
        BY <2>1, PacketFacts
      <4> QED BY <1>9, <2>1, <2>5, <4>1
    <3>4. k2[d] = k[d] + 1
      BY <1>2, <2>3
    <3> QED BY <1>9, <2>1, <2>2, <3>1, <3>2, <3>3, <3>4
  <2> QED BY <2>4, <2>5
<1> HIDE DEF lf, k2
<1>12. ft'[f] = IF is_all_pkts_seen(lf) THEN NoFlow ELSE lf
  BY <1>1, <1>2 DEF Base, TypeOK
<1>13. ft'[f] = IF Untouched(k2) \/ Complete(f, k2) THEN NoFlow ELSE Following(f, k2)
  BY <1>2, <1>8, <1>12, AllSeen
<1>14. InOrder(f, k2)'
  BY <1>11, <1>13 DEF InOrder
<1> QED BY <1>8, <1>10, <1>14

(* A flow that is aged before its last packet has come was still awaited,  *)
(* or the receiver was stopped.                                            *)
LEMMA CleanAge ==
  ASSUME Base, NEW f \in Flows, CleanInv(f), Age(f)
  PROVE  CleanInv(f)'
<1> SUFFICES ASSUME Clean(f)'
             PROVE  /\ errs'[f] = {} /\ drops'[f] = 0 /\ f \in hist'.drained
  BY DEF CleanInv
<1>1. hist \in Hist
  BY DEF Base, Env, Hist
<1>2. CASE phase = "drain"
  <2>1. hist' = [hist EXCEPT !.drained = @ \cup {f}] /\ UNCHANGED <<errs, drops>>
    BY <1>2 DEF Age
  <2>2. /\ hist'.drained = hist.drained \cup {f} /\ hist'.lost = hist.lost
        /\ hist'.dup = hist.dup /\ hist'.reordered = hist.reordered /\ hist'.late = hist.late
    BY <1>1, <2>1 DEF Hist
  <2>3. Clean(f)
    BY <2>2 DEF Clean
  <2> QED BY <2>1, <2>2, <2>3 DEF CleanInv
<1>3. CASE phase # "drain"
  <2>1. hist' = [hist EXCEPT !.late = IF UnderWay(f) # {} THEN @ \cup {f} ELSE @]
    BY <1>3 DEF Age
  <2>2. /\ hist'.late = IF UnderWay(f) # {} THEN hist.late \cup {f} ELSE hist.late
        /\ hist'.lost = hist.lost /\ hist'.dup = hist.dup
        /\ hist'.reordered = hist.reordered
    BY <1>1, <2>1, HistAged
  <2>3. UnderWay(f) = {} /\ Clean(f)
    BY <2>2 DEF Clean
  <2>4. ft[f] # NoFlow
    BY AgeBase
  <2>5. f \notin hist.drained
    BY <2>4 DEF Base, Env
  <2>6. PICK k \in Counts(f) : InOrder(f, k)
    BY <2>3, <2>5 DEF CleanInv
  <2>7. PICK d \in Dirs : k[d] # Size[f][d]
    BY <2>4, <2>6 DEF InOrder, Complete
  <2>8. k[d] \in Nat /\ k[d] < Size[f][d]
    BY <2>6, <2>7, SizeType DEF Counts
  <2> DEFINE q == [flow |-> f, dir |-> d, id |-> k[d]]
  <2>9. q \in Of(f) /\ q.id = k[d] /\ q.dir = d
    BY <2>8, PacketMade
  <2> HIDE DEF q
  <2>10. net[q] = 1
    BY <2>6, <2>8, <2>9 DEF InOrder
  <2>11. q \in UnderWay(f)
    BY <2>9, <2>10 DEF UnderWay
  <2> QED BY <2>3, <2>11
<1> QED BY <1>2, <1>3

LEMMA CleanFault ==
  ASSUME Base, NEW p \in Packets, Lose(p) \/ Duplicate(p) \/ handle_damaged(p)
  PROVE  CleanInv(p.flow)'
<1>1. hist \in Hist /\ p \in Of(p.flow)
  BY PacketFacts DEF Base, Env, Hist
<1>2. \/ hist' = [hist EXCEPT !.lost = @ \cup {p}]
      \/ hist' = [hist EXCEPT !.dup = @ \cup {p}]
  BY DEF Lose, Duplicate, handle_damaged
<1>3. p \in hist'.lost \cup hist'.dup
  BY <1>1, <1>2 DEF Hist
<1>4. ~Clean(p.flow)'
  BY <1>1, <1>3 DEF Clean
<1> QED BY <1>4 DEF CleanInv

-----------------------------------------------------------------------------
(***************************************************************************)
(* Flows without duplicates.                                               *)
(***************************************************************************)
LEMMA DirectionSize ==
  ASSUME NEW f \in Flows, NEW d \in Dirs
  PROVE  IsFiniteSet(InDirection(f, d)) /\ Cardinality(InDirection(f, d)) = Size[f][d]
<1> DEFINE T == InDirection(f, d)
           S == 0 .. Size[f][d] - 1
           b == [i \in S |-> [flow |-> f, dir |-> d, id |-> i]]
<1>1. Size[f][d] \in Nat
  BY SizeType
<1>2. IsFiniteSet(S) /\ Cardinality(S) = Size[f][d]
  <2> DEFINE m == Size[f][d] - 1
  <2>1. 0 \in Int /\ m \in Int
    BY <1>1
  <2> HIDE DEF m
  <2>2. IsFiniteSet(0 .. m) /\ Cardinality(0 .. m) = IF 0 > m THEN 0 ELSE m - 0 + 1
    BY <2>1, FS_Interval
  <2> QED BY <1>1, <2>1, <2>2 DEF m
<1>3. b \in [S -> T]
  BY DEF InDirection
<1>4. \A i, j \in S : b[i] = b[j] => i = j
  OBVIOUS
<1>5. \A t \in T : t.id \in S /\ b[t.id] = t
  BY DEF InDirection
<1> HIDE DEF S, T, b
<1>6. \A t \in T : \E i \in S : b[i] = t
  BY <1>5
<1>7. b \in Bijection(S, T)
  BY <1>3, <1>4, <1>6 DEF Bijection, Injection, Surjection, IsInjective
<1>8. IsFiniteSet(T) /\ Cardinality(T) = Cardinality(S)
  BY <1>2, <1>7, FS_Bijection DEF ExistsBijection
<1> QED BY <1>2, <1>8 DEF T

LEMMA DisjointUnion ==
  ASSUME NEW A, NEW B, IsFiniteSet(A), IsFiniteSet(B), A \cap B = {}
  PROVE  Cardinality(A \cup B) = Cardinality(A) + Cardinality(B)
<1>1. Cardinality(A \cup B) = Cardinality(A) + Cardinality(B) - Cardinality(A \cap B)
  BY FS_Union
<1>2. Cardinality(A \cap B) = 0
  BY FS_EmptySet
<1>3. Cardinality(A) \in Nat /\ Cardinality(B) \in Nat
  BY FS_CardinalityType
<1> QED BY <1>1, <1>2, <1>3

LEMMA InFinite ==
  ASSUME NEW f \in Flows, NEW d \in Dirs
  PROVE  /\ IsFiniteSet(SeenIn(f, d)) /\ Cardinality(SeenIn(f, d)) \in Nat
         /\ IsFiniteSet(LostIn(f, d)) /\ Cardinality(LostIn(f, d)) \in Nat
         /\ SeenIn(f, d) = {} <=> Cardinality(SeenIn(f, d)) = 0
<1>1. IsFiniteSet(InDirection(f, d))
  BY DirectionSize
<1>2. SeenIn(f, d) \in SUBSET InDirection(f, d) /\ LostIn(f, d) \in SUBSET InDirection(f, d)
  BY DEF SeenIn, LostIn
<1>3. IsFiniteSet(SeenIn(f, d)) /\ IsFiniteSet(LostIn(f, d))
  BY <1>1, <1>2, FS_Subset
<1> QED BY <1>3, FS_CardinalityType, FS_EmptySet

(* The losses of a flow, direction by direction.                           *)
LEMMA LossesSplit ==
  ASSUME NEW f \in Flows
  PROVE  /\ Cardinality(Losses(f)) = Cardinality(LostIn(f, 0)) + Cardinality(LostIn(f, 1))
         /\ Cardinality(Losses(f)) \in Nat
<1>1. 0 \in Dirs /\ 1 \in Dirs
  BY DEF Dirs
<1>2. /\ IsFiniteSet(LostIn(f, 0)) /\ IsFiniteSet(LostIn(f, 1))
      /\ Cardinality(LostIn(f, 0)) \in Nat /\ Cardinality(LostIn(f, 1)) \in Nat
  BY <1>1, InFinite
<1>3. Losses(f) = LostIn(f, 0) \cup LostIn(f, 1)
  <2>1. \A p \in Of(f) : p \in InDirection(f, 0) \/ p \in InDirection(f, 1)
    <3> SUFFICES ASSUME NEW p \in Of(f)
                 PROVE  p \in InDirection(f, 0) \/ p \in InDirection(f, 1)
      OBVIOUS
    <3>1. p \in InDirection(f, p.dir) /\ p.dir \in {0, 1}
      BY InDirectionAll, OfFacts DEF Dirs
    <3> QED BY <3>1
  <2>2. InDirection(f, 0) \subseteq Of(f) /\ InDirection(f, 1) \subseteq Of(f)
    BY <1>1, InDirectionFacts
  <2> QED BY <2>1, <2>2 DEF Losses, LostIn
<1>4. LostIn(f, 0) \cap LostIn(f, 1) = {}
  <2>1. \A p \in InDirection(f, 0) : p \notin InDirection(f, 1)
    BY <1>1, InDirectionFacts
  <2> QED BY <2>1 DEF LostIn
<1>5. Cardinality(LostIn(f, 0) \cup LostIn(f, 1))
        = Cardinality(LostIn(f, 0)) + Cardinality(LostIn(f, 1))
  BY <1>2, <1>4, DisjointUnion
<1> QED BY <1>2, <1>3, <1>5

(* When nothing is under way, what was not seen in a direction was lost.   *)
LEMMA SeenOrLost ==
  ASSUME NEW f \in Flows, NEW d \in Dirs, OnePlace(f), UnderWay(f) = {}
  PROVE  Cardinality(SeenIn(f, d)) + Cardinality(LostIn(f, d)) = Size[f][d]
<1>1. InDirection(f, d) \subseteq Of(f)
  BY InDirectionFacts
<1>2. \A p \in Of(f) : p \in hist.seen \cup hist.lost
  BY DEF OnePlace, UnderWay
<1>3. InDirection(f, d) = SeenIn(f, d) \cup LostIn(f, d)
  BY <1>1, <1>2 DEF SeenIn, LostIn
<1>4. SeenIn(f, d) \cap LostIn(f, d) = {}
  BY <1>1 DEF SeenIn, LostIn, OnePlace
<1>5. Cardinality(SeenIn(f, d) \cup LostIn(f, d))
        = Cardinality(SeenIn(f, d)) + Cardinality(LostIn(f, d))
  BY <1>4, InFinite, DisjointUnion
<1> QED BY <1>3, <1>5, DirectionSize

(* What on_flow_end adds to m_err_drop was lost by the device.             *)
LEMMA MissingIsLost ==
  ASSUME NEW f \in Flows, ft[f] \in FlowObject, OnePlace(f), UnderWay(f) = {}, Tallies(f)
  PROVE  Missing(ft[f]) <= Cardinality(Losses(f))
<1>1. ASSUME NEW d \in Dirs
      PROVE  /\ ft[f].dir[d].size - ft[f].dir[d].pkts <= Cardinality(LostIn(f, d))
             /\ ft[f].dir[d].size \in Nat /\ ft[f].dir[d].pkts \in Nat
             /\ Cardinality(LostIn(f, d)) \in Nat
  <2>1. /\ ft[f].dir[d].pkts = Cardinality(SeenIn(f, d))
        /\ ft[f].dir[d].size = IF SeenIn(f, d) = {} THEN 0 ELSE Size[f][d]
    BY DEF Tallies
  <2>2. Cardinality(SeenIn(f, d)) + Cardinality(LostIn(f, d)) = Size[f][d]
    BY SeenOrLost
  <2>3. /\ Cardinality(SeenIn(f, d)) \in Nat /\ Cardinality(LostIn(f, d)) \in Nat
        /\ SeenIn(f, d) = {} <=> Cardinality(SeenIn(f, d)) = 0
    BY InFinite
  <2> QED BY <2>1, <2>2, <2>3, SizeType
<1>2. 0 \in Dirs /\ 1 \in Dirs
  BY DEF Dirs
<1>3. Cardinality(Losses(f)) = Cardinality(LostIn(f, 0)) + Cardinality(LostIn(f, 1))
  BY LossesSplit
<1> QED BY <1>1, <1>2, <1>3 DEF Missing

(* How handle_packet changes the object of a flow it knows.                *)
LEMMA UpdatedFields ==
  ASSUME TypeOK, NEW p \in Packets, ft[p.flow] \in FlowObject
  PROVE  LET lf == ft[p.flow]
             d  == p.dir
         IN  /\ Updated(p).both = lf.both
             /\ \A e \in Dirs \ {d} : Updated(p).dir[e] = lf.dir[e]
             /\ Updated(p).dir[d].pkts = lf.dir[d].pkts + 1
             /\ Updated(p).dir[d].size = IF lf.dir[d].pkts = 0 THEN Size[p.flow][d]
                                         ELSE lf.dir[d].size
<1> DEFINE lf == ft[p.flow]
           d == p.dir
           x == lf.dir[d]
           bad == (lf.oo \/ OrderError(lf.dir[d].seq, p.id) # {})
<1>1. d \in Dirs /\ p.id \in Nat /\ lf # NoFlow /\ lf.dir \in [Dirs -> Directions]
  BY PacketFacts, ObjectIsNoNoFlow DEF FlowObject
<1>2. x \in Directions /\ x.pkts \in Nat
  BY <1>1, ObjectType
<1>3. \A y \in Directions, e \in Dirs :
        /\ [lf EXCEPT !.dir[d] = y].both = lf.both
        /\ [lf EXCEPT !.dir[d] = y].dir[e] = IF e = d THEN y ELSE lf.dir[e]
        /\ [lf EXCEPT !.dir[d] = y] \in FlowObject
  BY <1>1 DEF FlowObject
<1>4. \A lg \in FlowObject : \A c : [lg EXCEPT !.oo = c].both = lg.both
                                /\ [lg EXCEPT !.oo = c].dir = lg.dir
  BY DEF FlowObject
<1>5. CASE ~is_fif_seen(x)
  <2>1. x.pkts = 0
    BY <1>2, <1>5 DEF is_fif_seen
  <2>2. Updated(p) = [lf EXCEPT !.dir[d] = set_fif_seen(Size[p.flow][d])]
    BY <1>1, <1>5 DEF Updated
  <2>3. set_fif_seen(Size[p.flow][d]) \in Directions
    BY PacketFacts, FifType
  <2>4. set_fif_seen(Size[p.flow][d]).pkts = 1
        /\ set_fif_seen(Size[p.flow][d]).size = Size[p.flow][d]
    BY DEF set_fif_seen
  <2> QED BY <1>1, <1>3, <2>1, <2>2, <2>3, <2>4
<1>6. CASE is_fif_seen(x)
  <2>1. x.pkts # 0
    BY <1>2, <1>6 DEF is_fif_seen
  <2>2. \E y \in Directions :
          /\ y.pkts = x.pkts + 1 /\ y.size = x.size
          /\ \E c : Updated(p) = [[lf EXCEPT !.dir[d] = y] EXCEPT !.oo = c]
    <3>1. CASE p.id = 0
      <4> DEFINE y == [x EXCEPT !.pkts = @ + 1]
      <4>1. Updated(p) = [[lf EXCEPT !.dir[d] = y] EXCEPT !.oo = TRUE]
        BY <1>1, <1>6, <3>1 DEF Updated
      <4>2. y \in Directions
        BY <1>1, <1>2, DirectionType
      <4>3. y.pkts = x.pkts + 1 /\ y.size = x.size
        BY <1>2 DEF Directions
      <4> HIDE DEF y
      <4> QED BY <4>1, <4>2, <4>3
    <3>2. CASE p.id # 0
      <4> DEFINE y == NextInDir(x, p.id)
      <4>1. Updated(p) = [[lf EXCEPT !.dir[d] = y] EXCEPT !.oo = bad]
        BY <1>1, <1>6, <3>2 DEF Updated
      <4>2. y \in Directions
        BY <1>1, <1>2, DirectionType
      <4>3. y.pkts = x.pkts + 1 /\ y.size = x.size
        <5>1. x = [size |-> x.size, pkts |-> x.pkts, seq |-> x.seq]
          BY <1>2 DEF Directions
        <5>2. y = [size |-> x.size, pkts |-> x.pkts + 1, seq |-> p.id + 1]
          BY <5>1, NextFields
        <5> QED BY <5>2
      <4> HIDE DEF y, bad
      <4> QED BY <4>1, <4>2, <4>3
    <3> QED BY <3>1, <3>2
  <2>3. PICK y \in Directions :
          /\ y.pkts = x.pkts + 1 /\ y.size = x.size
          /\ \E c : Updated(p) = [[lf EXCEPT !.dir[d] = y] EXCEPT !.oo = c]
    BY <2>2
  <2> DEFINE lg == [lf EXCEPT !.dir[d] = y]
  <2>4. /\ lg \in FlowObject /\ lg.both = lf.both
        /\ \A e \in Dirs : lg.dir[e] = IF e = d THEN y ELSE lf.dir[e]
    BY <1>1, <1>3
  <2>5. PICK c : Updated(p) = [lg EXCEPT !.oo = c]
    BY <2>3
  <2> HIDE DEF lg
  <2>6. Updated(p).both = lg.both /\ Updated(p).dir = lg.dir
    BY <1>4, <2>4, <2>5
  <2> QED BY <1>1, <2>1, <2>3, <2>4, <2>6
<1> QED BY <1>5, <1>6

(* Object lf counts the packets of flow f that are in the set seen.        *)
CountsSeen(lf, f, seen) ==
  /\ lf.both = BothWays(f)
  /\ \A d \in Dirs :
       /\ lf.dir[d].pkts = Cardinality(InDirection(f, d) \cap seen)
       /\ lf.dir[d].size = IF InDirection(f, d) \cap seen = {} THEN 0 ELSE Size[f][d]

(* A flow that handle_packet takes for complete is complete.               *)
LEMMA AllCame ==
  ASSUME NEW f \in Flows, NEW lf \in FlowObject, NEW seen, NEW e \in Dirs,
         CountsSeen(lf, f, seen), InDirection(f, e) \cap seen # {}, is_all_pkts_seen(lf)
  PROVE  Of(f) \subseteq seen
<1> DEFINE S == {d \in Dirs : lf.dir[d].size > 0}
           In(d) == InDirection(f, d) \cap seen
<1>1. /\ \A d \in Dirs : lf.dir[d].pkts = lf.dir[d].size
      /\ Cardinality(S) = IF BothWays(f) THEN 2 ELSE 1
  BY DEF is_all_pkts_seen, CountsSeen
<1>2. S \in SUBSET Dirs
  OBVIOUS
<1>3. \A d \in S : In(d) # {}
  <2> SUFFICES ASSUME NEW d \in Dirs, lf.dir[d].size > 0, In(d) = {} PROVE FALSE
    OBVIOUS
  <2>1. lf.dir[d].size = 0
    BY DEF CountsSeen
  <2> QED BY <2>1
<1>4. \A d \in Dirs : In(d) # {} => In(d) = InDirection(f, d)
  <2> SUFFICES ASSUME NEW d \in Dirs, In(d) # {} PROVE In(d) = InDirection(f, d)
    OBVIOUS
  <2>1. Cardinality(In(d)) = Size[f][d]
    BY <1>1 DEF CountsSeen
  <2>2. IsFiniteSet(InDirection(f, d)) /\ Cardinality(InDirection(f, d)) = Size[f][d]
    BY DirectionSize
  <2>3. In(d) \in SUBSET InDirection(f, d)
    OBVIOUS
  <2> HIDE DEF In
  <2> QED BY <2>1, <2>2, <2>3, FS_Subset
<1>5. \A d \in Dirs : Size[f][d] \in Nat
  BY SizeType
<1>6. \A d \in Dirs : Size[f][d] = 0 => InDirection(f, d) = {}
  BY <1>5 DEF InDirection
<1>7. \A d \in Dirs : In(d) = InDirection(f, d)
  <2>1. CASE BothWays(f)
    <3> HIDE DEF S
    <3>1. 0 \in S /\ 1 \in S
      BY <1>1, <1>2, <2>1, DirCount
    <3> QED BY <1>3, <1>4, <3>1 DEF Dirs
  <2>2. CASE ~BothWays(f)
    <3>1. Size[f][e] # 0
      BY <1>6
    <3>2. \A d \in Dirs \ {e} : Size[f][d] = 0
      BY <1>5, <2>2, <3>1 DEF BothWays, Dirs
    <3> QED BY <1>4, <1>6, <3>2
  <2> QED BY <2>1, <2>2
<1> SUFFICES ASSUME NEW q \in Of(f) PROVE q \in seen
  OBVIOUS
<1>8. q \in InDirection(f, q.dir) /\ q.dir \in Dirs
  BY InDirectionAll, OfFacts
<1> QED BY <1>7, <1>8

(* One more packet that was not seen before.                               *)
LEMMA OneMore ==
  ASSUME NEW p \in Packets, hist.seen \in SUBSET Packets, p \notin hist.seen
  PROVE  /\ Cardinality(InDirection(p.flow, p.dir) \cap (hist.seen \cup {p}))
              = Cardinality(SeenIn(p.flow, p.dir)) + 1
         /\ InDirection(p.flow, p.dir) \cap (hist.seen \cup {p}) # {}
         /\ \A e \in Dirs \ {p.dir} :
              InDirection(p.flow, e) \cap (hist.seen \cup {p}) = SeenIn(p.flow, e)
<1> DEFINE f == p.flow
           d == p.dir
           A == SeenIn(f, d)
<1>1. f \in Flows /\ d \in Dirs /\ p \in InDirection(f, d)
  BY PacketFacts, InDirectionAll
<1>2. \A e \in Dirs \ {d} : p \notin InDirection(f, e)
  BY <1>1, InDirectionFacts
<1>3. InDirection(f, d) \cap (hist.seen \cup {p}) = A \cup {p} /\ p \notin A
  BY <1>1 DEF SeenIn
<1>4. IsFiniteSet(A)
  BY <1>1, InFinite
<1> HIDE DEF A
<1>5. Cardinality(A \cup {p}) = Cardinality(A) + 1
  BY <1>3, <1>4, FS_AddElement
<1> QED BY <1>1, <1>2, <1>3, <1>5 DEF A, SeenIn

(* The object counts a packet that comes for the first time, also when it  *)
(* opens the flow or its direction.                                        *)
LEMMA PacketCounted ==
  ASSUME TypeOK, NEW p \in Packets, hist.seen \in SUBSET Packets, p \notin hist.seen,
         \/ ft[p.flow] # NoFlow /\ Tallies(p.flow)
         \/ ft[p.flow] = NoFlow /\ Of(p.flow) \cap hist.seen = {}
  PROVE  CountsSeen(Updated(p), p.flow, hist.seen \cup {p})
<1> DEFINE f == p.flow
           d == p.dir
           lg == Updated(p)
           seen == hist.seen \cup {p}
<1>1. f \in Flows /\ d \in Dirs /\ Size[f][d] \in Nat
  BY PacketFacts
<1>2. /\ Cardinality(InDirection(f, d) \cap seen) = Cardinality(SeenIn(f, d)) + 1
      /\ InDirection(f, d) \cap seen # {}
      /\ \A e \in Dirs \ {d} : InDirection(f, e) \cap seen = SeenIn(f, e)
  BY OneMore
<1> HIDE DEF seen
<1>3. CASE ft[f] # NoFlow /\ Tallies(f)
  <2>1. ft[f] \in FlowObject
    BY <1>1, <1>3 DEF TypeOK, FlowObject
  <2>2. /\ lg.both = ft[f].both
        /\ \A e \in Dirs \ {d} : lg.dir[e] = ft[f].dir[e]
        /\ lg.dir[d].pkts = ft[f].dir[d].pkts + 1
        /\ lg.dir[d].size = IF ft[f].dir[d].pkts = 0 THEN Size[f][d] ELSE ft[f].dir[d].size
    BY <2>1, UpdatedFields
  <2> HIDE DEF lg
  <2>3. /\ ft[f].both = BothWays(f)
        /\ \A e \in Dirs :
             /\ ft[f].dir[e].pkts = Cardinality(SeenIn(f, e))
             /\ ft[f].dir[e].size = IF SeenIn(f, e) = {} THEN 0 ELSE Size[f][e]
    BY <1>3 DEF Tallies
  <2>4. SeenIn(f, d) = {} <=> ft[f].dir[d].pkts = 0
    BY <1>1, <2>3, InFinite
  <2>5. lg.dir[d].size = Size[f][d]
    BY <1>1, <2>2, <2>3, <2>4
  <2>6. \A e \in Dirs :
          /\ lg.dir[e].pkts = Cardinality(InDirection(f, e) \cap seen)
          /\ lg.dir[e].size = IF InDirection(f, e) \cap seen = {} THEN 0 ELSE Size[f][e]
    <3> SUFFICES ASSUME NEW e \in Dirs
                 PROVE  /\ lg.dir[e].pkts = Cardinality(InDirection(f, e) \cap seen)
                        /\ lg.dir[e].size = IF InDirection(f, e) \cap seen = {} THEN 0 ELSE Size[f][e]
      OBVIOUS
    <3>1. CASE e = d
      BY <1>1, <1>2, <2>2, <2>3, <2>5, <3>1
    <3>2. CASE e # d
      BY <1>2, <2>2, <2>3, <3>2
    <3> QED BY <3>1, <3>2
  <2> QED BY <2>2, <2>3, <2>6 DEF CountsSeen, lg, seen
<1>4. CASE ft[f] = NoFlow /\ Of(f) \cap hist.seen = {}
  <2>1. lg = NewFlow(p)
    BY <1>4 DEF Updated
  <2>2. \A e \in Dirs : SeenIn(f, e) = {}
    BY <1>1, <1>4, InDirectionFacts DEF SeenIn
  <2>3. Cardinality({}) = 0
    BY FS_EmptySet
  <2>4. lg.both = BothWays(f)
    BY <2>1 DEF NewFlow, BothWays
  <2>5. \A e \in Dirs : lg.dir[e] = IF e = d THEN set_fif_seen(Size[f][e]) ELSE Unseen
    BY <2>1 DEF NewFlow
  <2> HIDE DEF lg
  <2>6. lg.dir[d].pkts = 1 /\ lg.dir[d].size = Size[f][d]
    <3>1. lg.dir[d] = set_fif_seen(Size[f][d])
      BY <1>1, <2>5
    <3> QED BY <3>1 DEF set_fif_seen
  <2>7. \A e \in Dirs \ {d} : lg.dir[e].pkts = 0 /\ lg.dir[e].size = 0
    BY <2>5 DEF Unseen
  <2>8. Cardinality(InDirection(f, d) \cap seen) = 1
    BY <1>1, <1>2, <2>2, <2>3
  <2>9. \A e \in Dirs \ {d} : InDirection(f, e) \cap seen = {}
    BY <1>2, <2>2
  <2> QED BY <1>2, <2>3, <2>4, <2>6, <2>7, <2>8, <2>9 DEF CountsSeen, lg, seen
<1> QED BY <1>3, <1>4

LEMMA LossHandle ==
  ASSUME Base, NEW p \in Packets, LossInv(p.flow), handle_packet(p)
  PROVE  LossInv(p.flow)'
<1> DEFINE f == p.flow
           lg == Updated(p)
<1> SUFFICES ASSUME Of(f) \cap hist'.dup = {}, f \notin hist'.late
             PROVE  /\ OnePlace(f)'
                    /\ \/ ft'[f] # NoFlow /\ Tallies(f)' /\ drops'[f] = 0
                       \/ ft'[f] = NoFlow /\ UnderWay(f)' = {} /\ drops'[f] = 0
  <2>1. 0 <= Cardinality(Losses(f)')
    <3>1. \A h \in Flows : Cardinality(Losses(h)) \in Nat
      BY LossesSplit
    <3>2. Losses(f)' = Losses(f)
      <4>1. hist \in Hist /\ Arrives(p)
        BY DEF Base, Env, Hist, handle_packet
      <4> QED BY <4>1, HistArrives DEF Losses
    <3> QED BY <3>1, <3>2, PacketFacts
  <2> QED BY <2>1 DEF LossInv
<1>1. /\ ~stopped /\ Arrives(p) /\ drops' = drops
      /\ ft' = IF is_all_pkts_seen(lg) THEN [ft EXCEPT ![f] = NoFlow] ELSE [ft EXCEPT ![f] = lg]
  BY Zenon DEF handle_packet
<1>2. hist \in Hist /\ f \in Flows /\ p.dir \in Dirs /\ p \in Of(f)
  BY PacketFacts DEF Base, Env, Hist
<1>3. /\ hist'.seen = hist.seen \cup {p} /\ hist'.lost = hist.lost /\ hist'.dup = hist.dup
      /\ hist'.late = hist.late
  BY <1>1, <1>2, HistArrives
<1>4. net[p] > 0 /\ net' = [net EXCEPT ![p] = @ - 1]
  BY <1>1 DEF Arrives
<1>5. f \notin hist.drained
  BY <1>1, <1>2 DEF Base, Env
<1>6. p \in UnderWay(f)
  BY <1>2, <1>4 DEF UnderWay
<1>7. /\ OnePlace(f) /\ drops[f] = 0
      /\ \/ ft[f] # NoFlow /\ Tallies(f)
         \/ ft[f] = NoFlow /\ Of(f) \cap hist.seen = {}
  BY <1>3, <1>5, <1>6 DEF LossInv
<1>8. net[p] = 1 /\ p \notin hist.seen \cup hist.lost
  BY <1>2, <1>4, <1>7 DEF OnePlace
<1>9. OnePlace(f)'
  <2>1. \A q \in Of(f) : q \in Packets
    BY DEF Of
  <2>2. net'[p] = 0 /\ \A q \in Of(f) : q # p => net'[q] = net[q]
    BY <1>4, <1>8, <2>1 DEF Base, TypeOK
  <2> QED BY <1>3, <1>7, <1>8, <2>2 DEF OnePlace
<1>10. CountsSeen(lg, f, hist'.seen) /\ lg \in FlowObject
  <2>1. hist.seen \in SUBSET Packets
    BY <1>2, HistType
  <2> QED BY <1>3, <1>7, <1>8, <2>1, PacketCounted, UpdatedType DEF Base
<1> HIDE DEF lg
<1>11. ft'[f] = IF is_all_pkts_seen(lg) THEN NoFlow ELSE lg
  BY <1>1, <1>2 DEF Base, TypeOK
<1>12. drops'[f] = 0
  BY <1>1, <1>7
<1>13. CASE is_all_pkts_seen(lg)
  <2>1. InDirection(f, p.dir) \cap hist'.seen # {}
    BY <1>2, <1>3, InDirectionAll
  <2>2. Of(f) \subseteq hist'.seen
    BY <1>2, <1>10, <1>13, <2>1, AllCame
  <2>3. UnderWay(f)' = {}
    BY <1>9, <2>2 DEF OnePlace, UnderWay
  <2> QED BY <1>9, <1>11, <1>12, <1>13, <2>3
<1>14. CASE ~is_all_pkts_seen(lg)
  <2>1. ft'[f] = lg /\ ft'[f] # NoFlow
    BY <1>10, <1>11, <1>14, ObjectIsNoNoFlow
  <2>2. Tallies(f)'
    BY <1>10, <2>1 DEF Tallies, CountsSeen, SeenIn
  <2> QED BY <1>9, <1>12, <2>1, <2>2
<1> QED BY <1>13, <1>14

LEMMA LossFault ==
  ASSUME Base, NEW p \in Packets, LossInv(p.flow), Lose(p) \/ Duplicate(p) \/ handle_damaged(p)
  PROVE  LossInv(p.flow)'
<1> DEFINE f == p.flow
<1>1. hist \in Hist /\ f \in Flows /\ p \in Of(f)
  BY PacketFacts DEF Base, Env, Hist
<1>2. /\ net[p] > 0 /\ ft' = ft /\ drops' = drops
      /\ \/ hist' = [hist EXCEPT !.lost = @ \cup {p}] /\ net' = [net EXCEPT ![p] = 0]
         \/ hist' = [hist EXCEPT !.dup = @ \cup {p}]
  BY DEF Lose, Duplicate, handle_damaged, flowVars
<1>3. CASE hist' = [hist EXCEPT !.dup = @ \cup {p}]
  <2>1. p \in Of(f) \cap hist'.dup
    BY <1>1, <1>3 DEF Hist
  <2> QED BY <2>1 DEF LossInv
<1>4. CASE hist' = [hist EXCEPT !.lost = @ \cup {p}] /\ net' = [net EXCEPT ![p] = 0]
  <2>1. /\ hist'.lost = hist.lost \cup {p} /\ hist'.seen = hist.seen /\ hist'.dup = hist.dup
        /\ hist'.late = hist.late /\ hist'.drained = hist.drained
    BY <1>1, <1>4, HistStep
  <2> SUFFICES ASSUME Of(f) \cap hist.dup = {}, f \notin hist.late
               PROVE  LossInv(f)'
    BY <2>1 DEF LossInv
  <2>2. p \in UnderWay(f)
    BY <1>1, <1>2 DEF UnderWay
  <2>3. /\ OnePlace(f)
        /\ \/ ft[f] # NoFlow /\ Tallies(f) /\ drops[f] = 0
           \/ ft[f] = NoFlow /\ drops[f] = 0 /\ (Of(f) \cap hist.seen = {} \/ f \in hist.drained)
    BY <2>2 DEF LossInv
  <2>4. net[p] = 1 /\ p \notin hist.seen \cup hist.lost
    BY <1>1, <1>2, <2>3 DEF OnePlace
  <2>5. OnePlace(f)'
    <3>1. \A q \in Of(f) : q \in Packets
      BY DEF Of
    <3>2. net'[p] = 0 /\ \A q \in Of(f) : q # p => net'[q] = net[q]
      BY <1>4, <3>1 DEF Base, TypeOK
    <3> QED BY <2>1, <2>3, <2>4, <3>2 DEF OnePlace
  <2>6. Tallies(f) => Tallies(f)'
    BY <1>2, <2>1 DEF Tallies, SeenIn
  <2> QED BY <1>2, <2>1, <2>3, <2>5, <2>6 DEF LossInv
<1> QED BY <1>2, <1>3, <1>4

(* on_flow_end: what the flow still misses was lost, unless it is aged     *)
(* early or the wheel is drained.                                          *)
LEMMA LossAge ==
  ASSUME Base, NEW f \in Flows, LossInv(f), Age(f)
  PROVE  LossInv(f)'
<1>1. hist \in Hist /\ ft[f] \in FlowObject /\ ft[f] # NoFlow /\ f \notin hist.drained
  BY AgeBase DEF Base, Env, Hist
<1>2. ft'[f] = NoFlow /\ net' = net
  BY DEF Age, Base, TypeOK
<1>3. CASE phase = "drain"
  <2>1. hist' = [hist EXCEPT !.drained = @ \cup {f}] /\ drops' = drops
    BY <1>3 DEF Age
  <2>2. /\ hist'.drained = hist.drained \cup {f} /\ hist'.lost = hist.lost
        /\ hist'.seen = hist.seen /\ hist'.dup = hist.dup /\ hist'.late = hist.late
    BY <1>1, <2>1, HistStep, HistType DEF Hist
  <2>3. OnePlace(f) => OnePlace(f)'
    BY <1>2, <2>2 DEF OnePlace
  <2> QED BY <1>1, <1>2, <2>1, <2>2, <2>3 DEF LossInv
<1>4. CASE phase # "drain"
  <2>1. /\ hist' = [hist EXCEPT !.late = IF UnderWay(f) # {} THEN @ \cup {f} ELSE @]
        /\ drops' = [drops EXCEPT ![f] = @ + Missing(ft[f])]
    BY <1>4 DEF Age
  <2>2. /\ hist'.late = IF UnderWay(f) # {} THEN hist.late \cup {f} ELSE hist.late
        /\ hist'.seen = hist.seen /\ hist'.lost = hist.lost /\ hist'.dup = hist.dup
    BY <1>1, <2>1, HistAged
  <2> SUFFICES ASSUME Of(f) \cap hist.dup = {}, f \notin hist'.late
               PROVE  LossInv(f)'
    BY <2>2 DEF LossInv
  <2>3. UnderWay(f) = {} /\ f \notin hist.late
    BY <2>2
  <2>4. OnePlace(f) /\ Tallies(f) /\ drops[f] = 0
    BY <1>1, <2>3 DEF LossInv
  <2>5. OnePlace(f)' /\ UnderWay(f)' = {} /\ Losses(f)' = Losses(f)
    BY <1>2, <2>2, <2>3, <2>4 DEF OnePlace, UnderWay, Losses
  <2>6. Missing(ft[f]) \in Nat /\ Missing(ft[f]) <= Cardinality(Losses(f))
    BY <1>1, <2>3, <2>4, MissingIsLost, MissingType
  <2>7. drops'[f] = Missing(ft[f])
    BY <2>1, <2>4, <2>6 DEF Base, TypeOK
  <2> QED BY <1>2, <2>5, <2>6, <2>7 DEF LossInv
<1> QED BY <1>3, <1>4

-----------------------------------------------------------------------------
(***************************************************************************)
(* The invariant of the receiver.                                          *)
(***************************************************************************)
LEMMA RxInit == Init => RxInv
<1> SUFFICES ASSUME Init PROVE RxInv
  OBVIOUS
<1>1. Base
  BY BaseInit
<1>2. /\ ft = [f \in Flows |-> NoFlow] /\ errs = [f \in Flows |-> {}]
      /\ drops = [f \in Flows |-> 0] /\ net = [p \in Packets |-> 1]
      /\ hist.seen = {} /\ hist.lost = {} /\ hist.dup = {}
  BY DEF Init
<1>3. ASSUME NEW f \in Flows PROVE CleanInv(f) /\ LossInv(f)
  <2> DEFINE k == [d \in Dirs |-> 0]
  <2>1. \A p \in Of(f) : net[p] = 1
    BY <1>2 DEF Of
  <2>2. \A p \in Of(f) : p.dir \in Dirs /\ p.id \in Nat
    BY OfFacts
  <2>3. \A p \in Of(f) : ~(p.id < k[p.dir])
    BY <2>2
  <2>4. k \in Counts(f) /\ Untouched(k)
    BY SizeType DEF Counts, Untouched
  <2> HIDE DEF k
  <2>5. InOrder(f, k)
    BY <1>2, <2>1, <2>3, <2>4 DEF InOrder
  <2>6. CleanInv(f)
    BY <1>2, <2>4, <2>5 DEF CleanInv
  <2>7. OnePlace(f)
    BY <1>2, <2>1 DEF OnePlace
  <2>8. LossInv(f)
    BY <1>2, <2>7 DEF LossInv
  <2> QED BY <2>6, <2>8
<1> QED BY <1>1, <1>3 DEF RxInv, Base

(* A step that is about flow f and leaves the others alone.                *)
LEMMA OneFlow ==
  ASSUME RxInv, NEW f \in Flows, OthersSame(f), Base', CleanInv(f)', LossInv(f)'
  PROVE  RxInv'
<1>1. ASSUME NEW g \in Flows PROVE CleanInv(g)' /\ LossInv(g)'
  <2>1. CASE g = f
    BY <2>1
  <2>2. CASE g # f
    BY <2>2, CleanFrame, LossFrame DEF OthersSame, RxInv
  <2> QED BY <2>1, <2>2
<1> QED BY <1>1 DEF RxInv, Base

LEMMA RxStep == RxInv /\ [Next]_vars => RxInv'
<1> SUFFICES ASSUME RxInv, [Next]_vars PROVE RxInv'
  OBVIOUS
<1>1. Base /\ \A f \in Flows : CleanInv(f) /\ LossInv(f)
  BY DEF RxInv, Base
<1>2. CASE Tick \/ EndPass \/ tw_drain
  BY <1>2, ClockSteps
<1>3. ASSUME NEW p \in Packets, Lose(p) \/ Duplicate(p) \/ handle_damaged(p)
      PROVE  RxInv'
  BY <1>1, <1>3, PacketFacts, FaultOthers, NetBase, CleanFault, LossFault, OneFlow
<1>4. ASSUME NEW p \in Packets, handle_packet(p)
      PROVE  RxInv'
  BY <1>1, <1>4, PacketFacts, HandleOthers, HandleBase, CleanHandle, LossHandle, OneFlow
<1>5. ASSUME NEW f \in Flows, Age(f)
      PROVE  RxInv'
  BY <1>1, <1>5, AgeOthers, AgeBase, CleanAge, LossAge, OneFlow
<1>6. CASE UNCHANGED vars
  <2>1. UNCHANGED <<ft, errs, drops, net, hist>> /\ Base'
    BY <1>1, <1>6 DEF vars, dvars, flowVars, envVars, Base, TypeOK, FlowHasTimer, Env
  <2>2. \A g \in Flows : SameFlow(g)
    BY <2>1 DEF SameFlow
  <2> QED BY <1>1, <2>1, <2>2, CleanFrame, LossFrame DEF RxInv, Base
<1> QED BY <1>2, <1>3, <1>4, <1>5, <1>6 DEF Next

(* A clean flow that has nothing under way is over, or was drained.        *)
LEMMA CleanIsOver ==
  ASSUME RxInv, NEW f \in Flows, Clean(f), UnderWay(f) = {}
  PROVE  ft[f] = NoFlow
<1>1. CASE f \in hist.drained
  BY <1>1 DEF RxInv, Env
<1>2. CASE f \notin hist.drained
  <2>1. PICK k \in Counts(f) : InOrder(f, k)
    BY <1>2 DEF RxInv, CleanInv
  <2> SUFFICES ASSUME NEW d \in Dirs, k[d] # Size[f][d] PROVE FALSE
    BY <2>1 DEF InOrder, Complete
  <2>2. k[d] \in Nat /\ k[d] < Size[f][d]
    BY <2>1, SizeType DEF Counts
  <2> DEFINE q == [flow |-> f, dir |-> d, id |-> k[d]]
  <2>3. q \in Of(f) /\ q.id = k[d] /\ q.dir = d
    BY <2>2, PacketMade
  <2> HIDE DEF q
  <2>4. net[q] = 1
    BY <2>1, <2>2, <2>3 DEF InOrder
  <2> QED BY <2>3, <2>4 DEF UnderWay
<1> QED BY <1>1, <1>2

(* The inductive invariant of rx_check.cpp holds in every reachable state, *)
(* for any flows, sizes, aging time and faults of the network.             *)
THEOREM RxInvariant == Spec => []RxInv
<1>1. Init => RxInv
  BY RxInit
<1>2. RxInv /\ [Next]_vars => RxInv'
  BY RxStep
<1> QED BY <1>1, <1>2, PTL DEF Spec

(* A flow is in CRxCheckFlowTableMap exactly while its aging timer runs:   *)
(* handle_packet, flow_aging_callback and tw_drain never leave a flow that *)
(* nothing removes, nor a timer whose flow was freed.                      *)
THEOREM TableStaysSound == Spec => []TableSound
<1>1. RxInv => TableSound
  BY DEF RxInv, TableSound
<1> QED BY <1>1, RxInvariant, PTL

(* handle_packet and on_flow_end count no error and no drop for a flow     *)
(* whose packets come once, in the order of their direction and in time;   *)
(* such a flow is gone with its last packet.                               *)
THEOREM CleanFlowsRaiseNoAlarm == Spec => []NoFalseAlarm
<1>1. RxInv => NoFalseAlarm
  BY CleanIsOver DEF RxInv, CleanInv, NoFalseAlarm
<1> QED BY <1>1, RxInvariant, PTL

(* What on_flow_end adds to m_err_drop for a flow without duplicates, aged *)
(* with nothing under way, is at most what the device lost.                *)
THEOREM CountedDropsAreLosses == Spec => []DropsAreLosses
<1>1. ASSUME RxInv PROVE DropsAreLosses
  <2> SUFFICES ASSUME NEW f \in Flows, Of(f) \cap hist.dup = {}, f \notin hist.late
               PROVE  drops[f] <= Cardinality(Losses(f))
    BY DEF DropsAreLosses, Losses
  <2>1. Cardinality(Losses(f)) \in Nat
    BY LossesSplit
  <2> QED BY <1>1, <2>1 DEF RxInv, LossInv
<1> QED BY <1>1, RxInvariant, PTL
-----------------------------------------------------------------------------
(***************************************************************************)
(* Faults are reported: what holds of a flow for which no error is counted.*)
(***************************************************************************)
(* A direction that has begun knows its length.                            *)
Shaped(lf, f) ==
  /\ lf.both = BothWays(f)
  /\ \A d \in Dirs : lf.dir[d].size = IF lf.dir[d].pkts = 0 THEN 0 ELSE Size[f][d]

(* Where the copies of a packet are, when none is lost.                    *)
Copies(f) ==
  \A p \in Of(f) :
    IF p \in hist.dup THEN net[p] = 2 <=> p \notin hist.seen
    ELSE net[p] = IF p \in hist.seen THEN 0 ELSE 1

SeenOf(f) == Of(f) \cap hist.seen

(* The duplicates both copies of which have come.                          *)
CameTwice(f) == {p \in Of(f) \cap hist.dup : net[p] = 0}

Total(f) == Size[f][0] + Size[f][1]

Got(lf) == IF lf = NoFlow THEN 0 ELSE lf.dir[0].pkts + lf.dir[1].pkts

(* The arrivals are those the object counts, and those of the rounds of    *)
(* the flow that were taken for complete: at most two.                     *)
Accounted(f) ==
  \E n \in {0, Total(f), Total(f) + Total(f)} :
    Cardinality(SeenOf(f)) + Cardinality(CameTwice(f)) = n + Got(ft[f])

(* A flow that has gone without an error has come as a whole.              *)
Finished(f) == ft[f] = NoFlow /\ SeenOf(f) # {} => Of(f) \subseteq hist.seen

(* In a direction that counts no error, all the packets before the one it  *)
(* waits for have come, but for the first: the direction may have begun    *)
(* with any packet.                                                        *)
InSequence(f) ==
  ft[f] # NoFlow =>
    \A d \in Dirs :
      ft[f].dir[d].pkts > 0 =>
        /\ ft[f].dir[d].seq >= 1
        /\ \A p \in InDirection(f, d) :
             1 <= p.id /\ p.id < ft[f].dir[d].seq => p \in hist.seen

(* A direction has begun and its first packet has not come.                *)
Skipped(f) ==
  \E d \in Dirs :
    /\ SeenIn(f, d) # {}
    /\ \E q \in InDirection(f, d) : q.id = 0 /\ q \notin hist.seen

ReportInv(f) ==
  /\ ft[f] # NoFlow => Shaped(ft[f], f)
  /\ errs[f] = {} =>
       /\ f \notin hist.late
       /\ Losses(f) = {} /\ f \notin hist.drained => Copies(f) /\ Accounted(f)
       /\ Of(f) \cap hist.dup = {} /\ f \notin hist.drained =>
            /\ Finished(f) /\ InSequence(f)
            /\ Losses(f) = {} /\ f \in hist.reordered => ft[f] # NoFlow /\ Skipped(f)

LEMMA TotalIsCount ==
  ASSUME NEW f \in Flows
  PROVE  /\ IsFiniteSet(Of(f)) /\ Cardinality(Of(f)) = Total(f) /\ Total(f) \in Nat
<1>1. 0 \in Dirs /\ 1 \in Dirs
  BY DEF Dirs
<1>2. /\ IsFiniteSet(InDirection(f, 0)) /\ Cardinality(InDirection(f, 0)) = Size[f][0]
      /\ IsFiniteSet(InDirection(f, 1)) /\ Cardinality(InDirection(f, 1)) = Size[f][1]
      /\ Size[f][0] \in Nat /\ Size[f][1] \in Nat
  BY <1>1, DirectionSize, SizeType
<1>3. Of(f) = InDirection(f, 0) \cup InDirection(f, 1)
  <2>1. \A p \in Of(f) : p \in InDirection(f, p.dir) /\ p.dir \in {0, 1}
    BY InDirectionAll, OfFacts DEF Dirs
  <2>2. InDirection(f, 0) \subseteq Of(f) /\ InDirection(f, 1) \subseteq Of(f)
    BY <1>1, InDirectionFacts
  <2> QED BY <2>1, <2>2
<1>4. InDirection(f, 0) \cap InDirection(f, 1) = {}
  <2>1. \A p \in InDirection(f, 0) : p \notin InDirection(f, 1)
    BY <1>1, InDirectionFacts
  <2> QED BY <2>1
<1>5. IsFiniteSet(InDirection(f, 0) \cup InDirection(f, 1))
  BY <1>2, FS_Union
<1>6. Cardinality(InDirection(f, 0) \cup InDirection(f, 1))
        = Cardinality(InDirection(f, 0)) + Cardinality(InDirection(f, 1))
  BY <1>2, <1>4, DisjointUnion
<1> QED BY <1>2, <1>3, <1>5, <1>6 DEF Total

LEMMA GotType ==
  ASSUME NEW lf \in FlowObject
  PROVE  /\ Got(lf) = lf.dir[0].pkts + lf.dir[1].pkts /\ Got(lf) \in Nat
         /\ Got(NoFlow) = 0
<1>1. lf.dir[0].pkts \in Nat /\ lf.dir[1].pkts \in Nat
  BY ObjectType DEF Dirs
<1>2. lf # NoFlow
  BY ObjectIsNoNoFlow
<1> QED BY <1>1, <1>2 DEF Got

(* Which packet a direction takes without counting an error: any one to    *)
(* begin with, then the one it waits for, and never the first again.       *)
LEMMA UpdatedSeq ==
  ASSUME TypeOK, NEW p \in Packets, ft[p.flow] \in FlowObject, Counted(p) = {}
  PROVE  LET x == ft[p.flow].dir[p.dir]
         IN  /\ x.pkts = 0 => Updated(p).dir[p.dir].seq = 1
             /\ x.pkts > 0 => /\ p.id > 0 /\ p.id = x.seq
                              /\ Updated(p).dir[p.dir].seq = p.id + 1
<1> DEFINE lf == ft[p.flow]
           d == p.dir
           x == lf.dir[d]
           bad == (lf.oo \/ OrderError(lf.dir[d].seq, p.id) # {})
<1>1. d \in Dirs /\ p.id \in Nat /\ lf # NoFlow /\ lf.dir \in [Dirs -> Directions]
  BY PacketFacts, ObjectIsNoNoFlow DEF FlowObject
<1>2. x \in Directions /\ x.pkts \in Nat /\ x.seq \in Nat
  BY <1>1, ObjectType
<1>3. \A y \in Directions : /\ [lf EXCEPT !.dir[d] = y].dir[d] = y
                            /\ [lf EXCEPT !.dir[d] = y] \in FlowObject
  BY <1>1 DEF FlowObject
<1>4. \A lg \in FlowObject : \A c : [lg EXCEPT !.oo = c].dir = lg.dir
  BY DEF FlowObject
<1>5. CASE x.pkts = 0
  <2>1. Updated(p) = [lf EXCEPT !.dir[d] = set_fif_seen(Size[p.flow][d])]
    BY <1>1, <1>2, <1>5 DEF Updated, is_fif_seen
  <2>2. set_fif_seen(Size[p.flow][d]) \in Directions
    BY PacketFacts, FifType
  <2>3. set_fif_seen(Size[p.flow][d]).seq = 1
    BY DEF set_fif_seen
  <2>4. Updated(p).dir[d] = set_fif_seen(Size[p.flow][d])
    BY <1>3, <2>1, <2>2
  <2> QED BY <1>5, <2>3, <2>4
<1>6. CASE x.pkts > 0
  <2>1. is_fif_seen(x)
    BY <1>6 DEF is_fif_seen
  <2>2. p.id # 0 /\ OrderError(x.seq, p.id) = {}
    BY <1>1, <2>1 DEF Counted
  <2>3. p.id = x.seq
    BY <1>1, <1>2, <2>2 DEF OrderError
  <2> DEFINE y == NextInDir(x, p.id)
             lg == [lf EXCEPT !.dir[d] = y]
  <2>4. Updated(p) = [[lf EXCEPT !.dir[d] = y] EXCEPT !.oo = bad]
    BY <1>1, <2>1, <2>2 DEF Updated
  <2>5. y \in Directions
    BY <1>1, <1>2, DirectionType
  <2>6. y.seq = p.id + 1
    <3>1. x = [size |-> x.size, pkts |-> x.pkts, seq |-> x.seq]
      BY <1>2 DEF Directions
    <3>2. y = [size |-> x.size, pkts |-> x.pkts + 1, seq |-> p.id + 1]
      BY <3>1, NextFields
    <3> QED BY <3>2
  <2> HIDE DEF y
  <2>7. lg.dir[d] = y /\ lg \in FlowObject
    BY <1>3, <2>5
  <2>8. Updated(p) = [lg EXCEPT !.oo = bad]
    BY <2>4
  <2> HIDE DEF lg, bad
  <2>9. Updated(p).dir = lg.dir
    BY <1>4, <2>7, <2>8
  <2> QED BY <1>1, <1>6, <2>2, <2>3, <2>6, <2>7, <2>9
<1> QED BY <1>2, <1>5, <1>6

(* handle_packet counts every packet once and keeps the shape of its flow. *)
LEMMA UpdatedShape ==
  ASSUME TypeOK, NEW p \in Packets,
         ft[p.flow] # NoFlow => Shaped(ft[p.flow], p.flow)
  PROVE  /\ Shaped(Updated(p), p.flow)
         /\ Got(Updated(p)) = Got(ft[p.flow]) + 1
         /\ Got(ft[p.flow]) \in Nat
         /\ Updated(p).dir[p.dir].pkts > 0
<1> DEFINE f == p.flow
           d == p.dir
           lf == ft[f]
           lg == Updated(p)
<1>1. f \in Flows /\ d \in Dirs /\ Size[f][d] \in Nat
  BY PacketFacts
<1>2. lg \in FlowObject
  BY UpdatedType
<1>3. Got(lg) = lg.dir[0].pkts + lg.dir[1].pkts
  BY <1>2, GotType
<1>4. CASE lf # NoFlow
  <2>1. lf \in FlowObject
    BY <1>1, <1>4 DEF TypeOK, FlowObject
  <2>2. /\ lg.both = lf.both
        /\ \A e \in Dirs \ {d} : lg.dir[e] = lf.dir[e]
        /\ lg.dir[d].pkts = lf.dir[d].pkts + 1
        /\ lg.dir[d].size = IF lf.dir[d].pkts = 0 THEN Size[f][d] ELSE lf.dir[d].size
    BY <2>1, UpdatedFields
  <2>3. /\ lf.both = BothWays(f)
        /\ \A e \in Dirs : lf.dir[e].size = IF lf.dir[e].pkts = 0 THEN 0 ELSE Size[f][e]
    BY <1>4 DEF Shaped
  <2>4. \A e \in Dirs : lf.dir[e].pkts \in Nat
    BY <2>1, ObjectType
  <2>5. Got(lf) = lf.dir[0].pkts + lf.dir[1].pkts
    BY <2>1, GotType
  <2> HIDE DEF lg, lf
  <2>6. Shaped(lg, f)
    <3>1. ASSUME NEW e \in Dirs
          PROVE  lg.dir[e].size = IF lg.dir[e].pkts = 0 THEN 0 ELSE Size[f][e]
      <4>1. CASE e = d
        BY <1>1, <2>2, <2>3, <2>4, <4>1
      <4>2. CASE e # d
        BY <2>2, <2>3, <4>2
      <4> QED BY <4>1, <4>2
    <3> QED BY <2>2, <2>3, <3>1 DEF Shaped
  <2>7. lg.dir[0].pkts + lg.dir[1].pkts = lf.dir[0].pkts + lf.dir[1].pkts + 1
        /\ lf.dir[0].pkts + lf.dir[1].pkts \in Nat
    BY <1>1, <2>2, <2>4 DEF Dirs
  <2>8. lg.dir[d].pkts > 0
    BY <1>1, <2>2, <2>4
  <2> QED BY <1>3, <2>5, <2>6, <2>7, <2>8 DEF lg, lf
<1>5. CASE lf = NoFlow
  <2>1. lg = NewFlow(p) /\ Got(lf) = 0
    BY <1>5 DEF Updated, Got
  <2>2. lg.both = BothWays(f)
    BY <2>1 DEF NewFlow, BothWays
  <2>3. \A e \in Dirs : lg.dir[e] = IF e = d THEN set_fif_seen(Size[f][e]) ELSE Unseen
    BY <2>1 DEF NewFlow
  <2> HIDE DEF lg, lf
  <2>4. \A e \in Dirs : /\ lg.dir[e].pkts = IF e = d THEN 1 ELSE 0
                        /\ lg.dir[e].size = IF e = d THEN Size[f][e] ELSE 0
    <3> SUFFICES ASSUME NEW e \in Dirs
                 PROVE  /\ lg.dir[e].pkts = IF e = d THEN 1 ELSE 0
                        /\ lg.dir[e].size = IF e = d THEN Size[f][e] ELSE 0
      OBVIOUS
    <3>1. CASE e = d
      <4>1. lg.dir[e] = set_fif_seen(Size[f][e])
        BY <2>3, <3>1
      <4> QED BY <3>1, <4>1 DEF set_fif_seen
    <3>2. CASE e # d
      <4>1. lg.dir[e] = Unseen
        BY <2>3, <3>2
      <4> QED BY <3>2, <4>1 DEF Unseen
    <3> QED BY <3>1, <3>2
  <2>5. Shaped(lg, f)
    BY <2>2, <2>4 DEF Shaped
  <2>6. lg.dir[0].pkts + lg.dir[1].pkts = 1
    BY <1>1, <2>4 DEF Dirs
  <2> QED BY <1>1, <1>3, <2>1, <2>4, <2>5, <2>6 DEF lg, lf
<1> QED BY <1>4, <1>5

(* A flow that handle_packet takes for complete has as many arrivals as    *)
(* packets.                                                                *)
LEMMA CompleteHasTotal ==
  ASSUME NEW f \in Flows, NEW lf \in FlowObject, NEW e \in Dirs, Shaped(lf, f),
         lf.dir[e].pkts > 0, is_all_pkts_seen(lf)
  PROVE  Got(lf) = Total(f)
<1> DEFINE S == {d \in Dirs : lf.dir[d].size > 0}
<1>1. /\ \A d \in Dirs : lf.dir[d].pkts = lf.dir[d].size
      /\ Cardinality(S) = IF BothWays(f) THEN 2 ELSE 1
  BY DEF is_all_pkts_seen, Shaped
<1>2. S \in SUBSET Dirs
  OBVIOUS
<1>3. \A d \in Dirs : /\ lf.dir[d].pkts \in Nat /\ Size[f][d] \in Nat
                      /\ lf.dir[d].pkts = IF lf.dir[d].pkts = 0 THEN 0 ELSE Size[f][d]
  BY <1>1, ObjectType, SizeType DEF Shaped
<1>4. \A d \in Dirs : lf.dir[d].pkts = Size[f][d]
  <2>1. CASE BothWays(f)
    <3> HIDE DEF S
    <3>1. 0 \in S /\ 1 \in S
      BY <1>1, <1>2, <2>1, DirCount
    <3>2. \A d \in Dirs : lf.dir[d].size > 0
      BY <3>1 DEF S, Dirs
    <3> QED BY <1>1, <1>3, <3>2
  <2>2. CASE ~BothWays(f)
    <3>1. Size[f][e] > 0 /\ lf.dir[e].pkts = Size[f][e]
      BY <1>3
    <3>2. \A d \in Dirs \ {e} : Size[f][d] = 0
      BY <1>3, <2>2, <3>1 DEF BothWays, Dirs
    <3>3. \A d \in Dirs \ {e} : lf.dir[d].pkts = 0
      BY <1>3, <3>2
    <3> QED BY <3>1, <3>2, <3>3
  <2> QED BY <2>1, <2>2
<1>5. Got(lf) = lf.dir[0].pkts + lf.dir[1].pkts
  BY GotType
<1> QED BY <1>4, <1>5 DEF Total, Dirs

-----------------------------------------------------------------------------
LEMMA ReportFrame ==
  ASSUME NEW g \in Flows, SameFlow(g), ReportInv(g)
  PROVE  ReportInv(g)'
<1>1. /\ ft'[g] = ft[g] /\ errs'[g] = errs[g]
      /\ g \in hist'.reordered <=> g \in hist.reordered
      /\ g \in hist'.late <=> g \in hist.late
      /\ g \in hist'.drained <=> g \in hist.drained
      /\ \A p \in Of(g) : /\ net'[p] = net[p]
                          /\ p \in hist'.seen <=> p \in hist.seen
                          /\ p \in hist'.lost <=> p \in hist.lost
                          /\ p \in hist'.dup <=> p \in hist.dup
  BY DEF SameFlow
<1>2. Losses(g)' = Losses(g) /\ SeenOf(g)' = SeenOf(g) /\ CameTwice(g)' = CameTwice(g)
      /\ Of(g) \cap hist'.dup = Of(g) \cap hist.dup
  BY <1>1 DEF Losses, SeenOf, CameTwice
<1>3. Accounted(g) => Accounted(g)'
  BY <1>1, <1>2 DEF Accounted
<1>4. Copies(g) => Copies(g)'
  BY <1>1 DEF Copies
<1>5. Finished(g) => Finished(g)'
  BY <1>1, <1>2 DEF Finished
<1>6. InSequence(g) => InSequence(g)'
  <2>1. \A d \in Dirs : InDirection(g, d) \subseteq Of(g)
    BY InDirectionFacts
  <2> QED BY <1>1, <2>1 DEF InSequence
<1>7. Skipped(g) => Skipped(g)'
  <2>1. \A d \in Dirs : InDirection(g, d) \subseteq Of(g)
    BY InDirectionFacts
  <2>2. \A d \in Dirs : SeenIn(g, d)' = SeenIn(g, d)
    BY <1>1, <2>1 DEF SeenIn
  <2> QED BY <1>1, <2>1, <2>2 DEF Skipped
<1> QED BY <1>1, <1>2, <1>3, <1>4, <1>5, <1>6, <1>7 DEF ReportInv

LEMMA ReportAge ==
  ASSUME Base, NEW f \in Flows, ReportInv(f), Age(f)
  PROVE  ReportInv(f)'
<1>1. hist \in Hist /\ ft'[f] = NoFlow
  BY DEF Base, Env, Hist, Age, TypeOK
<1>2. CASE phase = "drain"
  <2>1. hist' = [hist EXCEPT !.drained = @ \cup {f}] /\ errs' = errs
    BY <1>2 DEF Age
  <2>2. hist'.drained = hist.drained \cup {f} /\ hist'.late = hist.late
    BY <1>1, <2>1 DEF Hist
  <2> QED BY <1>1, <2>1, <2>2 DEF ReportInv
<1>3. CASE phase # "drain"
  <2>1. errs' = [errs EXCEPT ![f] = @ \cup {"aged"}]
    BY <1>3 DEF Age
  <2>2. errs'[f] # {}
    BY <2>1 DEF Base, TypeOK
  <2> QED BY <1>1, <2>2 DEF ReportInv
<1> QED BY <1>2, <1>3

LEMMA ReportFault ==
  ASSUME Base, NEW p \in Packets, ReportInv(p.flow), Lose(p) \/ Duplicate(p) \/ handle_damaged(p)
  PROVE  ReportInv(p.flow)'
<1> DEFINE f == p.flow
<1>1. hist \in Hist /\ f \in Flows /\ p \in Of(f)
  BY PacketFacts DEF Base, Env, Hist
<1>2. ft' = ft
  BY DEF Lose, Duplicate, handle_damaged, flowVars
<1>3. CASE Lose(p)
  <2>1. hist' = [hist EXCEPT !.lost = @ \cup {p}] /\ errs' = errs
    BY <1>3 DEF Lose, flowVars
  <2>2. /\ hist'.lost = hist.lost \cup {p} /\ hist'.seen = hist.seen /\ hist'.dup = hist.dup
        /\ hist'.late = hist.late /\ hist'.drained = hist.drained
    BY <1>1, <2>1, HistStep
  <2>3. Losses(f)' # {}
    BY <1>1, <2>2 DEF Losses
  <2>4. Finished(f) => Finished(f)'
    BY <1>2, <2>2 DEF Finished, SeenOf
  <2>5. InSequence(f) => InSequence(f)'
    BY <1>2, <2>2 DEF InSequence
  <2> QED BY <1>2, <2>1, <2>2, <2>3, <2>4, <2>5 DEF ReportInv
<1>4. CASE Duplicate(p)
  <2>1. /\ hist' = [hist EXCEPT !.dup = @ \cup {p}] /\ errs' = errs
        /\ net[p] > 0 /\ p \notin hist.dup /\ net' = [net EXCEPT ![p] = 2]
    BY <1>4 DEF Duplicate, flowVars
  <2>2. /\ hist'.dup = hist.dup \cup {p} /\ hist'.seen = hist.seen /\ hist'.lost = hist.lost
        /\ hist'.late = hist.late /\ hist'.drained = hist.drained
    BY <1>1, <2>1, HistStep
  <2>3. p \in Of(f) \cap hist'.dup
    BY <1>1, <2>2
  <2>4. net'[p] = 2 /\ \A q \in Of(f) : q # p => net'[q] = net[q]
    BY <2>1 DEF Base, TypeOK, Of
  <2>5. Losses(f)' = Losses(f) /\ SeenOf(f)' = SeenOf(f)
    BY <2>2 DEF Losses, SeenOf
  <2>6. Copies(f) => Copies(f)'
    <3> SUFFICES ASSUME Copies(f), NEW q \in Of(f)
                 PROVE  IF q \in hist'.dup THEN net'[q] = 2 <=> q \notin hist'.seen
                        ELSE net'[q] = IF q \in hist'.seen THEN 0 ELSE 1
      BY DEF Copies
    <3>1. CASE q = p
      <4>1. p \notin hist.seen
        BY <1>1, <2>1 DEF Copies
      <4> QED BY <2>2, <2>4, <3>1, <4>1
    <3>2. CASE q # p
      BY <2>2, <2>4, <3>2 DEF Copies
    <3> QED BY <3>1, <3>2
  <2>7. CameTwice(f)' = CameTwice(f)
    BY <2>1, <2>2, <2>4 DEF CameTwice
  <2>8. Accounted(f) => Accounted(f)'
    BY <1>2, <2>5, <2>7 DEF Accounted
  <2> QED BY <1>2, <2>1, <2>2, <2>3, <2>5, <2>6, <2>8 DEF ReportInv
<1>5. CASE handle_damaged(p)
  <2>1. PICK e : errs' = [errs EXCEPT ![f] = @ \cup {e}]
    BY <1>5 DEF handle_damaged
  <2>2. errs'[f] # {}
    BY <1>1, <2>1 DEF Base, TypeOK
  <2> QED BY <1>2, <2>2 DEF ReportInv
<1> QED BY <1>3, <1>4, <1>5

(* One more arrival of a flow that lost nothing: the packet is seen for    *)
(* the first time, or the last copy of a duplicate has come.               *)
LEMMA OneMoreArrival ==
  ASSUME Base, NEW p \in Packets, Arrives(p), Copies(p.flow)
  PROVE  /\ Copies(p.flow)'
         /\ Cardinality(SeenOf(p.flow)') + Cardinality(CameTwice(p.flow)')
              = Cardinality(SeenOf(p.flow)) + Cardinality(CameTwice(p.flow)) + 1
<1> DEFINE f == p.flow
           A == SeenOf(f)
           B == CameTwice(f)
<1>1. hist \in Hist /\ f \in Flows /\ p \in Of(f)
  BY PacketFacts DEF Base, Env, Hist
<1>2. hist'.seen = hist.seen \cup {p} /\ hist'.dup = hist.dup
  BY <1>1, HistArrives
<1>3. net[p] \in 1 .. 2 /\ net'[p] = net[p] - 1
      /\ \A q \in Of(f) : q # p => net'[q] = net[q]
  BY DEF Arrives, Base, TypeOK, Of
<1>4. /\ p \in hist.dup => (net[p] = 2 <=> p \notin hist.seen)
      /\ p \notin hist.dup => p \notin hist.seen /\ net[p] = 1
  BY <1>1, <1>3 DEF Copies
<1>5. Copies(f)'
  <2> SUFFICES ASSUME NEW q \in Of(f)
               PROVE  IF q \in hist'.dup THEN net'[q] = 2 <=> q \notin hist'.seen
                      ELSE net'[q] = IF q \in hist'.seen THEN 0 ELSE 1
    BY DEF Copies
  <2>1. CASE q = p
    BY <1>2, <1>3, <1>4, <2>1
  <2>2. CASE q # p
    BY <1>2, <1>3, <2>2 DEF Copies
  <2> QED BY <2>1, <2>2
<1>6. IsFiniteSet(A) /\ IsFiniteSet(B) /\ Cardinality(A) \in Nat /\ Cardinality(B) \in Nat
  <2>1. A \in SUBSET Of(f) /\ B \in SUBSET Of(f)
    BY DEF SeenOf, CameTwice
  <2>2. IsFiniteSet(A) /\ IsFiniteSet(B)
    BY <1>1, <2>1, TotalIsCount, FS_Subset
  <2> QED BY <2>2, FS_CardinalityType
<1>7. CASE p \notin hist.seen
  <2>1. SeenOf(f)' = A \cup {p} /\ p \notin A
    BY <1>1, <1>2, <1>7 DEF SeenOf
  <2>2. CameTwice(f)' = B
    BY <1>2, <1>3, <1>4, <1>7 DEF CameTwice
  <2> HIDE DEF A, B
  <2>3. Cardinality(A \cup {p}) = Cardinality(A) + 1
    BY <1>6, <2>1, FS_AddElement
  <2>4. Cardinality(A \cup {p}) + Cardinality(B) = Cardinality(A) + Cardinality(B) + 1
    BY <1>6, <2>3
  <2> QED BY <1>5, <2>1, <2>2, <2>4 DEF A, B
<1>8. CASE p \in hist.seen
  <2>1. SeenOf(f)' = A
    BY <1>2, <1>8 DEF SeenOf
  <2>2. p \in hist.dup /\ net[p] = 1 /\ net'[p] = 0
    BY <1>3, <1>4, <1>8
  <2>3. CameTwice(f)' = B \cup {p} /\ p \notin B
    BY <1>1, <1>2, <1>3, <2>2 DEF CameTwice
  <2> HIDE DEF A, B
  <2>4. Cardinality(B \cup {p}) = Cardinality(B) + 1
    BY <1>6, <2>3, FS_AddElement
  <2>5. Cardinality(A) + Cardinality(B \cup {p}) = Cardinality(A) + Cardinality(B) + 1
    BY <1>6, <2>4
  <2> QED BY <1>5, <2>1, <2>3, <2>5 DEF A, B
<1> QED BY <1>7, <1>8

(* What handle_packet does to the flow of its packet.                      *)
LEMMA HandleFlow ==
  ASSUME Base, NEW p \in Packets, handle_packet(p)
  PROVE  /\ Arrives(p) /\ hist \in Hist /\ p.flow \notin hist.drained
         /\ errs'[p.flow] = errs[p.flow] \cup Counted(p)
         /\ ft'[p.flow] = IF is_all_pkts_seen(Updated(p)) THEN NoFlow ELSE Updated(p)
<1> DEFINE f == p.flow
           lg == Updated(p)
<1>1. /\ ~stopped /\ Arrives(p)
      /\ errs' = [errs EXCEPT ![f] = @ \cup Counted(p)]
      /\ ft' = IF is_all_pkts_seen(lg) THEN [ft EXCEPT ![f] = NoFlow] ELSE [ft EXCEPT ![f] = lg]
  BY Zenon DEF handle_packet
<1>2. hist \in Hist /\ f \in Flows
  BY PacketFacts DEF Base, Env, Hist
<1>3. f \notin hist.drained
  BY <1>1, <1>2 DEF Base, Env
<1> HIDE DEF lg
<1>4. ft'[f] = IF is_all_pkts_seen(lg) THEN NoFlow ELSE lg
  BY <1>1, <1>2 DEF Base, TypeOK
<1>5. errs'[f] = errs[f] \cup Counted(p)
  BY <1>1, <1>2 DEF Base, TypeOK
<1> QED BY <1>1, <1>2, <1>3, <1>4, <1>5 DEF lg

LEMMA AccountedHandle ==
  ASSUME Base, NEW p \in Packets, handle_packet(p), Copies(p.flow), Accounted(p.flow),
         ft[p.flow] # NoFlow => Shaped(ft[p.flow], p.flow)
  PROVE  Accounted(p.flow)'
<1> DEFINE f == p.flow
           lg == Updated(p)
           N == Total(f)
           c == Cardinality(SeenOf(f)) + Cardinality(CameTwice(f))
           g == Got(ft[f])
<1>1. f \in Flows /\ p.dir \in Dirs
  BY PacketFacts
<1>2. /\ Arrives(p)
      /\ ft'[f] = IF is_all_pkts_seen(lg) THEN NoFlow ELSE lg
  BY HandleFlow
<1>3. Cardinality(SeenOf(f)') + Cardinality(CameTwice(f)') = c + 1 /\ Copies(f)'
  BY <1>2, OneMoreArrival
<1>4. lg \in FlowObject /\ Shaped(lg, f) /\ lg.dir[p.dir].pkts > 0
      /\ Got(lg) = g + 1 /\ g \in Nat
  BY UpdatedType, UpdatedShape DEF Base
<1>5. N \in Nat /\ IsFiniteSet(Of(f)) /\ Cardinality(Of(f)) = N
  BY <1>1, TotalIsCount
<1>6. c \in Nat /\ c + 1 <= N + N
  <2> DEFINE A == SeenOf(f)'
             B == CameTwice(f)'
             C == SeenOf(f)
             D == CameTwice(f)
  <2>1. A \in SUBSET Of(f) /\ B \in SUBSET Of(f) /\ C \in SUBSET Of(f) /\ D \in SUBSET Of(f)
    BY DEF SeenOf, CameTwice
  <2> HIDE DEF A, B, C, D, N
  <2>2. /\ IsFiniteSet(A) /\ Cardinality(A) <= N /\ IsFiniteSet(B) /\ Cardinality(B) <= N
        /\ IsFiniteSet(C) /\ IsFiniteSet(D)
    BY <1>5, <2>1, FS_Subset
  <2>3. /\ Cardinality(A) \in Nat /\ Cardinality(B) \in Nat
        /\ Cardinality(C) \in Nat /\ Cardinality(D) \in Nat
    BY <2>2, FS_CardinalityType
  <2>4. Cardinality(A) + Cardinality(B) <= N + N /\ Cardinality(C) + Cardinality(D) \in Nat
    BY <1>5, <2>2, <2>3
  <2> QED BY <1>3, <2>4 DEF A, B, C, D
<1>7. PICK n \in {0, N, N + N} : c = n + g
  BY DEF Accounted
<1> HIDE DEF c, g, N, lg
<1>8. CASE is_all_pkts_seen(lg)
  <2>1. Got(lg) = N
    BY <1>1, <1>4, <1>8, CompleteHasTotal DEF N
  <2>2. ft'[f] = NoFlow /\ Got(NoFlow) = 0
    BY <1>2, <1>8 DEF Got
  <2>3. g + 1 = N
    BY <1>4, <2>1
  <2>4. c + 1 = N \/ c + 1 = N + N
    BY <1>4, <1>5, <1>6, <1>7, <2>3
  <2>5. \E m \in {0, N, N + N} : c + 1 = m + 0
    BY <1>5, <2>4
  <2> QED BY <1>3, <2>2, <2>5 DEF Accounted, N
<1>9. CASE ~is_all_pkts_seen(lg)
  <2>1. ft'[f] = lg
    BY <1>2, <1>9
  <2>2. c + 1 = n + (g + 1)
    BY <1>4, <1>5, <1>7
  <2> QED BY <1>3, <1>4, <1>7, <2>1, <2>2 DEF Accounted, N
<1> QED BY <1>8, <1>9

(* Of a flow without duplicates and without an error, every packet is      *)
(* counted by the object, until all have come.                             *)
LEMMA TalliedArrival ==
  ASSUME Base, NEW p \in Packets, LossInv(p.flow), handle_packet(p),
         Of(p.flow) \cap hist.dup = {}, p.flow \notin hist.late
  PROVE  /\ \/ ft[p.flow] # NoFlow /\ Tallies(p.flow)
            \/ ft[p.flow] = NoFlow /\ Of(p.flow) \cap hist.seen = {}
         /\ OnePlace(p.flow)
         /\ p \notin hist.seen
         /\ is_all_pkts_seen(Updated(p)) => Of(p.flow) \subseteq hist'.seen
<1> DEFINE f == p.flow
           lg == Updated(p)
<1>1. f \in Flows /\ p.dir \in Dirs /\ p \in Of(f)
  BY PacketFacts
<1>2. Arrives(p) /\ hist \in Hist /\ f \notin hist.drained
  BY HandleFlow
<1>3. hist'.seen = hist.seen \cup {p}
  BY <1>2, HistArrives
<1>4. net[p] > 0 /\ p \in UnderWay(f)
  BY <1>1, <1>2 DEF Arrives, UnderWay
<1>5. /\ OnePlace(f)
      /\ \/ ft[f] # NoFlow /\ Tallies(f)
         \/ ft[f] = NoFlow /\ Of(f) \cap hist.seen = {}
  BY <1>2, <1>4 DEF LossInv
<1>6. p \notin hist.seen
  BY <1>1, <1>4, <1>5 DEF OnePlace
<1>7. CountsSeen(lg, f, hist'.seen) /\ lg \in FlowObject
  <2>1. hist.seen \in SUBSET Packets
    BY <1>2, HistType
  <2> QED BY <1>3, <1>5, <1>6, <2>1, PacketCounted, UpdatedType DEF Base
<1>8. InDirection(f, p.dir) \cap hist'.seen # {}
  BY <1>1, <1>3, InDirectionAll
<1> HIDE DEF lg
<1>9. is_all_pkts_seen(lg) => Of(f) \subseteq hist'.seen
  BY <1>1, <1>7, <1>8, AllCame
<1> QED BY <1>5, <1>6, <1>9 DEF lg

LEMMA SequenceHandle ==
  ASSUME Base, NEW p \in Packets, LossInv(p.flow), handle_packet(p),
         Of(p.flow) \cap hist.dup = {}, p.flow \notin hist.late,
         InSequence(p.flow), Counted(p) = {}
  PROVE  InSequence(p.flow)'
<1> DEFINE f == p.flow
           d == p.dir
           lg == Updated(p)
<1>1. f \in Flows /\ d \in Dirs /\ p \in Of(f) /\ p.id \in Nat
  BY PacketFacts
<1>2. Arrives(p) /\ hist \in Hist /\ ft'[f] = IF is_all_pkts_seen(lg) THEN NoFlow ELSE lg
  BY HandleFlow
<1>3. hist'.seen = hist.seen \cup {p}
  BY <1>2, HistArrives
<1> SUFFICES ASSUME ~is_all_pkts_seen(lg), NEW e \in Dirs, lg.dir[e].pkts > 0
             PROVE  /\ lg.dir[e].seq >= 1
                    /\ \A q \in InDirection(f, e) :
                         1 <= q.id /\ q.id < lg.dir[e].seq => q \in hist'.seen
  <2>1. lg \in FlowObject
    BY UpdatedType DEF Base
  <2> HIDE DEF lg
  <2> QED BY <1>2, <2>1 DEF InSequence
<1>4. \A q \in InDirection(f, e) : q \in Packets /\ q.id \in Nat /\ q.dir = e /\ q.flow = f
  BY <1>1, InDirectionFacts, OfFacts
<1>5. CASE ft[f] = NoFlow
  <2>1. lg = NewFlow(p)
    BY <1>5 DEF Updated
  <2>2. lg.dir[e] = IF e = d THEN set_fif_seen(Size[f][e]) ELSE Unseen
    BY <2>1 DEF NewFlow
  <2>3. e = d
    <3> SUFFICES ASSUME e # d PROVE FALSE
      OBVIOUS
    <3>1. lg.dir[e] = Unseen
      BY <2>2
    <3> HIDE DEF lg
    <3> QED BY <3>1 DEF Unseen
  <2>4. lg.dir[e] = set_fif_seen(Size[f][e])
    BY <2>2, <2>3
  <2> HIDE DEF lg
  <2>5. lg.dir[e].seq = 1
    BY <2>4 DEF set_fif_seen
  <2> QED BY <1>4, <2>5
<1>6. CASE ft[f] # NoFlow
  <2>1. ft[f] \in FlowObject
    BY <1>1, <1>6 DEF Base, TypeOK, FlowObject
  <2>2. \A b \in Dirs \ {d} : lg.dir[b] = ft[f].dir[b]
    BY <2>1, UpdatedFields DEF Base
  <2>3. ft[f].dir[e].pkts \in Nat /\ ft[f].dir[e].seq \in Nat
    BY <2>1, ObjectType
  <2>4. /\ ft[f].dir[d].pkts = 0 => lg.dir[d].seq = 1
        /\ ft[f].dir[d].pkts > 0 => /\ p.id > 0 /\ p.id = ft[f].dir[d].seq
                                    /\ lg.dir[d].seq = p.id + 1
    BY <2>1, UpdatedSeq DEF Base
  <2>5. ft[f].dir[e].pkts > 0 =>
          \A q \in InDirection(f, e) : 1 <= q.id /\ q.id < ft[f].dir[e].seq => q \in hist.seen
    BY <1>6 DEF InSequence
  <2>6. ft[f].dir[e].pkts > 0 => ft[f].dir[e].seq >= 1
    BY <1>6 DEF InSequence
  <2> HIDE DEF lg
  <2>7. CASE e # d
    BY <1>3, <2>2, <2>5, <2>6, <2>7
  <2>8. CASE e = d /\ ft[f].dir[d].pkts = 0
    BY <1>4, <2>4, <2>8
  <2>9. CASE e = d /\ ft[f].dir[d].pkts > 0
    <3> SUFFICES ASSUME NEW q \in InDirection(f, e), 1 <= q.id, q.id < lg.dir[e].seq
                 PROVE  q \in hist'.seen
      BY <1>1, <2>4, <2>9
    <3>1. q.id < ft[f].dir[e].seq \/ q.id = p.id
      BY <1>1, <1>4, <2>4, <2>9
    <3>2. CASE q.id = p.id
      <4>1. q = [flow |-> q.flow, dir |-> q.dir, id |-> q.id]
            /\ p = [flow |-> p.flow, dir |-> p.dir, id |-> p.id]
        BY <1>4, PacketFacts
      <4>2. q = p
        BY <1>4, <2>9, <3>2, <4>1
      <4> QED BY <1>3, <4>2
    <3> QED BY <1>3, <2>5, <2>9, <3>1, <3>2
  <2> QED BY <2>3, <2>7, <2>8, <2>9
<1> QED BY <1>5, <1>6

(* A packet that overtakes an earlier one and counts no error leaves the   *)
(* first packet of its direction behind; when that one comes, it counts as *)
(* seen twice.                                                             *)
LEMMA SkippedHandle ==
  ASSUME Base, NEW p \in Packets, LossInv(p.flow), handle_packet(p),
         Of(p.flow) \cap hist.dup = {}, p.flow \notin hist.late,
         InSequence(p.flow), Counted(p) = {},
         p.flow \in hist.reordered => ft[p.flow] # NoFlow /\ Skipped(p.flow),
         p.flow \in hist'.reordered
  PROVE  ft'[p.flow] # NoFlow /\ Skipped(p.flow)'
<1> DEFINE f == p.flow
           d == p.dir
           lg == Updated(p)
<1>1. f \in Flows /\ d \in Dirs /\ p \in Of(f) /\ p.id \in Nat /\ p \in InDirection(f, d)
      /\ p.id < Size[f][d] /\ Size[f][d] \in Nat
  BY PacketFacts, InDirectionAll
<1>2. Arrives(p) /\ hist \in Hist /\ ft'[f] = IF is_all_pkts_seen(lg) THEN NoFlow ELSE lg
  BY HandleFlow
<1>3. /\ hist'.seen = hist.seen \cup {p}
      /\ hist'.reordered = IF Overtakes(p) THEN hist.reordered \cup {f} ELSE hist.reordered
  BY <1>2, HistArrives
<1>4. /\ \/ ft[f] # NoFlow /\ Tallies(f)
         \/ ft[f] = NoFlow /\ Of(f) \cap hist.seen = {}
      /\ OnePlace(f) /\ p \notin hist.seen
      /\ is_all_pkts_seen(lg) => Of(f) \subseteq hist'.seen
  BY TalliedArrival
<1>5. ASSUME ft[f] # NoFlow
      PROVE  /\ ft[f].dir[d].pkts = Cardinality(SeenIn(f, d))
             /\ SeenIn(f, d) = {} <=> ft[f].dir[d].pkts = 0
             /\ ft[f].dir[d].pkts \in Nat /\ ft[f].dir[d].seq \in Nat
             /\ ft[f].dir[d].pkts > 0 => p.id > 0 /\ p.id = ft[f].dir[d].seq
  <2>1. ft[f] \in FlowObject
    BY <1>1, <1>5 DEF Base, TypeOK, FlowObject
  <2>2. ft[f].dir[d].pkts = Cardinality(SeenIn(f, d))
    BY <1>1, <1>4, <1>5 DEF Tallies
  <2>3. SeenIn(f, d) = {} <=> Cardinality(SeenIn(f, d)) = 0
    BY <1>1, InFinite
  <2>4. ft[f].dir[d].pkts \in Nat /\ ft[f].dir[d].seq \in Nat
    BY <1>1, <2>1, ObjectType
  <2>5. ft[f].dir[d].pkts > 0 => p.id > 0 /\ p.id = ft[f].dir[d].seq
    BY <2>1, UpdatedSeq DEF Base
  <2> QED BY <2>2, <2>3, <2>4, <2>5
<1>6. \A e \in Dirs : SeenIn(f, e) \subseteq SeenIn(f, e)'
  BY <1>3 DEF SeenIn
<1>7. p \in SeenIn(f, d)'
  BY <1>1, <1>3 DEF SeenIn
<1>8. Skipped(f)'
  <2>1. CASE f \in hist.reordered
    <3>1. PICK e \in Dirs : /\ SeenIn(f, e) # {}
                            /\ \E q \in InDirection(f, e) : q.id = 0 /\ q \notin hist.seen
      BY <2>1 DEF Skipped
    <3>2. PICK q \in InDirection(f, e) : q.id = 0 /\ q \notin hist.seen
      BY <3>1
    <3>3. q # p
      <4> SUFFICES ASSUME q = p PROVE FALSE
        OBVIOUS
      <4>1. e = d
        BY <1>1, <3>1, <3>2, InDirectionFacts
      <4>2. p.id > 0
        BY <1>5, <2>1, <3>1, <4>1
      <4> QED BY <3>2, <4>2
    <3>4. SeenIn(f, e)' # {}
      BY <1>6, <3>1
    <3> QED BY <1>3, <3>2, <3>3, <3>4 DEF Skipped
  <2>2. CASE f \notin hist.reordered
    <3>1. Overtakes(p)
      BY <1>3, <2>2
    <3>2. PICK q \in UnderWay(f) : q.dir = d /\ q.id < p.id
      BY <3>1 DEF Overtakes
    <3>3. q \in Of(f) /\ q \in InDirection(f, d) /\ q.id \in Nat
      BY <1>1, <3>2, OfFacts, InDirectionAll DEF UnderWay
    <3>4. q \notin hist.seen /\ q # p
      BY <1>1, <1>4, <3>2, <3>3 DEF UnderWay, OnePlace
    <3>5. ft[f] # NoFlow
      BY <1>1, <3>2, <3>3 DEF Counted
    <3>6. CASE ft[f].dir[d].pkts = 0
      <4> DEFINE z == [flow |-> f, dir |-> d, id |-> 0]
      <4>1. z \in Of(f) /\ z.id = 0 /\ z.dir = d
        BY <1>1, PacketMade
      <4> HIDE DEF z
      <4>2. z \in InDirection(f, d) /\ z # p
        BY <1>1, <3>2, <3>3, <4>1, InDirectionAll
      <4>3. z \notin hist.seen
        BY <1>5, <3>5, <3>6, <4>2 DEF SeenIn
      <4> QED BY <1>1, <1>3, <1>7, <4>1, <4>2, <4>3 DEF Skipped
    <3>7. CASE ft[f].dir[d].pkts > 0
      <4>1. q.id < ft[f].dir[d].seq
        BY <1>5, <3>2, <3>5, <3>7
      <4>2. ~(1 <= q.id)
        BY <1>1, <3>3, <3>4, <3>5, <3>7, <4>1 DEF InSequence
      <4>3. q.id = 0
        BY <3>3, <4>2
      <4> QED BY <1>1, <1>3, <1>7, <3>3, <3>4, <4>3 DEF Skipped
    <3> QED BY <1>5, <3>5, <3>6, <3>7
  <2> QED BY <2>1, <2>2
<1>9. ~(Of(f) \subseteq hist'.seen)
  <2>1. \A e \in Dirs : InDirection(f, e) \subseteq Of(f)
    BY <1>1, InDirectionFacts
  <2> QED BY <1>8, <2>1 DEF Skipped
<1>10. lg \in FlowObject /\ lg # NoFlow
  BY UpdatedType, ObjectIsNoNoFlow DEF Base
<1> QED BY <1>2, <1>4, <1>8, <1>9, <1>10

LEMMA ReportHandle ==
  ASSUME Base, NEW p \in Packets, LossInv(p.flow), ReportInv(p.flow), handle_packet(p)
  PROVE  ReportInv(p.flow)'
<1> DEFINE f == p.flow
           lg == Updated(p)
<1>1. f \in Flows /\ p.dir \in Dirs /\ p \in Of(f)
  BY PacketFacts
<1>2. /\ Arrives(p) /\ hist \in Hist /\ f \notin hist.drained
      /\ errs'[f] = errs[f] \cup Counted(p)
      /\ ft'[f] = IF is_all_pkts_seen(lg) THEN NoFlow ELSE lg
  BY HandleFlow
<1>3. /\ hist'.seen = hist.seen \cup {p} /\ hist'.lost = hist.lost /\ hist'.dup = hist.dup
      /\ hist'.late = hist.late /\ hist'.drained = hist.drained
  BY <1>2, HistArrives
<1>4. lg \in FlowObject /\ lg # NoFlow /\ Shaped(lg, f)
  BY UpdatedType, ObjectIsNoNoFlow, UpdatedShape DEF Base, ReportInv
<1> HIDE DEF lg
<1>5. ft'[f] # NoFlow => Shaped(ft'[f], f)
  BY <1>2, <1>4
<1>6. Losses(f)' = Losses(f)
  BY <1>3 DEF Losses
<1> SUFFICES ASSUME errs'[f] = {}
             PROVE  /\ f \notin hist'.late
                    /\ Losses(f)' = {} => Copies(f)' /\ Accounted(f)'
                    /\ Of(f) \cap hist'.dup = {} =>
                         /\ Finished(f)' /\ InSequence(f)'
                         /\ Losses(f)' = {} /\ f \in hist'.reordered =>
                              ft'[f] # NoFlow /\ Skipped(f)'
  <2>1. Shaped(ft'[f], f) <=> Shaped(ft[f], f)'
    BY DEF Shaped, BothWays
  <2> QED BY <1>5, <2>1 DEF ReportInv
<1>7. errs[f] = {} /\ Counted(p) = {} /\ f \notin hist.late
  BY <1>2 DEF ReportInv
<1>8. ASSUME Losses(f)' = {} PROVE Copies(f)' /\ Accounted(f)'
  <2>1. Copies(f) /\ Accounted(f) /\ (ft[f] # NoFlow => Shaped(ft[f], f))
    BY <1>2, <1>6, <1>7, <1>8 DEF ReportInv
  <2> QED BY <1>2, <2>1, OneMoreArrival, AccountedHandle
<1>9. ASSUME Of(f) \cap hist'.dup = {}
      PROVE  /\ Finished(f)' /\ InSequence(f)'
             /\ Losses(f)' = {} /\ f \in hist'.reordered => ft'[f] # NoFlow /\ Skipped(f)'
  <2>1. /\ Of(f) \cap hist.dup = {} /\ InSequence(f)
        /\ Losses(f) = {} /\ f \in hist.reordered => ft[f] # NoFlow /\ Skipped(f)
    BY <1>2, <1>3, <1>7, <1>9 DEF ReportInv
  <2>2. is_all_pkts_seen(lg) => Of(f) \subseteq hist'.seen
    BY <1>7, <2>1, TalliedArrival DEF lg
  <2>3. Finished(f)'
    BY <1>2, <1>4, <2>2 DEF Finished
  <2>4. InSequence(f)'
    BY <1>7, <2>1, SequenceHandle
  <2>5. Losses(f)' = {} /\ f \in hist'.reordered => ft'[f] # NoFlow /\ Skipped(f)'
    BY <1>6, <1>7, <2>1, SkippedHandle
  <2> QED BY <2>3, <2>4, <2>5
<1> QED BY <1>3, <1>7, <1>8, <1>9

-----------------------------------------------------------------------------
FullInv == RxInv /\ \A f \in Flows : ReportInv(f)

LEMMA ReportInit == Init => \A f \in Flows : ReportInv(f)
<1> SUFFICES ASSUME Init, NEW f \in Flows PROVE ReportInv(f)
  OBVIOUS
<1>1. /\ ft[f] = NoFlow /\ errs[f] = {} /\ hist.seen = {} /\ hist.dup = {} /\ hist.lost = {}
      /\ hist.reordered = {} /\ hist.late = {}
      /\ \A p \in Of(f) : net[p] = 1
  BY DEF Init, Of
<1>2. SeenOf(f) = {} /\ CameTwice(f) = {}
  BY <1>1 DEF SeenOf, CameTwice
<1>3. Accounted(f)
  <2>1. Cardinality({}) + Cardinality({}) = 0 + 0
    BY FS_EmptySet
  <2>2. Got(ft[f]) = 0
    BY <1>1 DEF Got
  <2> QED BY <1>2, <2>1, <2>2 DEF Accounted
<1>4. Copies(f)
  BY <1>1 DEF Copies
<1> QED BY <1>1, <1>2, <1>3, <1>4 DEF ReportInv, Finished, InSequence

LEMMA ReportOneFlow ==
  ASSUME FullInv, NEW f \in Flows, OthersSame(f), ReportInv(f)'
  PROVE  \A g \in Flows : ReportInv(g)'
<1> SUFFICES ASSUME NEW g \in Flows PROVE ReportInv(g)'
  OBVIOUS
<1>1. CASE g = f
  BY <1>1
<1>2. CASE g # f
  BY <1>2, ReportFrame DEF OthersSame, FullInv
<1> QED BY <1>1, <1>2

LEMMA ReportStep == FullInv /\ [Next]_vars => FullInv'
<1> SUFFICES ASSUME FullInv, [Next]_vars PROVE \A f \in Flows : ReportInv(f)'
  BY RxStep DEF FullInv
<1>1. Base /\ \A f \in Flows : LossInv(f) /\ ReportInv(f)
  BY DEF FullInv, RxInv, Base
<1>2. CASE Tick \/ EndPass \/ tw_drain \/ UNCHANGED vars
  <2>1. UNCHANGED <<ft, errs, drops, net, hist>>
    BY <1>2 DEF Tick, EndPass, tw_drain, vars, flowVars, envVars
  <2>2. \A g \in Flows : SameFlow(g)
    BY <2>1 DEF SameFlow
  <2> QED BY <1>1, <2>2, ReportFrame
<1>3. ASSUME NEW p \in Packets, Lose(p) \/ Duplicate(p) \/ handle_damaged(p)
      PROVE  \A f \in Flows : ReportInv(f)'
  BY <1>1, <1>3, PacketFacts, FaultOthers, ReportFault, ReportOneFlow
<1>4. ASSUME NEW p \in Packets, handle_packet(p)
      PROVE  \A f \in Flows : ReportInv(f)'
  BY <1>1, <1>4, PacketFacts, HandleOthers, ReportHandle, ReportOneFlow
<1>5. ASSUME NEW f \in Flows, Age(f)
      PROVE  \A g \in Flows : ReportInv(g)'
  BY <1>1, <1>5, AgeOthers, ReportAge, ReportOneFlow
<1> QED BY <1>2, <1>3, <1>4, <1>5 DEF Next

(* Some packets came twice and none was lost: the arrivals are more than   *)
(* one round of the flow and less than two.                                *)
LEMMA DuplicatesDoNotAddUp ==
  ASSUME TypeOK, NEW f \in Flows, Over(f), Copies(f), Accounted(f),
         Of(f) \cap hist.dup # {}, ~(Of(f) \subseteq hist.dup)
  PROVE  FALSE
<1> DEFINE N == Total(f)
           D == Of(f) \cap hist.dup
<1>1. N \in Nat /\ IsFiniteSet(Of(f)) /\ Cardinality(Of(f)) = N
  BY TotalIsCount
<1>2. \A p \in Of(f) : net[p] = 0
  BY DEF Over, UnderWay, TypeOK, Of
<1>3. \A p \in Of(f) : p \in hist.seen
  BY <1>2 DEF Copies
<1>4. SeenOf(f) = Of(f) /\ CameTwice(f) = D
  BY <1>2, <1>3 DEF SeenOf, CameTwice
<1> HIDE DEF D, N
<1>5. D \in SUBSET Of(f) /\ D # Of(f) /\ D # {}
  BY DEF D
<1>6. /\ IsFiniteSet(D) /\ Cardinality(D) <= N /\ (Cardinality(D) = N => D = Of(f))
  BY <1>1, <1>5, FS_Subset
<1>7. Cardinality(D) \in Nat /\ Cardinality(D) # 0
  BY <1>5, <1>6, FS_CardinalityType, FS_EmptySet
<1>8. 0 < Cardinality(D) /\ Cardinality(D) < N
  BY <1>1, <1>5, <1>6, <1>7
<1>9. Got(ft[f]) = 0
  BY DEF Over, Got
<1> QED BY <1>1, <1>4, <1>7, <1>8, <1>9 DEF Accounted, N

(* ReportInv is what handle_packet, flow_aging_callback and the faults of  *)
(* the network keep of a flow for which no error is counted.               *)
THEOREM ReportInvariant == Spec => []FullInv
<1>1. Init => FullInv
  BY RxInit, ReportInit DEF FullInv
<1>2. FullInv /\ [Next]_vars => FullInv'
  BY ReportStep
<1> QED BY <1>1, <1>2, PTL DEF Spec

(* A packet that the device lost, duplicated or reordered is counted as    *)
(* some error by handle_packet or on_flow_end before its flow is over,     *)
(* unless duplicates stand in for losses or every packet came twice.       *)
THEOREM FaultsDoNotPass == Spec => []FaultsAreReported
<1>1. ASSUME FullInv PROVE FaultsAreReported
  <2> SUFFICES ASSUME NEW f \in Flows, Over(f), ~Clean(f), ~Masked(f), errs[f] = {}
               PROVE  FALSE
    BY DEF FaultsAreReported
  <2>1. TypeOK /\ LossInv(f) /\ ReportInv(f)
    BY <1>1 DEF FullInv, RxInv
  <2>2. f \notin hist.late /\ f \notin hist.drained /\ ft[f] = NoFlow /\ SeenOf(f) # {}
    BY <2>1 DEF ReportInv, Over, SeenOf
  <2>3. CASE Of(f) \cap hist.dup # {}
    <3>1. Losses(f) = {} /\ ~(Of(f) \subseteq hist.dup)
      BY <2>3 DEF Masked, Losses
    <3>2. Copies(f) /\ Accounted(f)
      BY <2>1, <2>2, <3>1 DEF ReportInv
    <3> QED BY <2>1, <2>3, <3>1, <3>2, DuplicatesDoNotAddUp
  <2>4. CASE Of(f) \cap hist.dup = {}
    <3>1. /\ Finished(f)
          /\ Losses(f) = {} /\ f \in hist.reordered => ft[f] # NoFlow
      BY <2>1, <2>2, <2>4 DEF ReportInv
    <3>2. Of(f) \subseteq hist.seen
      BY <2>2, <3>1 DEF Finished
    <3>3. OnePlace(f)
      BY <2>1, <2>2, <2>4 DEF LossInv
    <3>4. Losses(f) = {}
      BY <3>2, <3>3 DEF OnePlace, Losses
    <3>5. f \in hist.reordered
      BY <2>2, <2>4, <3>4 DEF Clean, Losses
    <3> QED BY <2>2, <3>1, <3>4, <3>5
  <2> QED BY <2>3, <2>4
<1> QED BY <1>1, ReportInvariant, PTL
=============================================================================
