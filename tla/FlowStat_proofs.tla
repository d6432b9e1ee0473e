-------------------------- MODULE FlowStat_proofs --------------------------
(***************************************************************************)
(* Proofs about FlowStat for any ports, user ids, streams and hardware     *)
(* ids.                                                                    *)
(***************************************************************************)
EXTENDS FlowStat, FiniteSetTheorems, WellFoundedInduction, TLAPS

(* The least free hardware id and the last counted one exist. *)
LEMMA LeastExists ==
  ASSUME NEW S \in SUBSET Nat, S # {}
  PROVE  \E x \in S : \A y \in S : x <= y
<1> DEFINE R == OpToRel(<, Nat)
<1>1. IsWellFoundedOn(R, Nat)
  BY NatLessThanWellFounded
<1>2. PICK x \in S : \A y \in S : ~(<<y, x>> \in R)
  BY <1>1, WFMin
<1>3. ASSUME NEW y \in S PROVE ~(y < x)
  <2>1. y \in Nat /\ x \in Nat
    OBVIOUS
  <2>2. y < x => <<y, x>> \in R
    BY <2>1, Zenon DEF OpToRel
  <2> QED BY <1>2, <2>2
<1> QED BY <1>3

LEMMA MinIn ==
  ASSUME NEW S \in SUBSET Nat, S # {}
  PROVE  Min(S) \in S
BY LeastExists DEF Min

LEMMA MaxIn ==
  ASSUME NEW n \in Nat, NEW S \in SUBSET (0 .. n), S # {}
  PROVE  Max(S) \in S
<1> DEFINE T == {n - x : x \in S}
<1>1. T \in SUBSET Nat
  OBVIOUS
<1>0. T # {}
  <2>1. PICK x \in S : TRUE
    OBVIOUS
  <2>2. n - x \in T
    OBVIOUS
  <2> QED BY <2>2
<1>2. PICK t \in T : \A u \in T : t <= u
  BY <1>0, <1>1, LeastExists
<1>3. PICK x \in S : t = n - x
  OBVIOUS
<1>4. \A y \in S : x >= y
  BY <1>2, <1>3
<1> QED BY <1>4 DEF Max

LEMMA InfoType ==
  ASSUME NEW s \in Streams
  PROVE  /\ Info[s].port \in Ports /\ Info[s].user \in Users \cup {NoUser}
         /\ Info[s].proto \in {"udp", "tcp"}
BY FlowAssumption DEF StreamInfo

LEMMA BoundType == TypeOK => PktBound \in Nat
BY FlowAssumption DEF TypeOK, PktBound

LEMMA HwCard == IsFiniteSet(Hw) /\ Cardinality(Hw) = NumHw
BY FlowAssumption, FS_Interval DEF Hw

LEMMA HwZero == 0 \in Hw
BY FlowAssumption DEF Hw

(* Reference counts are bytes. *)
LEMMA ByteType == ASSUME NEW n \in Int PROVE n % Wide \in 0 .. Wide - 1
BY DEF Wide

(* The hardware ids are finitely many, and so are the free ones. *)
LEMMA HwFinite ==
  /\ IsFiniteSet(FreeHw) /\ Cardinality(FreeHw) \in 0 .. NumHw
  /\ FreeHw \in SUBSET Nat
<1>1. IsFiniteSet(Hw) /\ Cardinality(Hw) = NumHw
  BY HwCard
<1>2. FreeHw \in SUBSET Hw /\ Hw \subseteq Nat
  BY FlowAssumption DEF FreeHw, Hw
<1>3. IsFiniteSet(FreeHw) /\ Cardinality(FreeHw) <= Cardinality(Hw) /\ Cardinality(FreeHw) \in Nat
  BY <1>1, <1>2, FS_Subset, FS_CardinalityType
<1> QED BY <1>1, <1>2, <1>3, FlowAssumption

-----------------------------------------------------------------------------
(***************************************************************************)
(* The two maps.                                                           *)
(***************************************************************************)

(* The part of TypeOK about the maps and the card, and the rest. *)
MapTypes ==
  /\ mark \in [Streams -> Hw \cup {Free}]
  /\ ref \in [Users -> 0 .. Wide - 1] /\ trans \in [Users -> 0 .. Wide - 1]
  /\ proto \in [Users -> {"udp", "tcp"}]
  /\ hwId \in [Users -> Hw \cup {Free}]
  /\ rx \in [Users -> Nat] /\ base \in [Users -> Nat] /\ received \in [Users -> Nat]
  /\ hwUser \in [Hw -> Users \cup {NoUser}] /\ numFree \in 0 .. NumHw
  /\ rules \subseteq Hw /\ hwCnt \in [Hw -> Nat]

Jobs == [op : {"idle", "remove", "start", "validate", "stop"},
         port : Ports \cup {NoPort}, todo : SUBSET Streams]

PortTypes ==
  /\ careful \in BOOLEAN /\ crashed \in BOOLEAN
  /\ state \in [Ports -> {"IDLE", "STREAMS", "TX"}]
  /\ table \subseteq Streams
  /\ job \in [Threads -> Jobs]

LEMMA CountType ==
  ASSUME MapTypes, NEW u \in Users
  PROVE  /\ ref[u] \in Nat /\ trans[u] \in Nat
         /\ (ref[u] + 1) % Wide \in 0 .. Wide - 1
         /\ (trans[u] + 1) % Wide \in 0 .. Wide - 1
         /\ (trans[u] - 1) % Wide \in 0 .. Wide - 1
<1>1. ref[u] \in 0 .. Wide - 1 /\ trans[u] \in 0 .. Wide - 1
  BY DEF MapTypes
<1>2. ref[u] \in Nat /\ trans[u] \in Nat
  BY <1>1 DEF Wide
<1>3. ref[u] + 1 \in Int /\ trans[u] + 1 \in Int /\ trans[u] - 1 \in Int
  BY <1>2
<1> QED BY <1>2, <1>3, ByteType

LEMMA SplitTypes == TypeOK <=> MapTypes /\ PortTypes
BY DEF TypeOK, MapTypes, PortTypes, Jobs

(* The maps are in their ranges and agree. *)
Maps == MapTypes /\ HwIdsExclusive

LEMMA SplitMaps == MapsAgree <=> Maps /\ PortTypes
BY SplitTypes DEF MapsAgree, Maps

(* What HwIdsExclusive says of the card and the map of the hardware ids. *)
CardAgrees == numFree = Cardinality(FreeHw) /\ rules = Hw \ FreeHw

LEMMA LeaseAgrees ==
  ASSUME MapTypes, CardAgrees, NEW h \in FreeHw, NEW u \in Users,
         hwUser' = [hwUser EXCEPT ![h] = u], numFree' = numFree - 1, rules' = rules \cup {h}
  PROVE  CardAgrees' /\ numFree' \in 0 .. NumHw /\ rules' \subseteq Hw
                     /\ hwUser' \in [Hw -> Users \cup {NoUser}]
<1>1. hwUser' \in [Hw -> Users \cup {NoUser}] /\ h \in Hw
  BY DEF MapTypes, FreeHw
<1>2. FreeHw' = FreeHw \ {h}
  BY <1>1, FlowAssumption DEF MapTypes, FreeHw
<1>3. Cardinality(FreeHw') = Cardinality(FreeHw) - 1 /\ Cardinality(FreeHw) > 0
  <2>1. Cardinality(FreeHw') = Cardinality(FreeHw) - 1
    BY <1>2, HwFinite, FS_RemoveElement
  <2>2. Cardinality(FreeHw) # 0
    BY HwFinite, FS_EmptySet
  <2>3. Cardinality(FreeHw) \in 0 .. NumHw
    BY HwFinite
  <2> QED BY <2>1, <2>2, <2>3, FlowAssumption
<1>4. numFree' \in 0 .. NumHw
  BY <1>3, HwFinite, FlowAssumption DEF CardAgrees
<1>5. rules' = Hw \ FreeHw'
  BY <1>1, <1>2 DEF CardAgrees
<1> QED BY <1>1, <1>3, <1>4, <1>5 DEF CardAgrees

LEMMA ReturnAgrees ==
  ASSUME MapTypes, CardAgrees, NEW h \in Hw, hwUser[h] # NoUser,
         hwUser' = [hwUser EXCEPT ![h] = NoUser], numFree' = numFree + 1, rules' = rules \ {h}
  PROVE  CardAgrees' /\ numFree' \in 0 .. NumHw /\ rules' \subseteq Hw
                     /\ hwUser' \in [Hw -> Users \cup {NoUser}]
<1>1. hwUser' \in [Hw -> Users \cup {NoUser}]
  BY DEF MapTypes
<1>2. FreeHw' = FreeHw \cup {h} /\ h \notin FreeHw
  BY <1>1 DEF MapTypes, FreeHw
<1>3. Cardinality(FreeHw') = Cardinality(FreeHw) + 1 /\ FreeHw' \in SUBSET Hw
  <2>1. Cardinality(FreeHw \cup {h}) = Cardinality(FreeHw) + 1
    BY <1>2, HwFinite, FS_AddElement
  <2>2. FreeHw' \in SUBSET Hw
    BY DEF FreeHw
  <2> QED BY <1>2, <2>1, <2>2
<1>4. Cardinality(FreeHw') <= NumHw
  BY <1>3, HwCard, FS_Subset
<1> QED BY <1>1, <1>2, <1>3, <1>4, HwFinite, FlowAssumption DEF CardAgrees

LEMMA SplitExclusive ==
  HwIdsExclusive <=> /\ \A u \in Users : ref[u] # 0 /\ hwId[u] # Free => hwUser[hwId[u]] = u
                     /\ CardAgrees
BY DEF HwIdsExclusive, CardAgrees

(* An entry that is made or dropped holds no hardware id. *)
LEMMA EntryMaps ==
  ASSUME Maps, NEW u \in Users, NEW n \in 0 .. Wide - 1, NEW pr \in {"udp", "tcp"},
         Entry(u, n, pr), UNCHANGED <<mark, hwVars>>
  PROVE  Maps'
<1>1. MapTypes'
  BY DEF Maps, MapTypes, Entry, hwVars, Wide
<1>2. FreeHw' = FreeHw
  BY DEF FreeHw, hwVars
<1>3. ASSUME NEW v \in Users, ref'[v] # 0, hwId'[v] # Free PROVE hwUser'[hwId'[v]] = v
  BY <1>3 DEF Maps, MapTypes, HwIdsExclusive, Entry, hwVars
<1> QED BY <1>1, <1>2, <1>3 DEF HwIdsExclusive, Maps, hwVars

(* add_stream and del_stream change nothing else than counts and entries. *)
LEMMA CountMaps ==
  ASSUME Maps, NEW u \in Users, ref[u] # 0, NEW n \in 0 .. Wide - 1,
         ref' = [ref EXCEPT ![u] = n],
         UNCHANGED <<mark, trans, proto, hwId, cntVars, hwVars>>
  PROVE  Maps'
<1>1. MapTypes'
  BY DEF Maps, MapTypes, cntVars, hwVars
<1>2. FreeHw' = FreeHw
  BY DEF FreeHw, hwVars
<1>3. ASSUME NEW v \in Users, ref'[v] # 0, hwId'[v] # Free PROVE hwUser'[hwId'[v]] = v
  BY <1>3 DEF Maps, MapTypes, HwIdsExclusive, hwVars
<1> QED BY <1>1, <1>2, <1>3 DEF HwIdsExclusive, Maps, hwVars

LEMMA SameMaps ==
  ASSUME Maps, UNCHANGED <<mark, userVars, cntVars, hwVars>>
  PROVE  Maps'
BY DEF Maps, MapTypes, HwIdsExclusive, FreeHw, userVars, cntVars, hwVars

LEMMA AddMaps ==
  ASSUME Maps, NEW s \in Streams, RuleAddStream(s), UNCHANGED <<mark, hwVars>>
  PROVE  Maps'
<1> DEFINE u == Info[s].user
<1>1. CASE u = NoUser \/ ~Info[s].supported
  BY <1>1, SameMaps DEF RuleAddStream
<1>2. CASE ~(u = NoUser \/ ~Info[s].supported) /\ ref[u] = 0
  <2>1. u \in Users /\ Entry(u, 1, Info[s].proto) /\ Info[s].proto \in {"udp", "tcp"}
    BY <1>2, InfoType DEF RuleAddStream
  <2> QED BY <2>1, EntryMaps DEF Wide
<1>3. CASE ~(u = NoUser \/ ~Info[s].supported) /\ ref[u] # 0
  <2>1. u \in Users
    BY <1>3, InfoType
  <2>2. CASE proto[u] = Info[s].proto
    <3>1. (ref[u] + 1) % Wide \in 0 .. Wide - 1
      BY <2>1, CountType DEF Maps
    <3>2. ref' = [ref EXCEPT ![u] = (ref[u] + 1) % Wide] /\ UNCHANGED <<trans, proto, hwId, cntVars>>
      BY <1>3, <2>2 DEF RuleAddStream
    <3> QED BY <1>3, <2>1, <3>1, <3>2, CountMaps
  <2>3. CASE proto[u] # Info[s].proto
    BY <1>3, <2>3, SameMaps DEF RuleAddStream, userVars
  <2> QED BY <2>2, <2>3
<1> QED BY <1>1, <1>2, <1>3

LEMMA DelMaps ==
  ASSUME Maps, NEW s \in Streams, RuleDelStream(s), UNCHANGED <<mark, hwVars>>
  PROVE  Maps'
<1> DEFINE u == Info[s].user
<1>1. CASE u = NoUser \/ ref[u] = 0
  BY <1>1, SameMaps DEF RuleDelStream
<1>2. CASE ~(u = NoUser \/ ref[u] = 0) /\ ref[u] = 1
  <2>1. u \in Users /\ Entry(u, 0, "udp")
    BY <1>2, InfoType DEF RuleDelStream
  <2> QED BY <2>1, EntryMaps DEF Wide
<1>3. CASE ~(u = NoUser \/ ref[u] = 0) /\ ref[u] # 1
  <2>1. u \in Users
    BY <1>3, InfoType
  <2>2. ref[u] - 1 \in 0 .. Wide - 1
    BY <1>3, <2>1 DEF Maps, MapTypes, Wide
  <2>3. ref' = [ref EXCEPT ![u] = ref[u] - 1] /\ UNCHANGED <<trans, proto, hwId, cntVars>>
    BY <1>3 DEF RuleDelStream
  <2> QED BY <1>3, <2>1, <2>2, <2>3, CountMaps
<1> QED BY <1>1, <1>2, <1>3

(* start_stream takes a hardware id that no other user id holds. *)
LEMMA StartMaps ==
  ASSUME Maps, NEW s \in Streams, RuleStartStream(s), UNCHANGED <<ref, proto, cntVars>>
  PROVE  Maps'
<1> DEFINE u == Info[s].user
           h == Min(FreeHw)
<1>1. CASE u = NoUser \/ ~Info[s].supported
  BY <1>1, SameMaps DEF RuleStartStream, userVars
<1>2. CASE ~(u = NoUser \/ ~Info[s].supported) /\ ref[u] # 0 /\ trans[u] # 0
  <2>1. u \in Users
    BY <1>2, InfoType
  <2>2. /\ trans' = [trans EXCEPT ![u] = (trans[u] + 1) % Wide]
        /\ mark' = [mark EXCEPT ![s] = hwId[u]]
        /\ UNCHANGED <<hwId, hwVars>>
    BY <1>2 DEF RuleStartStream
  <2>3. MapTypes'
    BY <2>1, <2>2, CountType DEF Maps, MapTypes, cntVars, hwVars
  <2> QED BY <2>2, <2>3 DEF Maps, HwIdsExclusive, FreeHw, hwVars
<1>3. CASE ~(u = NoUser \/ ~Info[s].supported) /\ ~(ref[u] # 0 /\ trans[u] # 0) /\ FreeHw = {}
  BY <1>3, SameMaps DEF RuleStartStream, userVars
<1>4. CASE ~(u = NoUser \/ ~Info[s].supported) /\ ~(ref[u] # 0 /\ trans[u] # 0) /\ FreeHw # {}
  <2>1. u \in Users /\ h \in FreeHw /\ h \in Hw
    BY <1>4, InfoType, HwFinite, MinIn DEF FreeHw
  <2>2. /\ IF ref[u] # 0 /\ hwId[u] = Free
           THEN /\ hwId' = [hwId EXCEPT ![u] = h]
                /\ trans' = [trans EXCEPT ![u] = (trans[u] + 1) % Wide]
           ELSE UNCHANGED <<hwId, trans>>
        /\ mark' = [mark EXCEPT ![s] = IF ref[u] = 0 THEN Free ELSE hwId'[u]]
        /\ hwUser' = [hwUser EXCEPT ![h] = u]
        /\ numFree' = numFree - 1
        /\ rules' = rules \cup {h}
    BY <1>4 DEF RuleStartStream
  <2>3. CardAgrees' /\ numFree' \in 0 .. NumHw /\ rules' \subseteq Hw
                    /\ hwUser' \in [Hw -> Users \cup {NoUser}]
    BY <2>1, <2>2, LeaseAgrees, SplitExclusive DEF Maps
  <2>4. hwId' \in [Users -> Hw \cup {Free}] /\ trans' \in [Users -> 0 .. Wide - 1]
    BY <2>1, <2>2, CountType DEF Maps, MapTypes
  <2>5. mark' \in [Streams -> Hw \cup {Free}]
    BY <2>1, <2>2, <2>4 DEF Maps, MapTypes
  <2>6. MapTypes'
    BY <2>3, <2>4, <2>5 DEF Maps, MapTypes, cntVars
  <2>7. ASSUME NEW v \in Users, ref'[v] # 0, hwId'[v] # Free PROVE hwUser'[hwId'[v]] = v
    <3>0. hwUser \in [Hw -> Users \cup {NoUser}] /\ hwId \in [Users -> Hw \cup {Free}]
      BY DEF Maps, MapTypes
    <3>1. hwUser[h] = NoUser
      BY <2>1 DEF FreeHw
    <3>2. CASE hwId'[v] = h
      <4>1. hwId[v] # h
        <5>1. SUFFICES ASSUME hwId[v] = h PROVE FALSE
          OBVIOUS
        <5>2. ref[v] # 0 /\ hwId[v] # Free
          BY <2>1, <2>7, <5>1, HwFinite DEF Free
        <5>3. hwUser[h] = v
          BY <5>1, <5>2 DEF Maps, HwIdsExclusive
        <5> QED BY <3>1, <5>3, FlowAssumption
      <4>2. v = u
        BY <2>2, <3>0, <3>2, <4>1
      <4> QED BY <2>1, <2>2, <3>0, <3>2, <4>2
    <3>3. CASE hwId'[v] # h
      <4>1. hwId'[v] = hwId[v]
        BY <2>1, <2>2, <3>0, <3>3
      <4>2. hwUser[hwId[v]] = v /\ hwId[v] \in Hw
        BY <2>7, <3>0, <4>1 DEF Maps, HwIdsExclusive
      <4> QED BY <2>2, <3>0, <3>3, <4>1, <4>2
    <3> QED BY <3>2, <3>3
  <2> QED BY <2>3, <2>6, <2>7, SplitExclusive DEF Maps, HwIdsExclusive, CardAgrees
<1> QED BY <1>1, <1>2, <1>3, <1>4

(* stop_stream gives back the hardware id of its own user id only. *)
LEMMA StopMaps ==
  ASSUME Maps, TypeOK, NEW s \in Streams, RuleStopStream(s), mark' = [mark EXCEPT ![s] = Free],
         UNCHANGED <<ref, proto, received>>
  PROVE  Maps'
<1> DEFINE u == Info[s].user
           left == (trans[u] - 1) % Wide
           h == hwId[u]
<1>0. mark' \in [Streams -> Hw \cup {Free}]
  BY DEF Maps, MapTypes
<1>1. CASE u = NoUser \/ ref[u] = 0
  <2>1. UNCHANGED <<trans, hwId, rx, base, hwCnt, hwVars>>
    BY <1>1 DEF RuleStopStream
  <2> QED BY <1>0, <2>1 DEF Maps, MapTypes, HwIdsExclusive, FreeHw, hwVars
<1>2. CASE ~(u = NoUser \/ ref[u] = 0)
  <2>1. u \in Users
    BY <1>2, InfoType
  <2>2. trans' = [trans EXCEPT ![u] = left] /\ trans' \in [Users -> 0 .. Wide - 1]
    BY <1>2, <2>1, CountType DEF RuleStopStream, Maps, MapTypes
  <2>3. CASE left # 0
    <3>1. UNCHANGED <<hwId, rx, base, hwCnt, hwVars>>
      BY <1>2, <2>3 DEF RuleStopStream
    <3> QED BY <1>0, <2>2, <3>1 DEF Maps, MapTypes, HwIdsExclusive, FreeHw, hwVars
  <2>4. CASE left = 0
    <3>1. hwId' = [hwId EXCEPT ![u] = Free] /\ base' = [base EXCEPT ![u] = base[u] + rx[u]]
      BY <1>2, <2>4 DEF RuleStopStream
    <3>2. hwId' \in [Users -> Hw \cup {Free}] /\ base' \in [Users -> Nat]
      BY <2>1, <3>1 DEF Maps, MapTypes
    <3>3. CASE h = Free
      <4>1. rx' = [rx EXCEPT ![u] = 0] /\ UNCHANGED <<hwCnt, hwVars>>
        BY <1>2, <2>4, <3>3 DEF RuleStopStream
      <4>2. MapTypes' /\ FreeHw' = FreeHw
        BY <1>0, <2>2, <3>2, <4>1 DEF Maps, MapTypes, FreeHw, hwVars
      <4>3. ASSUME NEW v \in Users, ref'[v] # 0, hwId'[v] # Free PROVE hwUser'[hwId'[v]] = v
        BY <3>1, <4>1, <4>3 DEF Maps, MapTypes, HwIdsExclusive, hwVars
      <4> QED BY <4>1, <4>2, <4>3 DEF Maps, HwIdsExclusive, hwVars
    <3>4. CASE h # Free
      <4>1. PICK v \in LastRead(h), w \in LeftInCount(h) :
              /\ rx' = [rx EXCEPT ![u] = v]
              /\ hwCnt' = [hwCnt EXCEPT ![h] = w]
              /\ hwUser' = [hwUser EXCEPT ![h] = NoUser]
              /\ numFree' = numFree + 1
              /\ rules' = rules \ {h}
        BY <1>2, <2>4, <3>4 DEF RuleStopStream
      <4>2. h \in Hw /\ hwUser[h] = u
        BY <1>2, <2>1, <3>4 DEF Maps, MapTypes, HwIdsExclusive
      <4>3. CardAgrees' /\ numFree' \in 0 .. NumHw /\ rules' \subseteq Hw
                        /\ hwUser' \in [Hw -> Users \cup {NoUser}]
        BY <1>2, <4>1, <4>2, ReturnAgrees, SplitExclusive DEF Maps
      <4>4. v \in Nat /\ w \in Nat
        BY <4>2, BoundType DEF LastRead, LeftInCount, Maps, MapTypes
      <4>5. rx' \in [Users -> Nat] /\ hwCnt' \in [Hw -> Nat]
        BY <2>1, <4>1, <4>2, <4>4 DEF Maps, MapTypes
      <4>6. MapTypes'
        BY <1>0, <2>2, <3>2, <4>3, <4>5 DEF Maps, MapTypes
      <4>7. ASSUME NEW x \in Users, ref'[x] # 0, hwId'[x] # Free PROVE hwUser'[hwId'[x]] = x
        <5>0. hwUser \in [Hw -> Users \cup {NoUser}] /\ hwId \in [Users -> Hw \cup {Free}]
          BY DEF Maps, MapTypes
        <5>1. x # u /\ hwId'[x] = hwId[x]
          BY <3>1, <4>7, <5>0, <2>1
        <5>2. hwUser[hwId[x]] = x /\ hwId[x] \in Hw
          BY <4>7, <5>0, <5>1 DEF Maps, HwIdsExclusive
        <5>3. hwId[x] # h
          BY <4>2, <5>1, <5>2
        <5> QED BY <4>1, <5>0, <5>1, <5>2, <5>3
      <4> QED BY <4>3, <4>6, <4>7 DEF Maps, HwIdsExclusive, CardAgrees
    <3> QED BY <3>3, <3>4
  <2> QED BY <2>3, <2>4
<1> QED BY <1>1, <1>2

(* The card counts only for a user id, and the report copies counters. *)
LEMMA PacketMaps ==
  ASSUME Maps, NEW h \in Hw, Packet(h)
  PROVE  Maps'
<1>1. received' \in [Users -> Nat] /\ hwCnt' \in [Hw -> Nat]
  BY DEF Maps, MapTypes, Packet
<1> QED BY <1>1 DEF Maps, MapTypes, HwIdsExclusive, FreeHw, Packet, portVars, userVars, hwVars

LEMMA DumpMaps ==
  ASSUME Maps, DumpJson
  PROVE  Maps' /\ (PortTypes => PortTypes')
<1>1. rx' \in [Users -> Nat]
  <2>1. CASE UNCHANGED rx
    BY <2>1 DEF Maps, MapTypes
  <2>2. CASE rx' = [u \in Users |->
                     LET mine == {h \in {k \in Hw : hwCnt[k] # 0} : hwUser[h] = u} IN
                     IF mine = {} THEN rx[u] ELSE hwCnt[Max(mine)]]
    <3>1. ASSUME NEW u \in Users,
                 NEW mine, mine = {h \in {k \in Hw : hwCnt[k] # 0} : hwUser[h] = u}
          PROVE  (IF mine = {} THEN rx[u] ELSE hwCnt[Max(mine)]) \in Nat
      <4>1. CASE mine = {}
        BY <4>1 DEF Maps, MapTypes
      <4>2. CASE mine # {}
        <5>1. mine \in SUBSET (0 .. NumHw - 1) /\ NumHw - 1 \in Nat
          BY <3>1, FlowAssumption DEF Hw
        <5>2. Max(mine) \in Hw
          BY <4>2, <5>1, MaxIn DEF Hw
        <5> QED BY <4>2, <5>2 DEF Maps, MapTypes
      <4> QED BY <4>1, <4>2
    <3> QED BY <2>2, <3>1
  <2> QED BY <2>1, <2>2 DEF DumpJson
<1>2. Maps'
  BY <1>1 DEF Maps, MapTypes, HwIdsExclusive, FreeHw, DumpJson, portVars, userVars, hwVars
<1>3. ASSUME PortTypes PROVE PortTypes'
  <2>1. crashed' \in BOOLEAN
    BY <1>3 DEF DumpJson, PortTypes
  <2> QED BY <1>3, <2>1 DEF DumpJson, PortTypes, portVars
<1> QED BY <1>2, <1>3

-----------------------------------------------------------------------------
(***************************************************************************)
(* The ports and the threads keep their types.                             *)
(***************************************************************************)
LEMMA BeginType ==
  ASSUME job \in [Threads -> Jobs], NEW t \in Threads,
         NEW o \in {"remove", "start", "validate", "stop"}, NEW p \in Ports,
         NEW S \in SUBSET Streams, Begin(t, o, p, S)
  PROVE  job' \in [Threads -> Jobs]
<1>1. [op |-> o, port |-> p, todo |-> S] \in Jobs
  BY DEF Jobs
<1> QED BY <1>1 DEF Begin

LEMMA IdleType == Idle \in Jobs
BY DEF Idle, Jobs

LEMMA Next1Type ==
  ASSUME job \in [Threads -> Jobs], NEW t \in Threads, NEW s, Next1(t, s)
  PROVE  job' \in [Threads -> Jobs]
<1>1. [job[t] EXCEPT !.todo = @ \ {s}] \in Jobs
  BY DEF Jobs
<1>2. job' = [job EXCEPT ![t] = [job[t] EXCEPT !.todo = @ \ {s}]]
  BY DEF Next1
<1> QED BY <1>1, <1>2

LEMMA DoneType ==
  ASSUME job \in [Threads -> Jobs], NEW t \in Threads, job' = [job EXCEPT ![t] = Idle]
  PROVE  job' \in [Threads -> Jobs]
BY IdleType

(* Maps and types survive every step: one step per action. *)
LEMMA StepMaps == MapsAgree /\ [Next]_vars => MapsAgree'
<1> SUFFICES ASSUME MapsAgree, [Next]_vars PROVE Maps' /\ PortTypes'
  BY DEF MapsAgree, TypeOK, Maps, MapTypes, PortTypes, Jobs
<1>0. TypeOK /\ Maps /\ PortTypes /\ "rpc" \in Threads
  BY SplitMaps DEF MapsAgree, Threads
<1>1. ASSUME NEW s \in Streams, AddStream(s) PROVE Maps' /\ PortTypes'
  <2>1. Maps'
    BY <1>0, <1>1, AddMaps DEF AddStream
  <2>2. state' \in [Ports -> {"IDLE", "STREAMS", "TX"}] /\ table' \subseteq Streams
    BY <1>0, <1>1 DEF AddStream, PortTypes
  <2> QED BY <1>0, <1>1, <2>1, <2>2 DEF AddStream, PortTypes
<1>2. ASSUME NEW s \in Streams, RemoveStream(s) PROVE Maps' /\ PortTypes'
  <2>1. Maps'
    BY <1>0, <1>2, DelMaps DEF RemoveStream, TakeOut
  <2>2. state' \in [Ports -> {"IDLE", "STREAMS", "TX"}] /\ table' \subseteq Streams
    BY <1>0, <1>2 DEF RemoveStream, TakeOut, PortTypes
  <2> QED BY <1>0, <1>2, <2>1, <2>2 DEF RemoveStream, PortTypes
<1>3. ASSUME NEW s \in Streams, RemoveNext(s) PROVE Maps' /\ PortTypes'
  <2>1. Maps'
    BY <1>0, <1>3, DelMaps DEF RemoveNext, TakeOut
  <2>2. state' \in [Ports -> {"IDLE", "STREAMS", "TX"}] /\ table' \subseteq Streams
    BY <1>0, <1>3 DEF RemoveNext, TakeOut, PortTypes
  <2>3. job' \in [Threads -> Jobs]
    BY <1>0, <1>3, Next1Type DEF RemoveNext, PortTypes
  <2> QED BY <1>0, <1>3, <2>1, <2>2, <2>3 DEF RemoveNext, PortTypes
<1>4. ASSUME NEW s \in Streams, CompileNext(s) PROVE Maps' /\ PortTypes'
  <2>1. Maps'
    BY <1>0, <1>4, StartMaps DEF CompileNext
  <2>2. job' \in [Threads -> Jobs]
    BY <1>0, <1>4, Next1Type, DoneType DEF CompileNext, PortTypes
  <2> QED BY <1>0, <1>4, <2>1, <2>2 DEF CompileNext, PortTypes
<1>5. ASSUME NEW p \in Ports, RemoveAllStreams(p) PROVE Maps' /\ PortTypes'
  <2>1. Maps'
    BY <1>0, <1>5, SameMaps DEF RemoveAllStreams, portVars
  <2>2. Of(p) \in SUBSET Streams
    BY <1>0 DEF PortTypes, Of
  <2>3. job' \in [Threads -> Jobs]
    BY <1>0, <1>5, <2>2, BeginType DEF RemoveAllStreams, PortTypes
  <2> QED BY <1>0, <1>5, <2>1, <2>3 DEF RemoveAllStreams, PortTypes, portVars
<1>6. ASSUME NEW p \in Ports, StartTraffic(p) \/ Validate(p) PROVE Maps' /\ PortTypes'
  <2>0. UNCHANGED <<careful, portVars, userVars, cntVars, hwVars, crashed>>
    BY <1>6 DEF StartTraffic, Validate
  <2>1. Maps'
    BY <1>0, <2>0, SameMaps DEF portVars
  <2>2. {s \in Of(p) : Info[s].enabled} \in SUBSET Streams
    BY <1>0 DEF PortTypes, Of
  <2>3. job' \in [Threads -> Jobs]
    BY <1>0, <1>6, <2>2, BeginType DEF StartTraffic, Validate, CompileAll, PortTypes
  <2> QED BY <1>0, <2>0, <2>1, <2>3 DEF PortTypes, portVars
<1>7. ASSUME CompileDone PROVE Maps' /\ PortTypes'
  <2>1. Maps'
    BY <1>0, <1>7, SameMaps DEF CompileDone
  <2>2. job' \in [Threads -> Jobs]
    BY <1>0, <1>7, DoneType DEF CompileDone, Done, PortTypes
  <2>3. state' \in [Ports -> {"IDLE", "STREAMS", "TX"}]
    BY <1>0, <1>7 DEF CompileDone, PortTypes
  <2> QED BY <1>0, <1>7, <2>1, <2>2, <2>3 DEF CompileDone, PortTypes
<1>8. ASSUME NEW p \in Ports, NEW t \in Threads, StopBegin(t, p) PROVE Maps' /\ PortTypes'
  <2>1. Maps'
    BY <1>0, <1>8, SameMaps DEF StopBegin
  <2>2. Of(p) \in SUBSET Streams
    BY <1>0 DEF PortTypes, Of
  <2>3. job' \in [Threads -> Jobs]
    BY <1>0, <1>8, <2>2, BeginType DEF StopBegin, PortTypes
  <2>4. state' \in [Ports -> {"IDLE", "STREAMS", "TX"}]
    BY <1>0, <1>8 DEF StopBegin, PortTypes
  <2> QED BY <1>0, <1>8, <2>1, <2>3, <2>4 DEF StopBegin, PortTypes
<1>9. ASSUME NEW t \in Threads, LoopDone(t) PROVE Maps' /\ PortTypes'
  <2>1. Maps'
    BY <1>0, <1>9, SameMaps DEF LoopDone, portVars
  <2>2. job' \in [Threads -> Jobs]
    BY <1>0, <1>9, DoneType DEF LoopDone, Done, PortTypes
  <2> QED BY <1>0, <1>9, <2>1, <2>2 DEF LoopDone, PortTypes, portVars
<1>10. ASSUME NEW t \in Threads, NEW s \in Streams, StopNext(t, s) PROVE Maps' /\ PortTypes'
  <2>1. Maps'
    BY <1>0, <1>10, StopMaps DEF StopNext
  <2>2. job' \in [Threads -> Jobs]
    BY <1>0, <1>10, Next1Type DEF StopNext, PortTypes
  <2> QED BY <1>0, <1>10, <2>1, <2>2 DEF StopNext, PortTypes
<1>11. ASSUME NEW h \in Hw, Packet(h) PROVE Maps' /\ PortTypes'
  <2>1. Maps'
    BY <1>0, <1>11, PacketMaps
  <2> QED BY <1>0, <1>11, <2>1 DEF Packet, PortTypes, portVars
<1>12. ASSUME DumpJson PROVE Maps' /\ PortTypes'
  BY <1>0, <1>12, DumpMaps
<1>13. ASSUME UNCHANGED vars PROVE Maps' /\ PortTypes'
  <2>1. Maps'
    BY <1>0, <1>13, SameMaps DEF vars, portVars
  <2> QED BY <1>0, <1>13, <2>1 DEF vars, portVars, PortTypes
<1> QED
  BY <1>1, <1>2, <1>3, <1>4, <1>5, <1>6, <1>7, <1>8, <1>9, <1>10, <1>11, <1>12, <1>13, <1>0
     DEF Next, RpcStep, StopTraffic, RunFinished, Threads

LEMMA InitMaps == Init => MapsAgree
<1> SUFFICES ASSUME Init PROVE MapsAgree
  OBVIOUS
<1>1. PortTypes
  BY IdleType DEF Init, PortTypes
<1>2. MapTypes
  BY FlowAssumption DEF Init, MapTypes, Wide
<1>3. FreeHw = Hw
  BY DEF Init, FreeHw
<1>4. HwIdsExclusive
  BY <1>3, HwCard DEF Init, HwIdsExclusive
<1> QED BY <1>1, <1>2, <1>4, SplitMaps DEF Maps

(***************************************************************************)
(* For any number of ports, streams, user ids and hardware ids, whatever   *)
(* the clients do and however the two threads' loops over start_stream,    *)
(* stop_stream, add_stream and del_stream interleave, the two maps of      *)
(* CFlowStatRuleMgr stay in their ranges, agree with each other and with   *)
(* the rules in the card, and no two user ids count into each other.       *)
(***************************************************************************)
THEOREM MapsAlwaysAgree == Spec => []MapsAgree
BY InitMaps, StepMaps, PTL DEF Spec

-----------------------------------------------------------------------------
(***************************************************************************)
(* Careful clients.  The inductive invariant says what the loops of the    *)
(* two threads are doing, that the counts are the numbers of streams, and  *)
(* that the hardware ids are held by the user ids with started streams.    *)
(***************************************************************************)
JobSound(t) ==
  LET p == job[t].port IN
  /\ job[t].op # "validate"
  /\ job[t].op = "idle" => job[t] = Idle
  /\ job[t].op # "idle" => p \in Ports /\ job[t].todo \subseteq Of(p)
  /\ job[t].op \in {"start", "stop"} => state[p] = "STREAMS"
  /\ job[t].op = "remove" => state[p] # "TX" /\ job[t].todo = Of(p)

(* Two loops never work on one port, and each fits the port's state. *)
Loops ==
  /\ \A t \in Threads : JobSound(t)
  /\ job["master"].op \in {"idle", "stop"}
  /\ job["rpc"].op # "idle" => job["rpc"].port # job["master"].port

Counts ==
  /\ \A s \in table : Plain(s)
  /\ \A u \in Users : ref[u] = Cardinality(WithUser(u, table))
  /\ \A u \in Users : ref[u] # 0 => proto[u] = "udp"

Leases ==
  /\ \A u \in Users : trans[u] = Cardinality(StartedOf(u))
  /\ \A u \in Users : hwId[u] # Free <=> StartedOf(u) # {}
  /\ \A h \in Hw : hwUser[h] # NoUser => hwId[hwUser[h]] = h
  /\ \A u \in Users : \A s \in StartedOf(u) : mark[s] # Free /\ mark[s] = hwId[u]

(* A free hardware id 0 has counted nothing. *)
Clean == hwUser[0] = NoUser => hwCnt[0] = 0

CarefulInv == careful => Loops /\ Counts /\ Leases /\ Clean

(* Only start_stream and stop_stream change which streams are started. *)
SameStarted == \A s \in Streams : Started(s)' <=> Started(s)

LEMMA SameStartedOf ==
  ASSUME SameStarted, NEW u PROVE StartedOf(u)' = StartedOf(u)
BY DEF SameStarted, StartedOf, WithUser

LEMMA JobOf ==
  ASSUME PortTypes
  PROVE  /\ job["rpc"] \in Jobs /\ job["master"] \in Jobs
         /\ "rpc" \in Threads /\ "master" \in Threads /\ "rpc" # "master"
BY DEF PortTypes, Threads

(* The steps that begin or end a loop. *)
LEMMA BeginLoops ==
  ASSUME PortTypes, Loops, Overlap = FALSE, NEW p \in Ports,
         RemoveAllStreams(p) \/ (StartTraffic(p) /\ \A s \in table : Plain(s)) \/ StopTraffic(p)
  PROVE  Loops' /\ SameStarted
<1> DEFINE new == job'["rpc"]
<1>0. /\ Begins("rpc") /\ job["master"].port # p /\ table' = table
      /\ job["rpc"] = Idle /\ job["rpc"].op = "idle" /\ job["rpc"].todo = {}
  BY DEF RemoveAllStreams, StartTraffic, StopTraffic, StopBegin, Commands, Begins, portVars, Idle
<1>1. job'["master"] = job["master"] /\ new.port = p
  BY JobOf DEF RemoveAllStreams, StartTraffic, StopTraffic, StopBegin, CompileAll, Begin, PortTypes
<1>2. \A q : Of(q)' = Of(q)
  BY <1>0 DEF Of
<1>3. CASE RemoveAllStreams(p)
  <2>1. new.op = "remove" /\ new.todo = Of(p) /\ state' = state /\ state[p] = "STREAMS"
    BY <1>3, JobOf DEF RemoveAllStreams, Begin, PortTypes, portVars
  <2>2. JobSound("rpc")' /\ JobSound("master")'
    BY <1>0, <1>1, <1>2, <2>1, JobOf DEF JobSound, Loops
  <2>3. Loops'
    BY <1>0, <1>1, <2>1, <2>2 DEF Loops, Threads
  <2>4. SameStarted
    BY <1>0, <1>1, <2>1 DEF SameStarted, Started, Threads
  <2> QED BY <2>3, <2>4
<1>4. CASE StartTraffic(p) /\ \A s \in table : Plain(s)
  <2>0. {s \in Of(p) : Info[s].enabled} = Of(p)
    BY <1>4 DEF Of, Plain
  <2>1. new.op = "start" /\ new.todo = Of(p) /\ state' = state /\ state[p] = "STREAMS"
    BY <1>4, <2>0, JobOf DEF StartTraffic, CompileAll, Begin, PortTypes, portVars
  <2>2. JobSound("rpc")' /\ JobSound("master")'
    BY <1>0, <1>1, <1>2, <2>1, JobOf DEF JobSound, Loops
  <2>3. Loops'
    BY <1>0, <1>1, <2>1, <2>2 DEF Loops, Threads
  <2>4. SameStarted
    BY <1>0, <1>1, <2>1 DEF SameStarted, Started, Threads, Of
  <2> QED BY <2>3, <2>4
<1>5. CASE StopTraffic(p)
  <2>1. /\ new.op = "stop" /\ new.todo = Of(p)
        /\ state' = [state EXCEPT ![p] = "STREAMS"] /\ state[p] = "TX"
    BY <1>5, JobOf DEF StopTraffic, StopBegin, Begin, PortTypes
  <2>2. \A q \in Ports : state'[q] = IF q = p THEN "STREAMS" ELSE state[q]
    BY <2>1 DEF PortTypes
  <2>3. JobSound("rpc")' /\ JobSound("master")'
    BY <1>0, <1>1, <1>2, <2>1, <2>2, JobOf DEF JobSound, Loops
  <2>4. Loops'
    BY <1>0, <1>1, <2>1, <2>3 DEF Loops, Threads
  <2>5. SameStarted
    BY <1>0, <1>1, <2>1, <2>2, InfoType DEF SameStarted, Started, Threads, Of
  <2> QED BY <2>4, <2>5
<1> QED BY <1>3, <1>4, <1>5

LEMMA FinishLoops ==
  ASSUME PortTypes, Loops, Overlap = FALSE, NEW p \in Ports, RunFinished(p)
  PROVE  Loops' /\ SameStarted
<1> DEFINE new == job'["master"]
<1>0. /\ job["rpc"].port # p /\ table' = table
      /\ job["master"] = Idle /\ job["master"].op = "idle" /\ job["master"].todo = {}
  BY DEF RunFinished, StopBegin, Begins, Idle
<1>1. /\ new.op = "stop" /\ new.todo = Of(p) /\ new.port = p /\ job'["rpc"] = job["rpc"]
      /\ state' = [state EXCEPT ![p] = "STREAMS"] /\ state[p] = "TX"
  BY JobOf DEF RunFinished, StopBegin, Begin, PortTypes
<1>2. \A q \in Ports : state'[q] = IF q = p THEN "STREAMS" ELSE state[q]
  BY <1>1 DEF PortTypes
<1>3. \A q : Of(q)' = Of(q)
  BY <1>0 DEF Of
<1>4. JobSound("rpc")' /\ JobSound("master")'
  BY <1>0, <1>1, <1>2, <1>3, JobOf DEF JobSound, Loops
<1>5. Loops'
  BY <1>0, <1>1, <1>4 DEF Loops, Threads
<1>6. SameStarted
  BY <1>0, <1>1, <1>2, InfoType DEF SameStarted, Started, Threads, Of
<1> QED BY <1>5, <1>6

LEMMA EndLoops ==
  ASSUME PortTypes, Loops, NEW t \in Threads, LoopDone(t) \/ (t = "rpc" /\ CompileDone)
  PROVE  Loops' /\ SameStarted
<1>0. table' = table /\ job[t].todo = {} /\ job' = [job EXCEPT ![t] = Idle]
  BY DEF LoopDone, CompileDone, Done, portVars
<1>1. job'[t] = Idle /\ \A o \in Threads : o # t => job'[o] = job[o]
  BY <1>0 DEF PortTypes
<1>2. Idle.op = "idle" /\ Idle.todo = {} /\ Idle.port = NoPort
  BY DEF Idle
<1>3. \A q : Of(q)' = Of(q)
  BY <1>0 DEF Of
<1>4. CASE LoopDone(t)
  <2>1. state' = state /\ job[t].op \in {"stop", "remove"}
    BY <1>4 DEF LoopDone, Done, portVars
  <2>2. \A o \in Threads : JobSound(o)'
    BY <1>1, <1>2, <1>3, <2>1 DEF JobSound, Loops
  <2>3. Loops'
    BY <1>1, <1>2, <2>1, <2>2, JobOf, FlowAssumption DEF Loops, Threads, JobSound
  <2>4. SameStarted
    BY <1>0, <1>1, <1>2, <2>1 DEF SameStarted, Started, Threads
  <2> QED BY <2>3, <2>4
<1>5. CASE t = "rpc" /\ CompileDone
  <2>1. job["rpc"].op = "start" /\ job["rpc"].port \in Ports
    BY <1>5, JobOf DEF CompileDone, Done, Loops, JobSound
  <2>2. \A q \in Ports : state'[q] = IF q = job["rpc"].port THEN "TX" ELSE state[q]
    BY <1>5, <2>1 DEF CompileDone, PortTypes
  <2>3. \A o \in Threads : JobSound(o)'
    BY <1>1, <1>2, <1>3, <1>5, <2>1, <2>2 DEF JobSound, Loops, Threads
  <2>4. Loops'
    BY <1>1, <1>2, <1>5, <2>3, JobOf DEF Loops
  <2>5. SameStarted
    BY <1>0, <1>1, <1>2, <1>5, <2>1, <2>2, InfoType DEF SameStarted, Started, Threads, Loops, JobSound
  <2> QED BY <2>4, <2>5
<1> QED BY <1>4, <1>5

(* The steps that change a port's table. *)
LEMMA AddLoops ==
  ASSUME PortTypes, Loops, Overlap = FALSE, NEW s \in Streams, AddStream(s)
  PROVE  Loops' /\ SameStarted
<1> DEFINE p == Info[s].port
<1>0. /\ job["rpc"] = Idle /\ job["master"].port # p /\ job' = job
      /\ table' = table \cup {s} /\ s \notin table /\ state[p] # "TX"
      /\ Idle.op = "idle" /\ p \in Ports
  BY InfoType DEF AddStream, Commands, Begins, Idle
<1>1. \A q \in Ports : state'[q] = IF q = p THEN "STREAMS" ELSE state[q]
  BY DEF AddStream, PortTypes
<1>2. \A q : q # p => Of(q)' = Of(q)
  BY <1>0 DEF Of
<1>3. JobSound("rpc")' /\ JobSound("master")'
  BY <1>0, <1>1, <1>2, JobOf DEF JobSound, Loops
<1>4. Loops'
  BY <1>0, <1>3 DEF Loops, Threads
<1>5. SameStarted
  BY <1>0, <1>1, InfoType DEF SameStarted, Started, Threads
<1> QED BY <1>4, <1>5

LEMMA TakeOutLoops ==
  ASSUME PortTypes, Loops, Overlap = FALSE, NEW s \in Streams, RemoveStream(s) \/ RemoveNext(s)
  PROVE  Loops' /\ SameStarted /\ ~Started(s) /\ s \in table
<1> DEFINE p == Info[s].port
<1>0. /\ table' = table \ {s} /\ p \in Ports
      /\ state' = [state EXCEPT ![p] = IF Of(p) = {s} THEN "IDLE" ELSE @]
  BY InfoType DEF RemoveStream, RemoveNext, TakeOut
<1>1. \A q \in Ports : /\ state'[q] = IF q = p /\ Of(p) = {s} THEN "IDLE" ELSE state[q]
                      /\ q # p => Of(q)' = Of(q)
  BY <1>0 DEF PortTypes, Of
<1>2. CASE RemoveStream(s)
  <2>1. /\ job["rpc"] = Idle /\ job["master"].port # p /\ job' = job
        /\ s \in table /\ state[p] = "STREAMS" /\ Idle.op = "idle"
    BY <1>2 DEF RemoveStream, Commands, Begins, Idle
  <2>2. JobSound("rpc")' /\ JobSound("master")'
    BY <1>0, <1>1, <2>1, JobOf DEF JobSound, Loops
  <2>3. Loops'
    BY <2>1, <2>2 DEF Loops, Threads
  <2>4. SameStarted /\ ~Started(s)
    BY <1>0, <1>1, <2>1, InfoType DEF SameStarted, Started, Threads
  <2> QED BY <2>1, <2>3, <2>4
<1>3. CASE RemoveNext(s)
  <2>1. /\ job["rpc"].op = "remove" /\ s \in job["rpc"].todo
        /\ job' = [job EXCEPT !["rpc"].todo = @ \ {s}]
    BY <1>3 DEF RemoveNext, Doing, Next1
  <2>2. /\ job'["master"] = job["master"] /\ job'["rpc"].op = "remove"
        /\ job'["rpc"].port = job["rpc"].port
        /\ job'["rpc"].todo = job["rpc"].todo \ {s}
    BY <2>1, JobOf DEF PortTypes, Jobs
  <2>3. s \in table /\ job["rpc"].port = p /\ state[p] # "TX" /\ job["rpc"].todo = Of(p)
    BY <2>1, JobOf DEF Loops, JobSound, Of
  <2>4. Of(p)' = Of(p) \ {s}
    BY <1>0 DEF Of
  <2>5. JobSound("rpc")'
    <3>1. job'["rpc"].port = p /\ state'[p] # "TX" /\ job'["rpc"].todo = Of(p)'
      BY <1>0, <1>1, <2>2, <2>3, <2>4
    <3>2. Of(job["rpc"].port)' = Of(p)'
      BY <2>2, <2>3 DEF Of
    <3> QED BY <1>0, <2>2, <3>1, <3>2 DEF JobSound
  <2>6. JobSound("master")'
    BY <1>0, <1>1, <2>1, <2>2, <2>3, JobOf DEF JobSound, Loops
  <2>7. Loops'
    BY <2>1, <2>2, <2>5, <2>6 DEF Loops, Threads
  <2>8. SameStarted /\ ~Started(s)
    BY <1>0, <1>1, <2>1, <2>2, <2>3, JobOf, InfoType DEF SameStarted, Started, Threads, Loops
  <2> QED BY <2>3, <2>7, <2>8
<1> QED BY <1>2, <1>3

(* start_stream starts one stream, stop_stream stops one. *)
LEMMA CompileLoops ==
  ASSUME PortTypes, Loops, NEW s \in Streams, CompileNext(s), \A x \in table : Plain(x)
  PROVE  /\ Loops' /\ s \in table /\ ~Started(s)
         /\ Info[s].user # NoUser => Started(s)'
         /\ \A x \in Streams \ {s} : Started(x)' <=> Started(x)
<1> DEFINE p == Info[s].port
<1>1. job["rpc"].op = "start" /\ s \in job["rpc"].todo /\ table' = table /\ state' = state
  BY JobOf DEF CompileNext, Doing, Loops, JobSound
<1>2. s \in table /\ job["rpc"].port = p /\ state[p] = "STREAMS"
  BY <1>1, JobOf DEF Loops, JobSound, Of
<1>3. ~Info[s].throws
  BY <1>2 DEF Plain
<1>4. /\ job'["master"] = job["master"] /\ job'["rpc"].op = "start"
      /\ job'["rpc"].port = job["rpc"].port
      /\ job'["rpc"].todo = job["rpc"].todo \ {s}
  BY <1>1, <1>3, JobOf DEF CompileNext, Next1, PortTypes, Jobs
<1>5. \A q : Of(q)' = Of(q)
  BY <1>1 DEF Of
<1>6. JobSound("rpc")' /\ JobSound("master")'
  BY <1>1, <1>4, <1>5, JobOf DEF JobSound, Loops
<1>7. Loops'
  BY <1>1, <1>4, <1>6 DEF Loops, Threads
<1>8. job["master"].port # p
  BY <1>1, <1>2 DEF Loops
<1>9. ~Started(s) /\ (Info[s].user # NoUser => Started(s)')
  BY <1>1, <1>2, <1>4, <1>8 DEF Started, Threads
<1>10. \A x \in Streams \ {s} : Started(x)' <=> Started(x)
  BY <1>1, <1>4 DEF Started, Threads
<1> QED BY <1>2, <1>7, <1>9, <1>10

LEMMA StopLoops ==
  ASSUME PortTypes, Loops, NEW t \in Threads, NEW s \in Streams, StopNext(t, s)
  PROVE  /\ Loops' /\ s \in table /\ ~Started(s)'
         /\ Info[s].user # NoUser => Started(s)
         /\ \A x \in Streams \ {s} : Started(x)' <=> Started(x)
<1> DEFINE p == Info[s].port
<1>1. /\ job[t].op = "stop" /\ s \in job[t].todo /\ table' = table /\ state' = state
      /\ job' = [job EXCEPT ![t].todo = @ \ {s}]
  BY DEF StopNext, Doing, Next1
<1>2. s \in table /\ job[t].port = p /\ state[p] = "STREAMS"
  BY <1>1 DEF Loops, JobSound, Of
<1>4. /\ job'[t].op = "stop" /\ job'[t].port = job[t].port
      /\ job'[t].todo = job[t].todo \ {s}
      /\ \A o \in Threads : o # t => job'[o] = job[o]
  BY <1>1 DEF PortTypes, Jobs
<1>5. \A q : Of(q)' = Of(q)
  BY <1>1 DEF Of
<1>6. \A o \in Threads : JobSound(o)'
  BY <1>1, <1>4, <1>5 DEF JobSound, Loops
<1>8. \A o \in Threads : o # t => job[o].port # p \/ job[o].op = "idle"
  BY <1>1, <1>2 DEF Loops, Threads
<1>7. Loops'
  BY <1>1, <1>4, <1>6, JobOf DEF Loops, Threads
<1>9. ~Started(s)' /\ (Info[s].user # NoUser => Started(s))
  BY <1>1, <1>2, <1>4, <1>8, JobOf DEF Started
<1>10. \A x \in Streams \ {s} : Started(x)' <=> Started(x)
  BY <1>1, <1>4, JobOf DEF Started, Threads
<1> QED BY <1>2, <1>7, <1>9, <1>10

-----------------------------------------------------------------------------
(***************************************************************************)
(* The counts of careful clients.                                          *)
(***************************************************************************)
LEMMA UserStreams ==
  ASSUME NEW u, NEW S \in SUBSET Streams
  PROVE  /\ IsFiniteSet(WithUser(u, S))
         /\ Cardinality(WithUser(u, S)) \in 0 .. Wide - 1
<1>1. WithUser(u, S) \in SUBSET Streams
  BY DEF WithUser
<1>2. IsFiniteSet(Streams) /\ Cardinality(Streams) < Wide
  BY FlowAssumption
<1>3. IsFiniteSet(WithUser(u, S)) /\ Cardinality(WithUser(u, S)) <= Cardinality(Streams)
  BY <1>1, <1>2, FS_Subset
<1>4. Cardinality(WithUser(u, S)) \in Nat /\ Cardinality(Streams) \in Nat
  BY <1>2, <1>3, FS_CardinalityType
<1> QED BY <1>2, <1>3, <1>4 DEF Wide

LEMMA StartedInTable ==
  ASSUME table \subseteq Streams, NEW u
  PROVE  StartedOf(u) \subseteq WithUser(u, table)
BY DEF StartedOf, Started, WithUser

LEMMA StartedFinite ==
  ASSUME NEW u PROVE IsFiniteSet(StartedOf(u)) /\ Cardinality(StartedOf(u)) \in 0 .. Wide - 1
<1> DEFINE T == {s \in Streams : Started(s)}
<1>1. StartedOf(u) = WithUser(u, T)
  BY DEF StartedOf, WithUser
<1> QED BY <1>1, UserStreams

(* A user id without streams holds nothing, so its entry is like new. *)
LEMMA EntrySame ==
  ASSUME MapTypes, Leases, NEW u \in Users, StartedOf(u) = {}, NEW n, NEW pr, Entry(u, n, pr)
  PROVE  trans' = trans /\ hwId' = hwId /\ hwCnt' = hwCnt
<1>1. trans[u] = 0 /\ hwId[u] = Free
  BY FS_EmptySet DEF Leases
<1> QED BY <1>1 DEF Entry, MapTypes

LEMMA SameLeases ==
  ASSUME Leases, SameStarted, UNCHANGED <<trans, hwId, hwUser, mark>>
  PROVE  Leases'
<1>1. \A u \in Users : StartedOf(u)' = StartedOf(u)
  BY SameStartedOf
<1> QED BY <1>1 DEF Leases

LEMMA SameCounts ==
  ASSUME Counts, UNCHANGED <<table, ref, proto>>
  PROVE  Counts'
BY DEF Counts, WithUser

LEMMA AddCounts ==
  ASSUME MapTypes, PortTypes, Leases, Counts, NEW s \in Streams, AddStream(s), Plain(s)
  PROVE  Counts' /\ trans' = trans /\ hwId' = hwId /\ hwCnt' = hwCnt
<1> DEFINE u == Info[s].user
<1>0. /\ table' = table \cup {s} /\ s \notin table /\ RuleAddStream(s) /\ table \subseteq Streams
      /\ Info[s].supported /\ Info[s].proto = "udp"
  BY DEF AddStream, PortTypes, Plain
<1>1. \A x \in table' : Plain(x)
  BY <1>0 DEF Counts, Plain
<1>2. \A v : v # u => WithUser(v, table)' = WithUser(v, table)
  BY <1>0 DEF WithUser
<1>3. CASE u = NoUser
  <2>1. UNCHANGED <<userVars, cntVars>> /\ \A v \in Users : v # u
    BY <1>0, <1>3, FlowAssumption DEF RuleAddStream
  <2> QED BY <1>1, <1>2, <2>1 DEF Counts, userVars, cntVars
<1>4. CASE u # NoUser
  <2>1. u \in Users
    BY <1>4, InfoType
  <2>2. WithUser(u, table)' = WithUser(u, table) \cup {s} /\ s \notin WithUser(u, table)
    BY <1>0 DEF WithUser
  <2>3. Cardinality(WithUser(u, table) \cup {s}) = ref[u] + 1
    <3>1. ref[u] = Cardinality(WithUser(u, table)) /\ IsFiniteSet(WithUser(u, table))
      BY <1>0, <2>1, UserStreams DEF Counts
    <3> QED BY <2>2, <3>1, FS_AddElement
  <2>4. ref[u] + 1 \in 0 .. Wide - 1 /\ ref[u] \in Nat
    <3>1. WithUser(u, table) \cup {s} = WithUser(u, table \cup {s}) /\ table \cup {s} \in SUBSET Streams
      BY <1>0 DEF WithUser
    <3> QED BY <2>1, <2>3, <3>1, UserStreams, CountType
  <2>5. CASE ref[u] = 0
    <3>1. Entry(u, 1, "udp")
      BY <1>0, <1>4, <2>5 DEF RuleAddStream
    <3>2. WithUser(u, table) = {}
      BY <1>0, <2>1, <2>5, UserStreams, FS_EmptySet DEF Counts
    <3>3. trans' = trans /\ hwId' = hwId /\ hwCnt' = hwCnt
      BY <1>0, <2>1, <3>1, <3>2, StartedInTable, EntrySame
    <3>4. /\ \A v \in Users : ref'[v] = IF v = u THEN 1 ELSE ref[v]
          /\ \A v \in Users : proto'[v] = IF v = u THEN "udp" ELSE proto[v]
      BY <3>1 DEF Entry, MapTypes
    <3>5. \A v \in Users : ref'[v] = Cardinality(WithUser(v, table)')
      BY <1>2, <2>2, <2>3, <2>5, <3>4 DEF Counts
    <3> QED BY <1>1, <3>3, <3>4, <3>5 DEF Counts
  <2>6. CASE ref[u] # 0
    <3>1. proto[u] = "udp"
      BY <2>1, <2>6 DEF Counts
    <3>2. ref' = [ref EXCEPT ![u] = (ref[u] + 1) % Wide] /\ UNCHANGED <<trans, proto, hwId, cntVars>>
      BY <1>0, <1>4, <2>6, <3>1 DEF RuleAddStream
    <3>3. (ref[u] + 1) % Wide = ref[u] + 1
      BY <2>4 DEF Wide
    <3>4. \A v \in Users : ref'[v] = IF v = u THEN ref[u] + 1 ELSE ref[v]
      BY <3>2, <3>3 DEF MapTypes
    <3>5. \A v \in Users : ref'[v] = Cardinality(WithUser(v, table)')
      BY <1>2, <2>2, <2>3, <3>4 DEF Counts
    <3>6. \A v \in Users : ref'[v] # 0 => proto'[v] = "udp"
      BY <3>1, <3>2, <3>4 DEF Counts
    <3> QED BY <1>1, <3>2, <3>5, <3>6 DEF Counts, cntVars
  <2> QED BY <2>5, <2>6
<1> QED BY <1>3, <1>4

LEMMA DelCounts ==
  ASSUME MapTypes, PortTypes, Leases, Counts, NEW s \in Streams, RuleDelStream(s),
         s \in table, ~Started(s), table' = table \ {s}
  PROVE  Counts' /\ trans' = trans /\ hwId' = hwId /\ hwCnt' = hwCnt
<1> DEFINE u == Info[s].user
<1>0. table \subseteq Streams /\ \A x \in table' : Plain(x)
  BY DEF PortTypes, Counts
<1>2. \A v : v # u => WithUser(v, table)' = WithUser(v, table)
  BY DEF WithUser
<1>3. CASE u = NoUser
  <2>1. UNCHANGED <<userVars, cntVars>> /\ \A v \in Users : v # u
    BY <1>3, FlowAssumption DEF RuleDelStream
  <2> QED BY <1>0, <1>2, <2>1 DEF Counts, userVars, cntVars
<1>4. CASE u # NoUser
  <2>1. u \in Users
    BY <1>4, InfoType
  <2>2. WithUser(u, table)' = WithUser(u, table) \ {s} /\ s \in WithUser(u, table)
    BY DEF WithUser
  <2>3. Cardinality(WithUser(u, table) \ {s}) = ref[u] - 1
    <3>1. ref[u] = Cardinality(WithUser(u, table)) /\ IsFiniteSet(WithUser(u, table))
      BY <1>0, <2>1, UserStreams DEF Counts
    <3> QED BY <2>2, <3>1, FS_RemoveElement
  <2>4. ref[u] # 0 /\ ref[u] \in Nat
    BY <1>0, <2>1, <2>2, UserStreams, FS_EmptySet, CountType DEF Counts
  <2>5. CASE ref[u] = 1
    <3>1. Entry(u, 0, "udp")
      BY <1>4, <2>4, <2>5 DEF RuleDelStream
    <3>2. WithUser(u, table) \ {s} = {}
      <4>1. IsFiniteSet(WithUser(u, table) \ {s})
        BY <1>0, UserStreams, FS_Subset
      <4> QED BY <2>3, <2>5, <4>1, FS_EmptySet
    <3>3. StartedOf(u) = {}
      <4>1. s \notin StartedOf(u)
        BY DEF StartedOf
      <4> QED BY <1>0, <3>2, <4>1, StartedInTable
    <3>4. trans' = trans /\ hwId' = hwId /\ hwCnt' = hwCnt
      BY <2>1, <3>1, <3>3, EntrySame
    <3>5. /\ \A v \in Users : ref'[v] = IF v = u THEN 0 ELSE ref[v]
          /\ \A v \in Users : proto'[v] = IF v = u THEN "udp" ELSE proto[v]
      BY <3>1 DEF Entry, MapTypes
    <3>6. \A v \in Users : ref'[v] = Cardinality(WithUser(v, table)')
      BY <1>2, <2>2, <2>3, <2>5, <3>5 DEF Counts
    <3> QED BY <1>0, <3>4, <3>5, <3>6 DEF Counts
  <2>6. CASE ref[u] # 1
    <3>2. ref' = [ref EXCEPT ![u] = ref[u] - 1] /\ UNCHANGED <<trans, proto, hwId, cntVars>>
      BY <1>4, <2>4, <2>6 DEF RuleDelStream
    <3>4. \A v \in Users : ref'[v] = IF v = u THEN ref[u] - 1 ELSE ref[v]
      BY <3>2 DEF MapTypes
    <3>5. \A v \in Users : ref'[v] = Cardinality(WithUser(v, table)')
      BY <1>2, <2>2, <2>3, <3>4 DEF Counts
    <3>6. \A v \in Users : ref'[v] # 0 => proto'[v] = "udp"
      BY <2>4, <3>2, <3>4 DEF Counts
    <3> QED BY <1>0, <3>2, <3>5, <3>6 DEF Counts, cntVars
  <2> QED BY <2>5, <2>6
<1> QED BY <1>3, <1>4

-----------------------------------------------------------------------------
(***************************************************************************)
(* The hardware ids of careful clients.                                    *)
(***************************************************************************)

(* As many hardware ids as user ids: one is free for a user id with none. *)
LEMMA OneIsFree ==
  ASSUME MapTypes, Leases, Cardinality(Users) <= NumHw, NEW u \in Users, hwId[u] = Free
  PROVE  FreeHw # {}
<1> SUFFICES ASSUME FreeHw = {} PROVE FALSE
  OBVIOUS
<1> DEFINE U == Users \ {u}
<1>1. \A h \in Hw : hwUser[h] \in U /\ hwId[hwUser[h]] = h
  <2> TAKE h \in Hw
  <2>1. hwUser[h] # NoUser /\ hwUser[h] \in Users
    BY DEF FreeHw, MapTypes
  <2>2. hwId[hwUser[h]] = h /\ h # Free
    BY <2>1, FlowAssumption DEF Leases, Hw, Free
  <2> QED BY <2>1, <2>2
<1>2. hwUser \in Injection(Hw, U)
  BY <1>1 DEF MapTypes, Injection, IsInjective
<1>3. IsFiniteSet(U) /\ Cardinality(U) = Cardinality(Users) - 1 /\ Cardinality(Users) \in Nat
  BY FlowAssumption, FS_RemoveElement, FS_CardinalityType
<1>4. Cardinality(Hw) <= Cardinality(U)
  BY <1>2, <1>3, FS_Injection DEF ExistsInjection
<1> QED BY <1>3, <1>4, HwCard, FlowAssumption

LEMMA CountStart ==
  ASSUME NEW s \in Streams, Info[s].user # NoUser, ~Started(s), Started(s)',
         \A x \in Streams \ {s} : Started(x)' <=> Started(x)
  PROVE  /\ \A v : v # Info[s].user => StartedOf(v)' = StartedOf(v)
         /\ StartedOf(Info[s].user)' = StartedOf(Info[s].user) \cup {s}
         /\ Cardinality(StartedOf(Info[s].user)') = Cardinality(StartedOf(Info[s].user)) + 1
         /\ Cardinality(StartedOf(Info[s].user)) + 1 \in 0 .. Wide - 1
<1> DEFINE u == Info[s].user
           S == StartedOf(u)
<1>1. \A v : v # u => StartedOf(v)' = StartedOf(v)
  BY DEF StartedOf, WithUser
<1>2. StartedOf(u)' = S \cup {s} /\ s \notin S
  BY DEF StartedOf, WithUser
<1>3. IsFiniteSet(S)
  BY StartedFinite
<1>4. Cardinality(S \cup {s}) = Cardinality(S) + 1
  BY <1>2, <1>3, FS_AddElement
<1>5. Cardinality(S \cup {s}) \in 0 .. Wide - 1
  <2> DEFINE T == {x \in Streams : Started(x)} \cup {s}
  <2>1. S \cup {s} = WithUser(u, T) /\ T \in SUBSET Streams
    BY DEF StartedOf, WithUser
  <2> QED BY <2>1, UserStreams
<1> QED BY <1>1, <1>2, <1>4, <1>5

LEMMA CountStop ==
  ASSUME NEW s \in Streams, Info[s].user # NoUser, Started(s), ~Started(s)',
         \A x \in Streams \ {s} : Started(x)' <=> Started(x)
  PROVE  /\ \A v : v # Info[s].user => StartedOf(v)' = StartedOf(v)
         /\ StartedOf(Info[s].user)' = StartedOf(Info[s].user) \ {s}
         /\ s \in StartedOf(Info[s].user)
         /\ Cardinality(StartedOf(Info[s].user)') = Cardinality(StartedOf(Info[s].user)) - 1
         /\ Cardinality(StartedOf(Info[s].user)) - 1 \in 0 .. Wide - 1
<1> DEFINE u == Info[s].user
           S == StartedOf(u)
<1>1. \A v : v # u => StartedOf(v)' = StartedOf(v)
  BY DEF StartedOf, WithUser
<1>2. StartedOf(u)' = S \ {s} /\ s \in S
  BY DEF StartedOf, WithUser
<1>3. IsFiniteSet(S) /\ Cardinality(S) \in 0 .. Wide - 1
  BY StartedFinite
<1>4. Cardinality(S \ {s}) = Cardinality(S) - 1
  BY <1>2, <1>3, FS_RemoveElement
<1>5. Cardinality(S) # 0
  BY <1>2, <1>3, FS_EmptySet
<1>6. Cardinality(S) - 1 \in 0 .. Wide - 1
  BY <1>3, <1>5 DEF Wide
<1> QED BY <1>1, <1>2, <1>4, <1>6

LEMMA CompileLeases ==
  ASSUME MapTypes, PortTypes, Leases, Counts, Loops, Cardinality(Users) <= NumHw, Clean,
         NEW s \in Streams, CompileNext(s)
  PROVE  Leases' /\ Clean'
<1> DEFINE u == Info[s].user
           h == Min(FreeHw)
<1>0. /\ s \in table /\ ~Started(s) /\ (u # NoUser => Started(s)')
      /\ \A x \in Streams \ {s} : Started(x)' <=> Started(x)
      /\ Info[s].supported /\ RuleStartStream(s) /\ hwCnt' = hwCnt /\ ref' = ref
  BY CompileLoops DEF Counts, Plain, CompileNext, cntVars
<1>1. CASE u = NoUser
  <2>1. \A v \in Users : StartedOf(v)' = StartedOf(v)
    BY <1>0, <1>1, FlowAssumption DEF StartedOf, WithUser
  <2>2. UNCHANGED <<mark, trans, hwId, hwVars>>
    BY <1>0, <1>1 DEF RuleStartStream
  <2> QED BY <1>0, <2>1, <2>2 DEF Leases, Clean, hwVars
<1>2. CASE u # NoUser
  <2>1. u \in Users
    BY <1>2, InfoType
  <2>2. /\ \A v : v # u => StartedOf(v)' = StartedOf(v)
        /\ StartedOf(u)' = StartedOf(u) \cup {s}
        /\ Cardinality(StartedOf(u)') = trans[u] + 1
        /\ trans[u] + 1 \in 0 .. Wide - 1
    BY <1>0, <1>2, <2>1, CountStart DEF Leases
  <2>3. (trans[u] + 1) % Wide = trans[u] + 1 /\ trans[u] \in Nat
    BY <2>1, <2>2, CountType DEF Wide
  <2>4. ref[u] # 0
    <3>1. WithUser(u, table) # {} /\ table \in SUBSET Streams
      BY <1>0 DEF WithUser, PortTypes
    <3> QED BY <2>1, <3>1, UserStreams, FS_EmptySet DEF Counts
  <2>5. CASE trans[u] # 0
    <3>1. /\ trans' = [trans EXCEPT ![u] = (trans[u] + 1) % Wide]
          /\ mark' = [mark EXCEPT ![s] = hwId[u]]
          /\ UNCHANGED <<hwId, hwVars>>
      BY <1>0, <1>2, <2>4, <2>5 DEF RuleStartStream
    <3>2. hwId[u] # Free
      <4>1. StartedOf(u) # {}
        BY <2>1, <2>5, FS_EmptySet DEF Leases
      <4> QED BY <2>1, <4>1 DEF Leases
    <3>3. \A v \in Users : trans'[v] = IF v = u THEN trans[u] + 1 ELSE trans[v]
      BY <2>3, <3>1 DEF MapTypes
    <3>4. \A x \in Streams : mark'[x] = IF x = s THEN hwId[u] ELSE mark[x]
      BY <3>1 DEF MapTypes
    <3>5. ASSUME NEW v \in Users PROVE trans'[v] = Cardinality(StartedOf(v)')
      <4>1. CASE v = u
        BY <2>2, <3>3, <4>1
      <4>2. CASE v # u
        <5>1. StartedOf(v)' = StartedOf(v) /\ trans'[v] = trans[v]
          BY <2>2, <3>3, <4>2
        <5> QED BY <5>1 DEF Leases
      <4> QED BY <4>1, <4>2
    <3>6. \A v \in Users : hwId'[v] # Free <=> StartedOf(v)' # {}
      BY <2>2, <3>1, <3>2 DEF Leases
    <3>7. ASSUME NEW v \in Users, NEW x \in StartedOf(v)'
          PROVE  mark'[x] # Free /\ mark'[x] = hwId'[v]
      <4>1. x \in Streams /\ Info[x].user = v
        BY DEF StartedOf, WithUser
      <4> QED BY <2>2, <3>1, <3>2, <3>4, <4>1 DEF Leases
    <3>8. \A k \in Hw : hwUser'[k] # NoUser => hwId'[hwUser'[k]] = k
      BY <3>1 DEF Leases, hwVars
    <3> QED BY <1>0, <3>1, <3>5, <3>6, <3>7, <3>8 DEF Leases, Clean, hwVars
  <2>6. CASE trans[u] = 0
    <3>1. StartedOf(u) = {} /\ hwId[u] = Free
      <4>1. StartedOf(u) = {}
        BY <2>1, <2>6, StartedFinite, FS_EmptySet DEF Leases
      <4> QED BY <2>1, <4>1 DEF Leases
    <3>2. FreeHw # {} /\ h \in Hw /\ hwUser[h] = NoUser
      <4>1. FreeHw # {}
        BY <2>1, <3>1, OneIsFree
      <4>2. h \in FreeHw
        BY <4>1, HwFinite, MinIn
      <4> QED BY <4>1, <4>2 DEF FreeHw
    <3>3. /\ hwId' = [hwId EXCEPT ![u] = h]
          /\ trans' = [trans EXCEPT ![u] = (trans[u] + 1) % Wide]
          /\ mark' = [mark EXCEPT ![s] = IF ref[u] = 0 THEN Free ELSE hwId'[u]]
          /\ hwUser' = [hwUser EXCEPT ![h] = u]
      BY <1>0, <1>2, <2>4, <2>6, <3>1, <3>2 DEF RuleStartStream
    <3>4. h # Free
      BY <3>2, FlowAssumption DEF Hw, Free
    <3>5. /\ \A v \in Users : hwId'[v] = IF v = u THEN h ELSE hwId[v]
          /\ \A v \in Users : trans'[v] = IF v = u THEN trans[u] + 1 ELSE trans[v]
          /\ \A k \in Hw : hwUser'[k] = IF k = h THEN u ELSE hwUser[k]
      BY <2>3, <3>3 DEF MapTypes
    <3>6. \A x \in Streams : mark'[x] = IF x = s THEN h ELSE mark[x]
      BY <2>1, <2>4, <3>3, <3>5 DEF MapTypes
    <3>7. ASSUME NEW v \in Users PROVE trans'[v] = Cardinality(StartedOf(v)')
      <4>1. CASE v = u
        BY <2>2, <3>5, <4>1
      <4>2. CASE v # u
        <5>1. StartedOf(v)' = StartedOf(v) /\ trans'[v] = trans[v]
          BY <2>2, <3>5, <4>2
        <5> QED BY <5>1 DEF Leases
      <4> QED BY <4>1, <4>2
    <3>8. \A v \in Users : hwId'[v] # Free <=> StartedOf(v)' # {}
      BY <2>2, <3>4, <3>5 DEF Leases
    <3>9. ASSUME NEW v \in Users, NEW x \in StartedOf(v)'
          PROVE  mark'[x] # Free /\ mark'[x] = hwId'[v]
      <4>1. x \in Streams /\ Info[x].user = v
        BY DEF StartedOf, WithUser
      <4> QED BY <2>2, <3>1, <3>4, <3>5, <3>6, <4>1 DEF Leases
    <3>10. ASSUME NEW k \in Hw, hwUser'[k] # NoUser PROVE hwId'[hwUser'[k]] = k
      <4>1. CASE k = h
        BY <2>1, <3>5, <4>1
      <4>2. CASE k # h
        <5>1. hwUser'[k] = hwUser[k] /\ hwUser[k] \in Users /\ hwId[hwUser[k]] = k
          BY <3>5, <3>10, <4>2 DEF Leases, MapTypes
        <5>2. hwUser[k] # u
          BY <3>1, <5>1, FlowAssumption DEF Hw, Free
        <5> QED BY <3>5, <5>1, <5>2
      <4> QED BY <4>1, <4>2
    <3>11. Clean'
      BY <1>0, <2>1, <3>5, HwZero, FlowAssumption DEF Clean
    <3> QED BY <3>7, <3>8, <3>9, <3>10, <3>11 DEF Leases
  <2> QED BY <2>5, <2>6
<1> QED BY <1>1, <1>2

LEMMA StopLeases ==
  ASSUME MapTypes, PortTypes, Leases, Counts, Loops, Clean,
         NEW t \in Threads, NEW s \in Streams, StopNext(t, s)
  PROVE  Leases' /\ Clean'
<1> DEFINE u == Info[s].user
           h == hwId[u]
<1>0. /\ s \in table /\ ~Started(s)' /\ (u # NoUser => Started(s))
      /\ \A x \in Streams \ {s} : Started(x)' <=> Started(x)
      /\ RuleStopStream(s) /\ mark' = [mark EXCEPT ![s] = Free]
  BY StopLoops DEF StopNext
<1>1. CASE u = NoUser
  <2>1. \A v \in Users : StartedOf(v)' = StartedOf(v) /\ s \notin StartedOf(v)
    BY <1>0, <1>1, FlowAssumption DEF StartedOf, WithUser
  <2>2. UNCHANGED <<trans, hwId, rx, base, hwCnt, hwVars>>
    BY <1>0, <1>1 DEF RuleStopStream
  <2>3. \A x \in Streams : x # s => mark'[x] = mark[x]
    BY <1>0 DEF MapTypes
  <2>4. ASSUME NEW v \in Users, NEW x \in StartedOf(v)'
        PROVE  mark'[x] # Free /\ mark'[x] = hwId'[v]
    <3>1. x \in Streams /\ x # s /\ x \in StartedOf(v)
      BY <2>1, <2>4 DEF StartedOf, WithUser
    <3> QED BY <2>2, <2>3, <3>1 DEF Leases
  <2> QED BY <2>1, <2>2, <2>4 DEF Leases, Clean, hwVars
<1>2. CASE u # NoUser
  <2>1. u \in Users
    BY <1>2, InfoType
  <2>2. /\ \A v : v # u => StartedOf(v)' = StartedOf(v)
        /\ StartedOf(u)' = StartedOf(u) \ {s}
        /\ s \in StartedOf(u)
        /\ Cardinality(StartedOf(u)') = trans[u] - 1
        /\ trans[u] - 1 \in 0 .. Wide - 1
    BY <1>0, <1>2, <2>1, CountStop DEF Leases
  <2>3. (trans[u] - 1) % Wide = trans[u] - 1 /\ trans[u] \in Nat
    BY <2>1, <2>2, CountType DEF Wide
  <2>4. ref[u] # 0
    <3>1. WithUser(u, table) # {} /\ table \in SUBSET Streams
      BY <1>0 DEF WithUser, PortTypes
    <3> QED BY <2>1, <3>1, UserStreams, FS_EmptySet DEF Counts
  <2>5. \A v \in Users : trans'[v] = IF v = u THEN trans[u] - 1 ELSE trans[v]
    BY <1>0, <1>2, <2>3, <2>4 DEF RuleStopStream, MapTypes
  <2>6. ASSUME NEW v \in Users PROVE trans'[v] = Cardinality(StartedOf(v)')
    <3>1. CASE v = u
      BY <2>2, <2>5, <3>1
    <3>2. CASE v # u
      <4>1. StartedOf(v)' = StartedOf(v) /\ trans'[v] = trans[v]
        BY <2>2, <2>5, <3>2
      <4> QED BY <4>1 DEF Leases
    <3> QED BY <3>1, <3>2
  <2>7. /\ IsFiniteSet(StartedOf(u)')
        /\ trans[u] = 1 <=> StartedOf(u)' = {}
    <3>1. IsFiniteSet(StartedOf(u) \ {s})
      BY StartedFinite, FS_Subset
    <3>2. Cardinality(StartedOf(u) \ {s}) = trans[u] - 1
      BY <2>2
    <3>3. Cardinality(StartedOf(u) \ {s}) = 0 <=> StartedOf(u) \ {s} = {}
      BY <3>1, FS_EmptySet
    <3>4. trans[u] = 1 <=> trans[u] - 1 = 0
      BY <2>3
    <3> QED BY <2>2, <3>1, <3>2, <3>3, <3>4
  <2>8. \A x \in Streams : x # s => mark'[x] = mark[x]
    BY <1>0 DEF MapTypes
  <2>9. ASSUME NEW v \in Users, NEW x \in StartedOf(v)'
        PROVE  x \in Streams /\ x # s /\ mark'[x] = mark[x] /\ x \in StartedOf(v)
    <3>1. x \in Streams /\ Info[x].user = v
      BY <2>9 DEF StartedOf, WithUser
    <3>2. x # s
      BY <2>2, <3>1, <2>9
    <3> QED BY <2>2, <2>8, <2>9, <3>1, <3>2
  <2>10. CASE trans[u] # 1
    <3>1. UNCHANGED <<hwId, hwCnt, hwVars>>
      BY <1>0, <1>2, <2>3, <2>4, <2>10 DEF RuleStopStream
    <3>2. \A v \in Users : hwId'[v] # Free <=> StartedOf(v)' # {}
      BY <2>2, <2>7, <2>10, <3>1 DEF Leases
    <3>3. \A v \in Users : \A x \in StartedOf(v)' : mark'[x] # Free /\ mark'[x] = hwId'[v]
      BY <2>9, <3>1 DEF Leases
    <3> QED BY <2>6, <3>1, <3>2, <3>3 DEF Leases, Clean, hwVars
  <2>11. CASE trans[u] = 1
    <3>1. h # Free /\ h \in Hw
      BY <2>1, <2>2 DEF Leases, MapTypes
    <3>2. PICK w \in LeftInCount(h) :
            /\ hwId' = [hwId EXCEPT ![u] = Free]
            /\ hwCnt' = [hwCnt EXCEPT ![h] = w]
            /\ hwUser' = [hwUser EXCEPT ![h] = NoUser]
      BY <1>0, <1>2, <2>3, <2>4, <2>11, <3>1 DEF RuleStopStream
    <3>3. /\ \A v \in Users : hwId'[v] = IF v = u THEN Free ELSE hwId[v]
          /\ \A k \in Hw : hwUser'[k] = IF k = h THEN NoUser ELSE hwUser[k]
          /\ \A k \in Hw : hwCnt'[k] = IF k = h THEN w ELSE hwCnt[k]
      BY <3>2 DEF MapTypes
    <3>4. \A v \in Users : hwId'[v] # Free <=> StartedOf(v)' # {}
      BY <2>2, <2>7, <2>11, <3>3 DEF Leases
    <3>5. ASSUME NEW v \in Users, NEW x \in StartedOf(v)'
          PROVE  mark'[x] # Free /\ mark'[x] = hwId'[v]
      <4>1. v # u
        BY <2>7, <2>11, <3>5
      <4> QED BY <2>9, <3>3, <3>5, <4>1 DEF Leases
    <3>6. ASSUME NEW k \in Hw, hwUser'[k] # NoUser PROVE hwId'[hwUser'[k]] = k
      <4>1. k # h /\ hwUser'[k] = hwUser[k] /\ hwUser[k] \in Users
        BY <3>3, <3>6 DEF MapTypes
      <4>2. hwId[hwUser[k]] = k
        BY <3>6, <4>1 DEF Leases
      <4> QED BY <3>3, <4>1, <4>2
    <3>7. Clean'
      <4>1. CASE h = 0
        BY <3>3, <4>1, HwZero DEF Clean, LeftInCount
      <4>2. CASE h # 0
        BY <3>3, <4>2, HwZero DEF Clean
      <4> QED BY <4>1, <4>2
    <3> QED BY <2>6, <3>4, <3>5, <3>6, <3>7 DEF Leases
  <2> QED BY <2>10, <2>11
<1> QED BY <1>1, <1>2

-----------------------------------------------------------------------------
(***************************************************************************)
(* The invariant of careful clients is inductive.                          *)
(***************************************************************************)
LEMMA StepCareful ==
  ASSUME Overlap = FALSE, Cardinality(Users) <= NumHw,
         MapsAgree, CarefulInv, [Next]_vars
  PROVE  CarefulInv'
<1> DEFINE Good == Loops' /\ Counts' /\ Leases' /\ Clean'
<1>0. MapTypes /\ PortTypes /\ rules = Hw \ FreeHw
  BY SplitMaps DEF MapsAgree, Maps, HwIdsExclusive
<1>1. careful' = careful
  BY DEF Next, RpcStep, vars, AddStream, RemoveStream, RemoveNext, CompileNext, RemoveAllStreams,
         StartTraffic, Validate, StopTraffic, StopBegin, CompileDone, RunFinished, LoopDone,
         StopNext, Packet, DumpJson
<1> SUFFICES ASSUME careful PROVE Good
  BY <1>1 DEF CarefulInv
<1>2. Loops /\ Counts /\ Leases /\ Clean
  BY DEF CarefulInv
<1>3. ASSUME NEW s \in Streams, AddStream(s) PROVE Good
  <2>1. Loops' /\ SameStarted
    BY <1>0, <1>2, <1>3, AddLoops
  <2>2. Counts' /\ trans' = trans /\ hwId' = hwId /\ hwCnt' = hwCnt
    BY <1>0, <1>2, <1>3, AddCounts DEF AddStream
  <2>3. UNCHANGED <<mark, hwUser>>
    BY <1>3 DEF AddStream, hwVars
  <2> QED BY <1>2, <2>1, <2>2, <2>3, SameLeases DEF Clean
<1>4. ASSUME NEW s \in Streams, RemoveStream(s) \/ RemoveNext(s) PROVE Good
  <2>1. Loops' /\ SameStarted /\ ~Started(s) /\ s \in table
    BY <1>0, <1>2, <1>4, TakeOutLoops
  <2>2. RuleDelStream(s) /\ table' = table \ {s} /\ UNCHANGED <<mark, hwUser>>
    BY <1>4 DEF RemoveStream, RemoveNext, TakeOut, hwVars
  <2>3. Counts' /\ trans' = trans /\ hwId' = hwId /\ hwCnt' = hwCnt
    BY <1>0, <1>2, <2>1, <2>2, DelCounts
  <2> QED BY <1>2, <2>1, <2>2, <2>3, SameLeases DEF Clean
<1>5. ASSUME NEW s \in Streams, CompileNext(s) PROVE Good
  <2>1. Loops'
    BY <1>0, <1>2, <1>5, CompileLoops DEF Counts
  <2>2. Counts'
    BY <1>2, <1>5, SameCounts DEF CompileNext
  <2> QED BY <1>0, <1>2, <1>5, <2>1, <2>2, CompileLeases
<1>6. ASSUME NEW t \in Threads, NEW s \in Streams, StopNext(t, s) PROVE Good
  <2>1. Loops'
    BY <1>0, <1>2, <1>6, StopLoops
  <2>2. Counts'
    BY <1>2, <1>6, SameCounts DEF StopNext
  <2> QED BY <1>0, <1>2, <1>6, <2>1, <2>2, StopLeases
<1>7. ASSUME Loops', SameStarted, UNCHANGED <<table, ref, proto, trans, hwId, hwUser, mark, hwCnt>>
      PROVE  Good
  BY <1>2, <1>7, SameCounts, SameLeases DEF Clean
<1>8. ASSUME NEW p \in Ports, RemoveAllStreams(p) \/ StartTraffic(p) \/ StopTraffic(p) PROVE Good
  <2>1. Loops' /\ SameStarted
    BY <1>0, <1>2, <1>8, BeginLoops DEF Counts
  <2>2. UNCHANGED <<table, ref, proto, trans, hwId, hwUser, mark, hwCnt>>
    BY <1>8 DEF RemoveAllStreams, StartTraffic, StopTraffic, StopBegin, portVars, userVars, cntVars, hwVars
  <2> QED BY <1>7, <2>1, <2>2
<1>9. ASSUME NEW p \in Ports, RunFinished(p) PROVE Good
  <2>1. Loops' /\ SameStarted
    BY <1>0, <1>2, <1>9, FinishLoops
  <2>2. UNCHANGED <<table, ref, proto, trans, hwId, hwUser, mark, hwCnt>>
    BY <1>9 DEF RunFinished, StopBegin, userVars, cntVars, hwVars
  <2> QED BY <1>7, <2>1, <2>2
<1>10. ASSUME NEW t \in Threads, LoopDone(t) \/ (t = "rpc" /\ CompileDone) PROVE Good
  <2>1. Loops' /\ SameStarted
    BY <1>0, <1>2, <1>10, EndLoops
  <2>2. UNCHANGED <<table, ref, proto, trans, hwId, hwUser, mark, hwCnt>>
    BY <1>10 DEF LoopDone, CompileDone, portVars, userVars, cntVars, hwVars
  <2> QED BY <1>7, <2>1, <2>2
<1>11. ASSUME UNCHANGED <<portVars, job>> PROVE Loops' /\ SameStarted
  <2>1. \A p : Of(p)' = Of(p)
    BY <1>11 DEF Of, portVars
  <2>2. \A t \in Threads : JobSound(t)'
    BY <1>2, <1>11, <2>1 DEF Loops, JobSound, portVars
  <2> QED BY <1>2, <1>11, <2>2 DEF Loops, SameStarted, Started, portVars
<1>12. ASSUME NEW h \in Hw, Packet(h) PROVE Good
  <2>1. Loops' /\ SameStarted
    BY <1>11, <1>12 DEF Packet
  <2>2. UNCHANGED <<table, ref, proto, trans, hwId, hwUser, mark>>
    BY <1>12 DEF Packet, portVars, userVars, hwVars
  <2>3. Clean'
    BY <1>0, <1>2, <1>12, <2>2, FlowAssumption DEF Packet, Clean, MapTypes
  <2> QED BY <1>2, <2>1, <2>2, <2>3, SameCounts, SameLeases
<1>13. ASSUME DumpJson \/ UNCHANGED vars PROVE Good
  <2>1. Loops' /\ SameStarted
    BY <1>11, <1>13 DEF DumpJson, vars
  <2>2. UNCHANGED <<table, ref, proto, trans, hwId, hwUser, mark, hwCnt>>
    BY <1>13 DEF DumpJson, vars, portVars, userVars, cntVars, hwVars
  <2> QED BY <1>7, <2>1, <2>2
<1>14. ~\E p \in Ports : Validate(p)
  BY DEF Validate
<1>15. CompileDone => Good
  BY <1>10 DEF Threads
<1> QED
  BY <1>3, <1>4, <1>5, <1>6, <1>8, <1>9, <1>10, <1>12, <1>13, <1>14, <1>15 DEF Next, RpcStep

LEMMA InitCareful == Init => CarefulInv
<1> SUFFICES ASSUME Init PROVE Loops /\ Counts /\ Leases /\ Clean
  BY DEF CarefulInv
<1>1. \A t \in Threads : job[t] = Idle /\ job[t].op = "idle" /\ job[t].port = NoPort /\ job[t].todo = {}
  BY DEF Init, Idle
<1>2. Loops
  BY <1>1 DEF Loops, JobSound, Threads
<1>3. \A u : StartedOf(u) = {} /\ WithUser(u, table) = {}
  BY DEF StartedOf, Started, WithUser, Init
<1>4. Cardinality({}) = 0
  BY FS_EmptySet
<1>5. Counts
  BY <1>3, <1>4 DEF Counts, Init
<1>6. Leases
  BY <1>3, <1>4 DEF Leases, Init
<1> QED BY <1>2, <1>5, <1>6, HwZero DEF Clean, Init

(***************************************************************************)
(* The hypotheses: a command waits while the master thread stops its port, *)
(* and the user ids fit into the card.  For careful clients the invariant  *)
(* then holds for any ports, streams and interleaving of the two loops.    *)
(***************************************************************************)
THEOREM CarefulInvariant ==
  ASSUME Overlap = FALSE, Cardinality(Users) <= NumHw
  PROVE  Spec => [](MapsAgree /\ CarefulInv)
<1>1. MapsAgree /\ CarefulInv /\ [Next]_vars => (MapsAgree /\ CarefulInv)'
  BY StepMaps, StepCareful
<1> QED BY <1>1, InitMaps, InitCareful, PTL DEF Spec

(***************************************************************************)
(* m_trans_ref_count is the number of streams between start_stream and     *)
(* stop_stream, over all ports, and a hardware id is leased exactly while  *)
(* it is not zero: none leaks, none is taken from a transmitting stream.   *)
(***************************************************************************)
THEOREM LeasesFollowStreams ==
  ASSUME Overlap = FALSE, Cardinality(Users) <= NumHw
  PROVE  Spec => []LeasedWhileStarted
<1>1. MapsAgree /\ CarefulInv => LeasedWhileStarted
  BY DEF CarefulInv, Leases, LeasedWhileStarted
<1> QED BY <1>1, CarefulInvariant, PTL

(***************************************************************************)
(* The packets of every started stream carry the hardware id its user id   *)
(* holds: start_stream's "can't fail if we got here" is right.             *)
(***************************************************************************)
THEOREM MarksAreOwn ==
  ASSUME Overlap = FALSE, Cardinality(Users) <= NumHw
  PROVE  Spec => []MarkedWithOwnId
<1>1. MapsAgree /\ CarefulInv => MarkedWithOwnId
  BY DEF CarefulInv, Leases, MarkedWithOwnId
<1> QED BY <1>1, CarefulInvariant, PTL

(***************************************************************************)
(* m_ref_count is the number of the user id's streams, and the entry that  *)
(* dump_json dereferences for hardware id 0 exists while its counter is    *)
(* not zero.                                                               *)
(***************************************************************************)
THEOREM CountedHasEntry ==
  ASSUME Overlap = FALSE, Cardinality(Users) <= NumHw
  PROVE  Spec => []EntryWhileCounted
<1>1. ASSUME MapsAgree, CarefulInv, careful PROVE hwCnt[0] # 0 => HasEntry(0)
  <2>1. MapTypes /\ PortTypes /\ Leases /\ Clean /\ Counts
    BY <1>1, SplitMaps DEF Maps, CarefulInv
  <2>2. SUFFICES ASSUME hwUser[0] # NoUser PROVE ref[hwUser[0]] # 0
    BY <2>1 DEF HasEntry, Clean
  <2> DEFINE u == hwUser[0]
  <2>3. u \in Users /\ hwId[u] = 0
    BY <2>1, <2>2, HwZero DEF MapTypes, Leases
  <2>4. StartedOf(u) # {}
    BY <2>1, <2>3 DEF Leases, Free
  <2>5. WithUser(u, table) # {} /\ table \in SUBSET Streams
    BY <2>1, <2>4, StartedInTable DEF PortTypes
  <2> QED BY <2>1, <2>3, <2>5, UserStreams, FS_EmptySet DEF Counts
<1>2. MapsAgree /\ CarefulInv => EntryWhileCounted
  BY <1>1 DEF CarefulInv, Counts, EntryWhileCounted
<1> QED BY <1>2, CarefulInvariant, PTL
=============================================================================
