-------------------------- MODULE NatLearn_proofs --------------------------
(***************************************************************************)
(* Proofs about NatLearn: the lookup table is exact, no assert fails and   *)
(* every reply uses its own translation, for any number of threads, flows, *)
(* retries and duplicates and any sizes of batches and rings.              *)
(***************************************************************************)
EXTENDS NatLearn, FiniteSetTheorems, SequenceTheorems, TLAPS

(***************************************************************************)
(* The inductive invariant.                                                *)
(***************************************************************************)
Packets == {"i", "r"}

NodeRec ==
  [type : {"free", "nat", "pkt"}, nat : 0 .. 2, pkts : Seq(Packets),
   ext : Flows \cup {None}, replied : SUBSET (Flows \cup {None})]

ThreadRec ==
  [made : 0 .. MaxFlows, node : [Numbers -> NodeRec], lookup : [Fids -> 0 .. MaxFlows],
   bad : SUBSET {"associate", "wait", "state"}]

(* No newer flow of the thread has the short id of its n-th one. *)
Latest(d, n) ==
  \A m \in Numbers : n < m /\ m <= d.made => get_short_fid(m) # get_short_fid(n)

Suffix(pkts) ==
  \E tpl \in Templates \cup {<<>>} : \E k \in 1 .. Len(tpl) + 1 :
    pkts = SubSeq(tpl, k, Len(tpl))

(* The node of a flow by itself: one that waits has a reply to come and cannot
   end before it, one that does not wait has its own translation or needs none. *)
GoodNode(v, f) ==
  /\ v \in NodeRec
  /\ Suffix(v.pkts)
  /\ v.type = "nat" => /\ BiDirectional(v.pkts)
                       /\ v.nat = 2 \/ (v.nat = 1 /\ Head(v.pkts) = "i")
  /\ v.type = "pkt" => v.ext = f \/ ~BiDirectional(v.pkts)
  /\ v.type # "free" => v.pkts # <<>>
  /\ v.ext \in {None, f}
  /\ v.replied \subseteq {f}

(* A thread: a live flow is the latest of its short id, and the table points to
   exactly the flows that wait. *)
GoodThread(t, d) ==
  /\ d \in ThreadRec
  /\ d.bad = {}
  /\ \A n \in Numbers :
       /\ GoodNode(d.node[n], <<t, n>>)
       /\ n > d.made => d.node[n] = NoNode
       /\ d.node[n].type = "nat" => d.lookup[get_short_fid(n)] = n
       /\ d.node[n].type # "free" => Latest(d, n)
  /\ \A i \in Fids : d.lookup[i] # 0 =>
       /\ d.lookup[i] <= d.made
       /\ get_short_fid(d.lookup[i]) = i
       /\ d.node[d.lookup[i]].type = "nat"

(* The flows whose first packet or translation may be under way. *)
Seen(t, d) ==
  {f \in Flows : f[1] = t /\ f[2] <= d.made /\ d.node[f[2]].nat = 2 /\ Latest(d, f[2])}

Translations(t) ==
  /\ cur[t] \in [infos : Seq(Seen(t, dp[t])), old : BOOLEAN]
  /\ ring[t] \in Seq(Seq(Seen(t, dp[t])))
  /\ hand[t] \in Seq(Seen(t, dp[t]))

InNet(f) ==
  /\ net[f] \in Nat /\ net[f] <= 1 + dups
  /\ net[f] > 0 => f \in Seen(f[1], dp[f[1]])

(* A full batch is being sent, and nothing is added to it. *)
Sizes(t) ==
  /\ Len(cur[t].infos) <= Batch
  /\ Len(cur[t].infos) = Batch => \E i \in DOMAIN flushes : flushes[i] = t
  /\ Len(ring[t]) <= RingSize

Shapes ==
  /\ DOMAIN dp = Threads /\ dp = [t \in Threads |-> dp[t]]
  /\ busy \in [Threads -> BOOLEAN]
  /\ hand = [t \in Threads |-> hand[t]]
  /\ net = [f \in Flows |-> net[f]]
  /\ dups \in 0 .. MaxDups
  /\ cur = [t \in Threads |-> cur[t]]
  /\ flushes \in Seq(Threads)
  /\ ring = [t \in Threads |-> ring[t]]
  /\ exited \in BOOLEAN
  /\ tries \in 0 .. MaxRetries + 1
  /\ ~exited => tries <= MaxRetries

NatInv ==
  /\ Shapes
  /\ \A t \in Threads : GoodThread(t, dp[t]) /\ Translations(t) /\ Sizes(t)
  /\ \A f \in Flows : InNet(f)
-----------------------------------------------------------------------------
(***************************************************************************)
(* Short ids.                                                              *)
(***************************************************************************)
LEMMA Constants ==
  /\ NThreads \in Nat /\ NThreads > 0 /\ MaxFlows \in Nat /\ MaxFlows > 0
  /\ FidMod \in Nat /\ FidMod > 0 /\ Batch \in Nat /\ Batch > 0
  /\ RingSize \in Nat /\ RingSize > 0 /\ MaxRetries \in Nat /\ MaxDups \in Nat
BY NatAssumption

LEMMA FidType ==
  ASSUME NEW n \in Nat
  PROVE  get_short_fid(n) \in Fids
BY Constants DEF get_short_fid, Fids

LEMMA Numbered == \A n \in Numbers : n \in Nat /\ n > 0 /\ n <= MaxFlows
BY Constants DEF Numbers

(* Two flows with one short id are at least FidMod apart. *)
LEMMA FidsApart ==
  ASSUME NEW m \in Nat, NEW n \in Nat, m < n, get_short_fid(m) = get_short_fid(n)
  PROVE  m + FidMod <= n
<1> DEFINE qm == m \div FidMod
           qn == n \div FidMod
           r  == m % FidMod
<1>1. qm \in Nat /\ qn \in Nat /\ r \in Nat /\ FidMod \in Nat
  BY Constants
<1>2. m = FidMod * qm + r /\ n = FidMod * qn + r
  BY Constants DEF get_short_fid
<1> HIDE DEF qm, qn, r
<1>3. qm < qn
  <2>1. CASE qn <= qm
    <3>1. FidMod * qn <= FidMod * qm
      BY <1>1, <2>1
    <3> QED BY <1>1, <1>2, <3>1
  <2> QED BY <1>1, <2>1
<1>4. FidMod * (qm + 1) <= FidMod * qn
  BY <1>1, <1>3
<1>5. FidMod * (qm + 1) = FidMod * qm + FidMod
  BY <1>1
<1> QED BY <1>1, <1>2, <1>4, <1>5

LEMMA FidBefore ==
  ASSUME NEW n \in Nat, FidMod <= n
  PROVE  n - FidMod \in Nat /\ get_short_fid(n - FidMod) = get_short_fid(n)
<1> DEFINE q == n \div FidMod
           r == n % FidMod
           p == n - FidMod
<1>1. q \in Nat /\ r \in Nat /\ FidMod \in Nat /\ p \in Nat /\ r < FidMod /\ FidMod > 0
  BY Constants
<1>2. n = FidMod * q + r
  BY Constants
<1> HIDE DEF q, r
<1>3. q # 0
  BY <1>1, <1>2
<1>4. q - 1 \in Nat /\ FidMod * (q - 1) = FidMod * q - FidMod
  BY <1>1, <1>3
<1>5. p = FidMod * (q - 1) + r
  BY <1>1, <1>2, <1>4
<1> HIDE DEF p
<1>6. p % FidMod = r
  BY <1>1, <1>4, <1>5
<1> QED BY <1>1, <1>6 DEF get_short_fid, p, r
-----------------------------------------------------------------------------
(***************************************************************************)
(* Sequences.                                                              *)
(***************************************************************************)
LEMMA SeqInto ==
  ASSUME NEW S, NEW T, NEW s \in Seq(S), \A i \in DOMAIN s : s[i] \in T
  PROVE  s \in Seq(T)
OBVIOUS

LEMMA SeqMonotone ==
  ASSUME NEW S, NEW T, S \subseteq T
  PROVE  Seq(S) \subseteq Seq(T)
<1> SUFFICES ASSUME NEW s \in Seq(S) PROVE s \in Seq(T)
  OBVIOUS
<1>1. \A i \in DOMAIN s : s[i] \in T
  OBVIOUS
<1> QED BY <1>1, SeqInto, Zenon

LEMMA CarriersMonotone ==
  ASSUME NEW S, NEW T, S \subseteq T
  PROVE  /\ Seq(S) \subseteq Seq(T)
         /\ Seq(Seq(S)) \subseteq Seq(Seq(T))
         /\ [infos : Seq(S), old : BOOLEAN] \subseteq [infos : Seq(T), old : BOOLEAN]
<1> DEFINE SS == Seq(S)
           TT == Seq(T)
<1>1. SS \subseteq TT
  BY SeqMonotone
<1> HIDE DEF SS, TT
<1>2. Seq(SS) \subseteq Seq(TT)
  BY <1>1, SeqMonotone
<1>3. [infos : SS, old : BOOLEAN] \subseteq [infos : TT, old : BOOLEAN]
  BY <1>1
<1> QED BY <1>1, <1>2, <1>3 DEF SS, TT

LEMMA TailReply ==
  ASSUME NEW s \in Seq(Packets), BiDirectional(s), Head(s) # "r"
  PROVE  Tail(s) # <<>> /\ BiDirectional(Tail(s)) /\ s # <<>>
<1>1. PICK i \in DOMAIN s : s[i] = "r"
  BY DEF BiDirectional
<1>2. s # <<>> /\ i # 1 /\ i \in 1 .. Len(s)
  BY <1>1
<1>3. Len(Tail(s)) = Len(s) - 1 /\ Tail(s) \in Seq(Packets) /\ Len(s) \in Nat
  BY <1>2
<1>4. i - 1 \in DOMAIN Tail(s) /\ Tail(s)[i - 1] = "r"
  BY <1>1, <1>2, <1>3
<1> QED BY <1>2, <1>4 DEF BiDirectional

LEMMA TailNoReply ==
  ASSUME NEW s \in Seq(Packets), s # <<>>, ~BiDirectional(s)
  PROVE  ~BiDirectional(Tail(s)) /\ Head(s) # "r"
<1>1. Len(s) \in Nat /\ Len(s) > 0 /\ DOMAIN s = 1 .. Len(s)
  BY EmptySeq
<1>2. Len(Tail(s)) = Len(s) - 1 /\ Tail(s) \in Seq(Packets)
  OBVIOUS
<1>3. ASSUME NEW i \in DOMAIN Tail(s)
      PROVE  Tail(s)[i] # "r"
  <2>1. i + 1 \in DOMAIN s /\ Tail(s)[i] = s[i + 1]
    BY <1>1, <1>2
  <2> QED BY <2>1 DEF BiDirectional
<1> QED BY <1>1, <1>3 DEF BiDirectional

LEMMA TailSuffix ==
  ASSUME NEW s \in Seq(Packets), s # <<>>, Suffix(s)
  PROVE  Suffix(Tail(s))
<1>0. PICK tpl \in Templates \cup {<<>>} :
        \E k \in 1 .. Len(tpl) + 1 : s = SubSeq(tpl, k, Len(tpl))
  BY DEF Suffix
<1>1. PICK k \in 1 .. Len(tpl) + 1 : s = SubSeq(tpl, k, Len(tpl))
  BY <1>0
<1>2. tpl \in Seq(Packets)
  <2>1. CASE tpl \in Templates
    BY <2>1, NatAssumption DEF Packets
  <2>2. CASE tpl = <<>>
    BY <2>2
  <2> QED BY <2>1, <2>2
<1>3. Len(tpl) \in Nat /\ k \in 1 .. Len(tpl)
  BY <1>1, <1>2
<1>4. k + 1 \in 1 .. Len(tpl) + 1
  BY <1>3
<1>5. Tail(s) = SubSeq(tpl, k + 1, Len(tpl))
  <2> DEFINE u == SubSeq(tpl, k + 1, Len(tpl))
  <2>0. /\ k \in Int /\ k + 1 \in Int /\ Len(tpl) \in Int
        /\ \A i \in k .. Len(tpl) : tpl[i] \in Packets
        /\ \A i \in k + 1 .. Len(tpl) : tpl[i] \in Packets
    BY <1>2, <1>3
  <2>1. Len(s) = Len(tpl) - k + 1 /\ \A i \in 1 .. Len(s) : s[i] = tpl[k + i - 1]
    BY <1>1, <1>2, <1>3, SubSeqProperties
  <2>2. u \in Seq(Packets) /\ Len(u) = Len(tpl) - k
    BY <1>2, <1>3, SubSeqProperties
  <2>3. \A i \in 1 .. Len(tpl) - (k + 1) + 1 : u[i] = tpl[k + 1 + i - 1]
    BY <2>0, SubSeqProperties
  <2>4. Tail(s) \in Seq(Packets) /\ Len(Tail(s)) = Len(s) - 1
    OBVIOUS
  <2>5. \A i \in 1 .. Len(Tail(s)) : Tail(s)[i] = s[i + 1]
    OBVIOUS
  <2> HIDE DEF u
  <2>6. ASSUME NEW i \in 1 .. Len(u) PROVE u[i] = Tail(s)[i]
    <3>1. i \in Nat /\ k \in Nat /\ i \in 1 .. Len(tpl) - (k + 1) + 1
      BY <2>2, <1>3
    <3>2. i \in 1 .. Len(Tail(s)) /\ i + 1 \in 1 .. Len(s)
      BY <2>1, <2>2, <2>4, <1>3
    <3>3. k + 1 + i - 1 = k + (i + 1) - 1
      BY <3>1
    <3>4. u[i] = tpl[k + 1 + i - 1] /\ Tail(s)[i] = s[i + 1]
      BY <2>3, <2>5, <3>1, <3>2
    <3>5. s[i + 1] = tpl[k + (i + 1) - 1]
      BY <2>1, <3>2
    <3> QED BY <3>3, <3>4, <3>5
  <2>7. Len(u) = Len(Tail(s))
    BY <2>1, <2>2, <2>4, <1>3
  <2>8. u = Tail(s)
    BY <2>2, <2>4, <2>6, <2>7, SeqEqual, Zenon
  <2> QED BY <2>8 DEF u
<1> QED BY <1>4, <1>5 DEF Suffix
-----------------------------------------------------------------------------
(***************************************************************************)
(* What the operations do to the record of a thread.                       *)
(***************************************************************************)
LEMMA ThreadParts ==
  ASSUME NEW d \in ThreadRec
  PROVE  /\ d = [made |-> d.made, node |-> d.node, lookup |-> d.lookup, bad |-> d.bad]
         /\ d.made \in 0 .. MaxFlows /\ d.made \in Nat
         /\ d.node \in [Numbers -> NodeRec] /\ d.lookup \in [Fids -> 0 .. MaxFlows]
         /\ \A i \in Fids : d.lookup[i] \in Nat
BY Constants DEF ThreadRec

LEMMA NodeParts ==
  ASSUME NEW v \in NodeRec
  PROVE  /\ v = [type |-> v.type, nat |-> v.nat, pkts |-> v.pkts, ext |-> v.ext,
                 replied |-> v.replied]
         /\ v.pkts \in Seq(Packets) /\ v.type \in {"free", "nat", "pkt"}
         /\ v.nat \in {0, 1, 2}
BY DEF NodeRec

(* e is d with another node n. *)
OneNode(d, e, n) ==
  /\ e \in ThreadRec
  /\ e.made = d.made /\ e.lookup = d.lookup /\ e.bad = d.bad
  /\ \A m \in Numbers : m # n => e.node[m] = d.node[m]

LEMMA SetNode ==
  ASSUME NEW d \in ThreadRec, NEW n \in Numbers, NEW w \in NodeRec
  PROVE  /\ OneNode(d, [d EXCEPT !.node[n] = w], n)
         /\ [d EXCEPT !.node[n] = w].node[n] = w
BY ThreadParts DEF OneNode, ThreadRec

Advanced(v) ==
  [v EXCEPT !.pkts = Tail(@), !.type = IF Tail(v.pkts) = <<>> THEN "free" ELSE @]

LEMMA AdvancedParts ==
  ASSUME NEW v \in NodeRec, v.pkts # <<>>
  PROVE  /\ Advanced(v) \in NodeRec
         /\ Advanced(v).pkts = Tail(v.pkts)
         /\ Advanced(v).type = IF Tail(v.pkts) = <<>> THEN "free" ELSE v.type
         /\ Advanced(v).nat = v.nat /\ Advanced(v).ext = v.ext
         /\ Advanced(v).replied = v.replied
<1>1. Tail(v.pkts) \in Seq(Packets)
  BY NodeParts
<1> QED BY <1>1, NodeParts DEF Advanced, NodeRec

LEMMA NextPacketIs ==
  ASSUME NEW d \in ThreadRec, NEW n \in Numbers, d.node[n].pkts # <<>>
  PROVE  NextPacket(d, n) = [d EXCEPT !.node[n] = Advanced(d.node[n])]
<1> DEFINE v == d.node[n]
           e == [d EXCEPT !.node[n].pkts = Tail(@)]
<1>1. v \in NodeRec /\ v = [type |-> v.type, nat |-> v.nat, pkts |-> v.pkts, ext |-> v.ext,
                            replied |-> v.replied]
  BY ThreadParts, NodeParts
<1>2. e.node[n].pkts = Tail(v.pkts)
  BY <1>1, ThreadParts
<1>3. CASE Tail(v.pkts) = <<>>
  <2>1. NextPacket(d, n) = free_last_flow_node(e, n)
    BY <1>2, <1>3 DEF NextPacket
  <2>2. free_last_flow_node(e, n) = [d EXCEPT !.node[n] = Advanced(v)]
    BY <1>1, <1>3, ThreadParts DEF free_last_flow_node, Advanced
  <2> QED BY <2>1, <2>2
<1>4. CASE Tail(v.pkts) # <<>>
  <2>1. NextPacket(d, n) = e
    BY <1>2, <1>4 DEF NextPacket
  <2>2. e = [d EXCEPT !.node[n] = Advanced(v)]
    BY <1>1, <1>4, ThreadParts DEF Advanced
  <2> QED BY <2>1, <2>2
<1> QED BY <1>3, <1>4

(* A node that sends a packet and goes on: it stays as good as it was. *)
LEMMA AdvancedGood ==
  ASSUME NEW v \in NodeRec, NEW w \in NodeRec, NEW f, GoodNode(v, f), v.type # "free",
         w.pkts = v.pkts, w.type = v.type, w.ext = v.ext, w.replied \subseteq {f},
         v.type = "nat" => w.nat = 2 /\ Head(v.pkts) # "r"
  PROVE  /\ GoodNode(Advanced(w), f)
         /\ Advanced(w).type = "nat" <=> v.type = "nat"
         /\ Advanced(w).nat = w.nat
<1>1. v.pkts \in Seq(Packets) /\ v.pkts # <<>> /\ Suffix(v.pkts)
  BY NodeParts DEF GoodNode
<1>2. Suffix(Tail(v.pkts))
  BY <1>1, TailSuffix
<1>3. v.type = "nat" => Tail(v.pkts) # <<>> /\ BiDirectional(Tail(v.pkts))
  BY <1>1, TailReply DEF GoodNode
<1>4. v.type = "pkt" => v.ext = f \/ ~BiDirectional(Tail(v.pkts))
  BY <1>1, TailNoReply DEF GoodNode
<1>5. v.ext \in {None, f}
  BY DEF GoodNode
<1>6. /\ Advanced(w) \in NodeRec
      /\ Advanced(w).pkts = Tail(v.pkts)
      /\ Advanced(w).type = IF Tail(v.pkts) = <<>> THEN "free" ELSE v.type
      /\ Advanced(w).nat = w.nat /\ Advanced(w).ext = v.ext
      /\ Advanced(w).replied = w.replied
  BY <1>1, AdvancedParts
<1>7. v.type \in {"nat", "pkt"}
  BY NodeParts
<1> QED BY <1>2, <1>3, <1>4, <1>5, <1>6, <1>7 DEF GoodNode

(***************************************************************************)
(* A step that changes one live node, and takes it out of the table if it  *)
(* stops waiting, leaves the thread good, and what is under way as well.   *)
(***************************************************************************)
NodeStep(t, d, e, n) ==
  /\ e \in ThreadRec
  /\ e.made = d.made /\ e.bad = d.bad
  /\ \A m \in Numbers : m # n => e.node[m] = d.node[m]
  /\ GoodNode(e.node[n], <<t, n>>)
  /\ d.node[n].nat = 2 => e.node[n].nat = 2
  /\ \/ e.lookup = d.lookup /\ (e.node[n].type = "nat" <=> d.node[n].type = "nat")
     \/ /\ e.lookup = [d.lookup EXCEPT ![get_short_fid(n)] = 0]
        /\ d.node[n].type = "nat" /\ e.node[n].type # "nat"

LEMMA LatestSame ==
  ASSUME NEW d, NEW e, NEW n, e.made = d.made
  PROVE  Latest(e, n) <=> Latest(d, n)
BY DEF Latest

LEMMA NodeStepGood ==
  ASSUME NEW t \in Threads, NEW d, NEW e, NEW n \in Numbers,
         GoodThread(t, d), d.node[n].type # "free", NodeStep(t, d, e, n)
  PROVE  GoodThread(t, e) /\ Seen(t, d) \subseteq Seen(t, e)
<1>1. d \in ThreadRec /\ e \in ThreadRec /\ d.bad = {} /\ e.bad = {} /\ e.made = d.made
  BY DEF GoodThread, NodeStep
<1>2. d.made \in Nat /\ d.lookup \in [Fids -> 0 .. MaxFlows] /\ n \in Nat
      /\ \A m \in Numbers : get_short_fid(m) \in Fids
  BY <1>1, ThreadParts, Numbered, FidType
<1>3. ~(n > d.made)
  <2>1. NoNode.type = "free"
    BY DEF NoNode
  <2>2. n > d.made => d.node[n] = NoNode
    BY DEF GoodThread
  <2> QED BY <2>1, <2>2
<1>4. Latest(d, n)
  BY DEF GoodThread
<1>5. ASSUME NEW m \in Numbers
      PROVE  /\ GoodNode(e.node[m], <<t, m>>)
             /\ m > e.made => e.node[m] = NoNode
             /\ e.node[m].type = "nat" => e.lookup[get_short_fid(m)] = m
             /\ e.node[m].type # "free" => Latest(e, m)
  <2>1. CASE m = n
    <3>1. e.node[m].type = "nat" => e.lookup = d.lookup /\ d.node[n].type = "nat"
      BY <2>1 DEF NodeStep
    <3>2. e.node[m].type = "nat" => e.lookup[get_short_fid(m)] = m
      BY <2>1, <3>1 DEF GoodThread
    <3> QED BY <2>1, <3>2, <1>1, <1>3, <1>4, LatestSame DEF NodeStep
  <2>2. CASE m # n
    <3>1. e.node[m] = d.node[m]
      BY <2>2 DEF NodeStep
    <3>2. e.node[m].type = "nat" => d.lookup[get_short_fid(m)] = m
      BY <3>1 DEF GoodThread
    <3>3. e.node[m].type = "nat" => e.lookup[get_short_fid(m)] = m
      <4>1. CASE e.lookup = d.lookup
        BY <4>1, <3>2
      <4>2. CASE e.lookup = [d.lookup EXCEPT ![get_short_fid(n)] = 0] /\ d.node[n].type = "nat"
        <5>1. d.lookup[get_short_fid(n)] = n
          BY <4>2 DEF GoodThread
        <5> QED BY <5>1, <4>2, <3>2, <2>2, <1>2
      <4> QED BY <4>1, <4>2 DEF NodeStep
    <3> QED BY <3>1, <3>3, <1>1, LatestSame DEF GoodThread
  <2> QED BY <2>1, <2>2
<1>6. ASSUME NEW i \in Fids, e.lookup[i] # 0
      PROVE  /\ e.lookup[i] <= e.made
             /\ get_short_fid(e.lookup[i]) = i
             /\ e.node[e.lookup[i]].type = "nat"
  <2>1. e.lookup[i] = d.lookup[i] /\ d.lookup[i] # 0
    <3>1. CASE e.lookup = d.lookup
      BY <3>1, <1>6
    <3>2. CASE e.lookup = [d.lookup EXCEPT ![get_short_fid(n)] = 0]
      BY <3>2, <1>6, <1>2
    <3> QED BY <3>1, <3>2 DEF NodeStep
  <2> DEFINE k == d.lookup[i]
  <2>2. k <= d.made /\ get_short_fid(k) = i /\ d.node[k].type = "nat"
    BY <2>1 DEF GoodThread
  <2>3. k \in Numbers
    BY <2>1, <1>2, Constants DEF Numbers
  <2>4. e.node[k].type = "nat"
    <3>1. CASE k # n
      BY <3>1, <2>2, <2>3 DEF NodeStep
    <3>2. CASE k = n
      <4>1. e.lookup = d.lookup
        <5>1. CASE e.lookup = [d.lookup EXCEPT ![get_short_fid(n)] = 0]
          BY <5>1, <1>6, <1>2, <2>2, <3>2
        <5> QED BY <5>1 DEF NodeStep
      <4>2. CASE e.node[n].type = "nat" <=> d.node[n].type = "nat"
        BY <4>2, <3>2, <2>2
      <4>3. CASE e.lookup = [d.lookup EXCEPT ![get_short_fid(n)] = 0]
        BY <4>3, <1>6, <1>2, <2>2, <3>2
      <4> QED BY <4>2, <4>3 DEF NodeStep
    <3> QED BY <3>1, <3>2
  <2> QED BY <1>1, <2>1, <2>2, <2>4
<1>7. GoodThread(t, e)
  BY <1>1, <1>5, <1>6 DEF GoodThread
<1>8. ASSUME NEW f \in Seen(t, d)
      PROVE  f \in Seen(t, e)
  <2>1. f \in Flows /\ f[1] = t /\ f[2] <= d.made /\ d.node[f[2]].nat = 2 /\ Latest(d, f[2])
    BY DEF Seen
  <2>2. f[2] \in Numbers
    BY <2>1 DEF Flows
  <2>3. e.node[f[2]].nat = 2
    BY <2>1, <2>2 DEF NodeStep
  <2>4. Latest(e, f[2])
    BY <2>1, <1>1, LatestSame
  <2> QED BY <2>1, <2>3, <2>4, <1>1 DEF Seen
<1> QED BY <1>7, <1>8

(* A packet is sent: NextPacket, with a node that has been changed before. *)
LEMMA SendGood ==
  ASSUME NEW t \in Threads, NEW d, NEW n \in Numbers, NEW w \in NodeRec, NEW e,
         GoodThread(t, d), d.node[n].type # "free",
         e = NextPacket([d EXCEPT !.node[n] = w], n),
         w.pkts = d.node[n].pkts, w.type = d.node[n].type, w.ext = d.node[n].ext,
         w.replied \subseteq {<<t, n>>},
         d.node[n].type = "nat" => w.nat = 2 /\ Head(d.node[n].pkts) # "r",
         d.node[n].nat = 2 => w.nat = 2
  PROVE  NodeStep(t, d, e, n) /\ e.node[n].nat = w.nat
<1> DEFINE v == d.node[n]
           c == [d EXCEPT !.node[n] = w]
<1>1. d \in ThreadRec /\ GoodNode(v, <<t, n>>) /\ v \in NodeRec
  BY DEF GoodThread, GoodNode
<1>2. OneNode(d, c, n) /\ c.node[n] = w
  BY <1>1, SetNode
<1>3. w.pkts # <<>>
  BY <1>1 DEF GoodNode
<1> HIDE DEF c
<1>4. c \in ThreadRec
  BY <1>2 DEF OneNode
<1>5. e = [c EXCEPT !.node[n] = Advanced(w)]
  BY <1>2, <1>3, <1>4, NextPacketIs DEF c
<1>6. Advanced(w) \in NodeRec
  BY <1>3, AdvancedParts
<1>7. OneNode(c, e, n) /\ e.node[n] = Advanced(w)
  <2> DEFINE a == Advanced(w)
  <2>1. a \in NodeRec
    BY <1>6
  <2> HIDE DEF a
  <2>2. /\ OneNode(c, [c EXCEPT !.node[n] = a], n)
        /\ [c EXCEPT !.node[n] = a].node[n] = a
    BY <1>4, <2>1, SetNode
  <2>3. e = [c EXCEPT !.node[n] = a]
    BY <1>5 DEF a
  <2>4. e.node[n] = a
    BY <2>2, <2>3, Zenon
  <2>5. OneNode(c, e, n)
    BY <2>2, <2>3, Zenon
  <2> QED BY <2>4, <2>5 DEF a
<1>8. /\ GoodNode(Advanced(w), <<t, n>>)
      /\ Advanced(w).type = "nat" <=> v.type = "nat"
      /\ Advanced(w).nat = w.nat
  BY <1>1, AdvancedGood
<1>9. OneNode(d, e, n)
  BY <1>2, <1>7 DEF OneNode
<1> QED BY <1>7, <1>8, <1>9 DEF NodeStep, OneNode
-----------------------------------------------------------------------------
(***************************************************************************)
(* The handlers of a node and of an entry of a batch.                      *)
(***************************************************************************)
LEMMA LiveNode ==
  ASSUME NEW t \in Threads, NEW d, NEW n \in Numbers, GoodThread(t, d)
  PROVE  /\ d \in ThreadRec /\ d.node[n] \in NodeRec
         /\ GoodNode(d.node[n], <<t, n>>)
         /\ d.node[n].replied \subseteq {<<t, n>>}
         /\ [d EXCEPT !.node[n] = d.node[n]] = d
         /\ get_short_fid(n) \in Fids
<1>1. d \in ThreadRec /\ GoodNode(d.node[n], <<t, n>>)
  BY DEF GoodThread
<1>2. d.node[n] \in NodeRec /\ d.node[n].replied \subseteq {<<t, n>>}
  BY <1>1 DEF GoodNode
<1>3. [d EXCEPT !.node[n] = d.node[n]] = d
  BY <1>1, ThreadParts
<1> QED BY <1>1, <1>2, <1>3, FidType, Numbered

LEMMA ReplyIsHead ==
  ASSUME NEW v \in NodeRec, v.pkts # <<>>, Head(v.pkts) = "r"
  PROVE  BiDirectional(v.pkts)
<1>1. 1 \in DOMAIN v.pkts /\ v.pkts[1] = "r"
  BY NodeParts, EmptySeq
<1> QED BY <1>1 DEF BiDirectional

LEMMA SendFirstStep ==
  ASSUME NEW t \in Threads, NEW d, NEW n \in Numbers, GoodThread(t, d),
         d.node[n].type = "nat", d.node[n].nat = 1
  PROVE  NodeStep(t, d, SendFirst(d, n), n) /\ SendFirst(d, n).node[n].nat = 2
<1> DEFINE v == d.node[n]
           w == [v EXCEPT !.nat = 2]
           e == SendFirst(d, n)
<1>1. /\ d \in ThreadRec /\ v \in NodeRec /\ GoodNode(v, <<t, n>>)
      /\ v.replied \subseteq {<<t, n>>}
  BY LiveNode
<1>2. /\ w \in NodeRec /\ w.pkts = v.pkts /\ w.type = v.type /\ w.ext = v.ext
      /\ w.replied = v.replied /\ w.nat = 2
  BY <1>1, NodeParts DEF NodeRec
<1>3. [d EXCEPT !.node[n].nat = 2] = [d EXCEPT !.node[n] = w]
  BY <1>1, ThreadParts
<1>4. Head(v.pkts) # "r"
  BY <1>1 DEF GoodNode
<1>5. e = NextPacket([d EXCEPT !.node[n] = w], n)
  BY <1>3 DEF SendFirst
<1> HIDE DEF w, e
<1>6. NodeStep(t, d, e, n) /\ e.node[n].nat = w.nat
  BY <1>1, <1>2, <1>4, <1>5, SendGood
<1> QED BY <1>2, <1>6 DEF e

LEMMA PlainStep ==
  ASSUME NEW t \in Threads, NEW d, NEW n \in Numbers, GoodThread(t, d),
         d.node[n].type # "free",
         d.node[n].type = "nat" => d.node[n].nat = 2 /\ ~IsReply(d, n)
  PROVE  NodeStep(t, d, NextPacket(d, n), n)
<1> DEFINE w == d.node[n]
           e == NextPacket(d, n)
<1>1. /\ w \in NodeRec /\ w.replied \subseteq {<<t, n>>}
      /\ [d EXCEPT !.node[n] = w] = d
  BY LiveNode
<1>2. e = NextPacket([d EXCEPT !.node[n] = w], n)
  BY <1>1
<1>3. d.node[n].type = "nat" => w.nat = 2 /\ Head(d.node[n].pkts) # "r"
  BY DEF IsReply
<1> HIDE DEF e
<1>4. NodeStep(t, d, e, n)
  BY <1>1, <1>2, <1>3, SendGood
<1> QED BY <1>4 DEF e

LEMMA ReplyStep ==
  ASSUME NEW t \in Threads, NEW d, NEW n \in Numbers, GoodThread(t, d),
         d.node[n].type = "pkt", IsReply(d, n)
  PROVE  NodeStep(t, d, Reply(d, n), n)
<1> DEFINE v == d.node[n]
           w == [v EXCEPT !.replied = @ \cup {d.node[n].ext}]
           e == Reply(d, n)
<1>1. /\ d \in ThreadRec /\ v \in NodeRec /\ GoodNode(v, <<t, n>>)
      /\ v.replied \subseteq {<<t, n>>}
  BY LiveNode
<1>2. BiDirectional(v.pkts)
  BY <1>1, ReplyIsHead DEF IsReply, GoodNode
<1>3. v.ext = <<t, n>> /\ v.ext \in Flows \cup {None}
  BY <1>1, <1>2 DEF GoodNode, NodeRec
<1>4. /\ w \in NodeRec /\ w.pkts = v.pkts /\ w.type = v.type /\ w.ext = v.ext
      /\ w.replied = v.replied \cup {v.ext} /\ w.nat = v.nat
  BY <1>1, <1>3, NodeParts DEF NodeRec
<1>5. w.replied \subseteq {<<t, n>>}
  BY <1>1, <1>3, <1>4
<1>6. [d EXCEPT !.node[n].replied = @ \cup {d.node[n].ext}] = [d EXCEPT !.node[n] = w]
  BY <1>1, ThreadParts
<1>7. e = NextPacket([d EXCEPT !.node[n] = w], n)
  BY <1>6 DEF Reply
<1> HIDE DEF w, e
<1>8. NodeStep(t, d, e, n)
  BY <1>1, <1>4, <1>5, <1>7, SendGood
<1> QED BY <1>8 DEF e

LEMMA TerminateStep ==
  ASSUME NEW t \in Threads, NEW d, NEW n \in Numbers, GoodThread(t, d),
         d.node[n].type = "nat"
  PROVE  NodeStep(t, d, terminate_nat_flows(d, n), n)
<1> DEFINE v == d.node[n]
           w == [v EXCEPT !.type = "free"]
           e == terminate_nat_flows(d, n)
           l == [d.lookup EXCEPT ![get_short_fid(n)] = 0]
<1>1. /\ d \in ThreadRec /\ v \in NodeRec /\ GoodNode(v, <<t, n>>)
      /\ get_short_fid(n) \in Fids
  BY LiveNode
<1>2. /\ w \in NodeRec /\ w.pkts = v.pkts /\ w.type = "free" /\ w.ext = v.ext
      /\ w.replied = v.replied /\ w.nat = v.nat
  BY <1>1, NodeParts DEF NodeRec
<1>3. GoodNode(w, <<t, n>>)
  BY <1>1, <1>2 DEF GoodNode
<1>4. l \in [Fids -> 0 .. MaxFlows]
  BY <1>1, ThreadParts, Constants
<1>5. e = [made |-> d.made, node |-> [d.node EXCEPT ![n] = w], lookup |-> l, bad |-> d.bad]
  <2> DEFINE c == [made |-> d.made, node |-> d.node, lookup |-> l, bad |-> d.bad]
  <2>1. [d EXCEPT !.lookup[get_short_fid(n)] = 0] = c
    BY <1>1, ThreadParts
  <2>2. e = [c EXCEPT !.node[n].type = "free"]
    BY <2>1 DEF terminate_nat_flows, free_last_flow_node
  <2> HIDE DEF l
  <2>3. [c EXCEPT !.node[n].type = "free"]
          = [made |-> d.made, node |-> [d.node EXCEPT ![n] = w], lookup |-> l, bad |-> d.bad]
    BY <1>1, ThreadParts
  <2> QED BY <2>2, <2>3
<1> HIDE DEF w, e, l
<1>6. /\ e \in ThreadRec /\ e.made = d.made /\ e.bad = d.bad /\ e.lookup = l
      /\ e.node[n] = w /\ \A m \in Numbers : m # n => e.node[m] = d.node[m]
  BY <1>1, <1>2, <1>4, <1>5, ThreadParts DEF ThreadRec
<1>7. NodeStep(t, d, e, n)
  BY <1>2, <1>3, <1>6 DEF NodeStep, l
<1> QED BY <1>7 DEF e

LEMMA WaitingStep ==
  ASSUME NEW t \in Threads, NEW d, NEW n \in Numbers, GoodThread(t, d),
         d.node[n].type = "nat", d.node[n].nat = 2
  PROVE  NodeStep(t, d, Waiting(d, n), n)
<1>1. CASE IsReply(d, n)
  BY <1>1, TerminateStep DEF Waiting
<1>2. CASE ~IsReply(d, n)
  BY <1>2, PlainStep DEF Waiting
<1> QED BY <1>1, <1>2

(* An entry under way either finds nothing or its own flow, in the wait state. *)
LEMMA LearnStep ==
  ASSUME NEW t \in Threads, NEW d, NEW f \in Seen(t, d), GoodThread(t, d)
  PROVE  \/ Learn(d, f) = d
         \/ /\ f[2] \in Numbers /\ d.node[f[2]].type = "nat"
            /\ NodeStep(t, d, Learn(d, f), f[2])
<1> DEFINE m == f[2]
           i == get_short_fid(m)
           n == d.lookup[i]
<1>1. /\ f \in Flows /\ f[1] = t /\ m <= d.made /\ d.node[m].nat = 2 /\ Latest(d, m)
      /\ m \in Numbers /\ f = <<t, m>>
  BY DEF Seen, Flows
<1>2. d \in ThreadRec /\ i \in Fids /\ d.made \in Nat /\ n \in Nat /\ n <= MaxFlows /\ m \in Nat
  BY <1>1, LiveNode, ThreadParts, Numbered, Constants
<1>3. CASE n = 0
  BY <1>3 DEF Learn
<1>4. CASE n # 0
  <2>1. n <= d.made /\ get_short_fid(n) = i /\ d.node[n].type = "nat"
    BY <1>2, <1>4 DEF GoodThread
  <2>2. n \in Numbers
    BY <1>2, <1>4, Constants DEF Numbers
  <2>3. Latest(d, n)
    BY <2>1, <2>2 DEF GoodThread
  <2>4. n = m
    <3>1. ~(m < n)
      BY <1>1, <2>1, <2>2 DEF Latest
    <3>2. ~(n < m)
      BY <1>1, <2>1, <2>3 DEF Latest
    <3> QED BY <1>2, <3>1, <3>2
  <2> DEFINE v == d.node[m]
             w == [v EXCEPT !.ext = f, !.type = "pkt"]
             e == Learn(d, f)
             l == [d.lookup EXCEPT ![i] = 0]
  <2>5. v \in NodeRec /\ GoodNode(v, <<t, m>>) /\ v.type = "nat"
    BY <1>1, <2>1, <2>4, LiveNode
  <2>6. /\ w \in NodeRec /\ w.pkts = v.pkts /\ w.type = "pkt" /\ w.ext = f
        /\ w.replied = v.replied /\ w.nat = v.nat
    BY <1>1, <2>5, NodeParts DEF NodeRec
  <2>7. GoodNode(w, <<t, m>>)
    BY <1>1, <2>5, <2>6 DEF GoodNode
  <2>8. l \in [Fids -> 0 .. MaxFlows]
    BY <1>2, ThreadParts, Constants
  <2>9. e = [made |-> d.made, node |-> [d.node EXCEPT ![m] = w], lookup |-> l, bad |-> d.bad]
    <3>1. e = [d EXCEPT !.node[m].ext = f, !.node[m].type = "pkt", !.lookup[i] = 0,
                        !.bad = d.bad]
      BY <1>1, <1>4, <2>4 DEF Learn, Failed
    <3> DEFINE c1 == [made |-> d.made, node |-> [d.node EXCEPT ![m].ext = f],
                      lookup |-> d.lookup, bad |-> d.bad]
               c2 == [made |-> d.made, node |-> [d.node EXCEPT ![m] = w],
                      lookup |-> d.lookup, bad |-> d.bad]
               c3 == [made |-> d.made, node |-> [d.node EXCEPT ![m] = w],
                      lookup |-> l, bad |-> d.bad]
    <3>2. [d EXCEPT !.node[m].ext = f] = c1
      BY <1>2, ThreadParts
    <3>3. [c1 EXCEPT !.node[m].type = "pkt"] = c2
      <4> DEFINE g == d.node
                 h == [g EXCEPT ![m].ext = f]
                 u == [v EXCEPT !.ext = f]
      <4>1. g \in [Numbers -> NodeRec] /\ m \in Numbers
        BY <1>1, <1>2, ThreadParts
      <4>2. h[m] = u /\ [u EXCEPT !.type = "pkt"] = w
        BY <4>1
      <4>3. [h EXCEPT ![m].type = "pkt"] = [h EXCEPT ![m] = w]
        <5> HIDE DEF u, h, w
        <5>1. [h[m] EXCEPT !.type = "pkt"] = w
          BY <4>2
        <5> QED BY <5>1
      <4>4. [h EXCEPT ![m] = w] = [g EXCEPT ![m] = w]
        BY <4>1
      <4>5. [c1 EXCEPT !.node[m].type = "pkt"]
              = [made |-> d.made, node |-> [h EXCEPT ![m].type = "pkt"],
                 lookup |-> d.lookup, bad |-> d.bad]
        BY <1>2
      <4> QED BY <4>3, <4>4, <4>5
    <3>4. [c2 EXCEPT !.lookup[i] = 0] = c3
      BY <1>1, <1>2, ThreadParts
    <3>5. [c3 EXCEPT !.bad = d.bad] = c3
      OBVIOUS
    <3>6. [d EXCEPT !.node[m].ext = f, !.node[m].type = "pkt", !.lookup[i] = 0, !.bad = d.bad]
            = [[[[d EXCEPT !.node[m].ext = f] EXCEPT !.node[m].type = "pkt"]
                  EXCEPT !.lookup[i] = 0] EXCEPT !.bad = d.bad]
      OBVIOUS
    <3> HIDE DEF c1, c2, c3
    <3>7. e = c3
      BY <3>1, <3>2, <3>3, <3>4, <3>5, <3>6
    <3> QED BY <3>7 DEF c3
  <2> HIDE DEF w, e, l
  <2>10. /\ e \in ThreadRec /\ e.made = d.made /\ e.bad = d.bad /\ e.lookup = l
         /\ e.node[m] = w /\ \A k \in Numbers : k # m => e.node[k] = d.node[k]
    BY <1>1, <1>2, <2>6, <2>8, <2>9, ThreadParts DEF ThreadRec
  <2>11. NodeStep(t, d, e, m)
    BY <2>5, <2>6, <2>7, <2>10 DEF NodeStep, l
  <2> QED BY <1>1, <2>5, <2>11 DEF e
<1> QED BY <1>3, <1>4
-----------------------------------------------------------------------------
(***************************************************************************)
(* A new flow.                                                             *)
(***************************************************************************)
(* Of the flows with the new short id only the last one can be live or under
   way, and WrapIsSlow is about that one. *)
LEMMA OnlyTheLast ==
  ASSUME NEW d \in ThreadRec, NEW n \in Numbers, n = d.made + 1, NEW k \in Numbers,
         k <= d.made, Latest(d, k), get_short_fid(k) = get_short_fid(n)
  PROVE  n > FidMod /\ k = n - FidMod
<1>1. n \in Nat /\ k \in Nat /\ k > 0 /\ d.made \in Nat /\ FidMod \in Nat /\ FidMod > 0
      /\ n <= MaxFlows /\ MaxFlows \in Nat
  BY Numbered, ThreadParts, Constants
<1>2. k < n
  BY <1>1
<1>3. k + FidMod <= n
  BY <1>1, <1>2, FidsApart
<1>4. n - FidMod \in Nat /\ get_short_fid(n - FidMod) = get_short_fid(n)
  BY <1>1, <1>3, FidBefore
<1>5. n - FidMod \in Numbers /\ n - FidMod <= d.made
  BY <1>1, <1>3, <1>4 DEF Numbers
<1>6. ~(k < n - FidMod)
  BY <1>4, <1>5 DEF Latest
<1> QED BY <1>1, <1>3, <1>6

NewThread(d, n, w) ==
  [made |-> n, node |-> [d.node EXCEPT ![n] = w],
   lookup |-> IF w.type = "nat" THEN [d.lookup EXCEPT ![get_short_fid(n)] = n] ELSE d.lookup,
   bad |-> {}]

LEMMA NewFlowGood ==
  ASSUME NEW t \in Threads, NEW d, NEW n \in Numbers, NEW w, NEW e,
         GoodThread(t, d), n = d.made + 1, GoodNode(w, <<t, n>>), e = NewThread(d, n, w),
         \A k \in Numbers : k <= d.made /\ d.node[k].type # "free"
                              => get_short_fid(k) # get_short_fid(n)
  PROVE  /\ GoodThread(t, e)
         /\ \A f \in Seen(t, d) : get_short_fid(f[2]) # get_short_fid(n) => f \in Seen(t, e)
<1>1. /\ d \in ThreadRec /\ d.made \in Nat /\ n \in Nat /\ n <= MaxFlows /\ MaxFlows \in Nat
      /\ d.node \in [Numbers -> NodeRec] /\ d.lookup \in [Fids -> 0 .. MaxFlows]
      /\ \A k \in Numbers : k \in Nat /\ k > 0 /\ get_short_fid(k) \in Fids
  BY ThreadParts, Numbered, FidType, Constants DEF GoodThread
<1>2. w \in NodeRec
  BY DEF GoodNode
<1>3. /\ e \in ThreadRec /\ e.made = n /\ e.bad = {} /\ e.node[n] = w
      /\ \A m \in Numbers : m # n => e.node[m] = d.node[m]
      /\ e.lookup = IF w.type = "nat" THEN [d.lookup EXCEPT ![get_short_fid(n)] = n]
                                      ELSE d.lookup
  <2> DEFINE l == IF w.type = "nat" THEN [d.lookup EXCEPT ![get_short_fid(n)] = n] ELSE d.lookup
             g == [d.node EXCEPT ![n] = w]
  <2>1. l \in [Fids -> 0 .. MaxFlows]
    BY <1>1
  <2>2. /\ g \in [Numbers -> NodeRec] /\ g[n] = w
        /\ \A m \in Numbers : m # n => g[m] = d.node[m]
    BY <1>1, <1>2
  <2>3. e = [made |-> n, node |-> g, lookup |-> l, bad |-> {}]
    BY DEF NewThread
  <2> HIDE DEF l, g
  <2>4. e \in ThreadRec /\ e.made = n /\ e.bad = {} /\ e.node = g /\ e.lookup = l
    BY <2>1, <2>2, <2>3, <1>1 DEF ThreadRec
  <2> QED BY <2>2, <2>4 DEF l
<1>4. ASSUME NEW k \in Numbers, k <= d.made, Latest(d, k), get_short_fid(k) # get_short_fid(n)
      PROVE  Latest(e, k)
  <2> SUFFICES ASSUME NEW m \in Numbers, k < m, m <= n
               PROVE  get_short_fid(m) # get_short_fid(k)
    BY <1>3 DEF Latest
  <2>1. CASE m = n
    BY <2>1, <1>4
  <2>2. CASE m # n
    BY <2>2, <1>1, <1>4 DEF Latest
  <2> QED BY <2>1, <2>2
<1>5. Latest(e, n)
  <2>1. \A m \in Numbers : ~(n < m /\ m <= e.made)
    BY <1>1, <1>3
  <2> QED BY <2>1 DEF Latest
<1>6. ASSUME NEW m \in Numbers
      PROVE  /\ GoodNode(e.node[m], <<t, m>>)
             /\ m > e.made => e.node[m] = NoNode
             /\ e.node[m].type = "nat" => e.lookup[get_short_fid(m)] = m
             /\ e.node[m].type # "free" => Latest(e, m)
  <2>1. CASE m = n
    BY <2>1, <1>1, <1>3, <1>5
  <2>2. CASE m # n
    <3>1. e.node[m] = d.node[m]
      BY <2>2, <1>3
    <3>2. /\ GoodNode(d.node[m], <<t, m>>) /\ (m > d.made => d.node[m] = NoNode)
          /\ d.node[m].type = "nat" => d.lookup[get_short_fid(m)] = m
          /\ d.node[m].type # "free" => Latest(d, m)
      BY DEF GoodThread
    <3>3. m > e.made => m > d.made
      BY <1>1, <1>3
    <3>4. d.node[m].type # "free" => m <= d.made
      <4>1. NoNode.type = "free"
        BY DEF NoNode
      <4> QED BY <4>1, <3>2, <1>1
    <3>5. d.node[m].type # "free" => get_short_fid(m) # get_short_fid(n)
      BY <3>4
    <3>6. d.node[m].type # "free" => Latest(e, m)
      BY <3>2, <3>4, <3>5, <1>4
    <3>7. d.node[m].type = "nat" => e.lookup[get_short_fid(m)] = m
      BY <3>2, <3>5, <1>1, <1>3
    <3> QED BY <3>1, <3>2, <3>3, <3>6, <3>7
  <2> QED BY <2>1, <2>2
<1>7. ASSUME NEW i \in Fids, e.lookup[i] # 0
      PROVE  /\ e.lookup[i] <= e.made
             /\ get_short_fid(e.lookup[i]) = i
             /\ e.node[e.lookup[i]].type = "nat"
  <2>1. CASE w.type = "nat" /\ i = get_short_fid(n)
    BY <2>1, <1>1, <1>3
  <2>2. CASE ~(w.type = "nat" /\ i = get_short_fid(n))
    <3> DEFINE k == d.lookup[i]
    <3>1. e.lookup[i] = k
      BY <2>2, <1>1, <1>3
    <3>2. k <= d.made /\ get_short_fid(k) = i /\ d.node[k].type = "nat"
      BY <3>1, <1>7 DEF GoodThread
    <3>3. k \in 0 .. MaxFlows
      BY <1>1
    <3>4. k \in Numbers /\ k # n
      BY <3>1, <3>2, <3>3, <1>1, <1>7 DEF Numbers
    <3> QED BY <3>1, <3>2, <3>3, <3>4, <1>1, <1>3
  <2> QED BY <2>1, <2>2
<1>8. ASSUME NEW f \in Seen(t, d), get_short_fid(f[2]) # get_short_fid(n)
      PROVE  f \in Seen(t, e)
  <2>1. f \in Flows /\ f[1] = t /\ f[2] <= d.made /\ d.node[f[2]].nat = 2 /\ Latest(d, f[2])
    BY DEF Seen
  <2>2. f[2] \in Numbers
    BY <2>1 DEF Flows
  <2>3. f[2] # n /\ f[2] <= n
    <3> DEFINE m == f[2]
    <3>1. m \in Nat /\ m <= d.made
      BY <2>1, <2>2, <1>1
    <3> HIDE DEF m
    <3>2. m <= n /\ m # n
      BY <3>1, <1>1
    <3> QED BY <3>2 DEF m
  <2>4. Latest(e, f[2])
    BY <2>1, <2>2, <1>4, <1>8
  <2> QED BY <2>1, <2>2, <2>4, <2>3, <1>3 DEF Seen
<1> QED BY <1>3, <1>6, <1>7, <1>8 DEF GoodThread
-----------------------------------------------------------------------------
(***************************************************************************)
(* Frames: what a step does not touch stays good.                          *)
(***************************************************************************)
LEMMA InitInv == Init => NatInv
<1> SUFFICES ASSUME Init PROVE NatInv
  OBVIOUS
<1> DEFINE d0 == [made |-> 0, node |-> [n \in Numbers |-> NoNode],
                  lookup |-> [i \in Fids |-> 0], bad |-> {}]
<1>1. NoNode \in NodeRec
  BY DEF NoNode, NodeRec, None
<1>2. d0 \in ThreadRec
  BY <1>1, Constants DEF ThreadRec
<1>3. ASSUME NEW t, NEW n \in Numbers PROVE GoodNode(NoNode, <<t, n>>)
  <2>1. <<>> = SubSeq(<<>>, 1, Len(<<>>))
    OBVIOUS
  <2>2. Suffix(<<>>)
    BY <2>1 DEF Suffix
  <2> QED BY <1>1, <2>2 DEF GoodNode, NoNode
<1>4. \A t \in Threads : GoodThread(t, d0)
  BY <1>2, <1>3 DEF GoodThread, NoNode
<1> HIDE DEF d0
<1>5. dp = [t \in Threads |-> d0]
  BY DEF Init, d0
<1>6. \A t \in Threads : Translations(t)
  BY DEF Translations, Init, Empty
<1>7. \A t \in Threads : Sizes(t)
  BY Constants DEF Sizes, Init, Empty
<1>8. \A f \in Flows : InNet(f)
  BY DEF InNet, Init
<1>9. Shapes
  <2>1. DOMAIN dp = Threads /\ dp = [t \in Threads |-> dp[t]]
    BY <1>5
  <2>2. busy \in [Threads -> BOOLEAN] /\ hand = [t \in Threads |-> hand[t]]
    BY DEF Init
  <2>3. net = [f \in Flows |-> net[f]]
    BY DEF Init
  <2>4. cur = [t \in Threads |-> cur[t]] /\ ring = [t \in Threads |-> ring[t]]
    BY DEF Init
  <2>5. flushes \in Seq(Threads) /\ exited \in BOOLEAN
    BY EmptySeq DEF Init
  <2>6. dups = 0 /\ tries = 0
    BY DEF Init
  <2>7. dups \in 0 .. MaxDups /\ tries \in 0 .. MaxRetries + 1 /\ tries <= MaxRetries
    BY <2>6, Constants
  <2> QED BY <2>1, <2>2, <2>3, <2>4, <2>5, <2>7 DEF Shapes
<1> QED BY <1>4, <1>5, <1>6, <1>7, <1>8, <1>9 DEF NatInv

LEMMA ThreadFrame ==
  ASSUME NatInv, NEW t \in Threads, NEW e, dp' = [dp EXCEPT ![t] = e], GoodThread(t, e)
  PROVE  /\ DOMAIN dp' = Threads /\ dp' = [u \in Threads |-> dp'[u]] /\ dp'[t] = e
         /\ \A u \in Threads : u # t => dp'[u] = dp[u]
         /\ \A u \in Threads : GoodThread(u, dp'[u])
<1>1. DOMAIN dp = Threads /\ dp = [u \in Threads |-> dp[u]]
  BY DEF NatInv, Shapes
<1>2. /\ DOMAIN dp' = Threads /\ dp' = [u \in Threads |-> dp'[u]] /\ dp'[t] = e
      /\ \A u \in Threads : u # t => dp'[u] = dp[u]
  BY <1>1
<1>3. \A u \in Threads : GoodThread(u, dp[u])
  BY DEF NatInv
<1>4. ASSUME NEW u \in Threads PROVE GoodThread(u, dp'[u])
  <2>1. CASE u = t
    BY <2>1, <1>2
  <2>2. CASE u # t
    BY <2>2, <1>2, <1>3
  <2> QED BY <2>1, <2>2
<1> QED BY <1>2, <1>4

(* A step of one node of t: the flows that may be under way stay. *)
LEMMA NodeFrame ==
  ASSUME NatInv, NEW t \in Threads, NEW n \in Numbers, NEW e, dp' = [dp EXCEPT ![t] = e],
         dp[t].node[n].type # "free", NodeStep(t, dp[t], e, n)
  PROVE  /\ DOMAIN dp' = Threads /\ dp' = [u \in Threads |-> dp'[u]] /\ dp'[t] = e
         /\ \A u \in Threads : GoodThread(u, dp'[u])
         /\ \A u \in Threads : Seen(u, dp[u]) \subseteq Seen(u, dp'[u])
<1>1. GoodThread(t, dp[t])
  BY DEF NatInv
<1>2. GoodThread(t, e) /\ Seen(t, dp[t]) \subseteq Seen(t, e)
  BY <1>1, NodeStepGood
<1>3. /\ DOMAIN dp' = Threads /\ dp' = [u \in Threads |-> dp'[u]] /\ dp'[t] = e
      /\ \A u \in Threads : u # t => dp'[u] = dp[u]
      /\ \A u \in Threads : GoodThread(u, dp'[u])
  BY <1>2, ThreadFrame
<1>4. ASSUME NEW u \in Threads PROVE Seen(u, dp[u]) \subseteq Seen(u, dp'[u])
  <2>1. CASE u = t
    BY <2>1, <1>2, <1>3
  <2>2. CASE u # t
    <3>1. dp'[u] = dp[u]
      BY <2>2, <1>3
    <3> QED BY <3>1
  <2> QED BY <2>1, <2>2
<1> QED BY <1>3, <1>4

LEMMA TranslationsFrame ==
  ASSUME NEW u \in Threads, Translations(u), Seen(u, dp[u]) \subseteq Seen(u, dp'[u]),
         cur'[u] = cur[u], ring'[u] = ring[u], hand'[u] = hand[u]
  PROVE  Translations(u)'
<1> DEFINE S == Seen(u, dp[u])
           T == Seen(u, dp'[u])
<1>1. /\ cur[u] \in [infos : Seq(S), old : BOOLEAN]
      /\ ring[u] \in Seq(Seq(S)) /\ hand[u] \in Seq(S)
  BY DEF Translations
<1>2. S \subseteq T
  OBVIOUS
<1> HIDE DEF S, T
<1>3. /\ Seq(S) \subseteq Seq(T) /\ Seq(Seq(S)) \subseteq Seq(Seq(T))
      /\ [infos : Seq(S), old : BOOLEAN] \subseteq [infos : Seq(T), old : BOOLEAN]
  BY <1>2, CarriersMonotone
<1>6. /\ cur'[u] \in [infos : Seq(T), old : BOOLEAN]
      /\ ring'[u] \in Seq(Seq(T)) /\ hand'[u] \in Seq(T)
  BY <1>1, <1>3, Zenon
<1> QED BY <1>6 DEF Translations, T

(* A step of a thread's own: the RX thread and the device do nothing. *)
LEMMA HandleNodeInv ==
  ASSUME NatInv, NEW t \in Threads, NEW n \in Numbers, HandleNode(t, n)
  PROVE  NatInv'
<1> DEFINE d == dp[t]
           v == d.node[n]
           e == CASE v.type = "nat" /\ v.nat = 1 -> SendFirst(d, n)
                  [] v.type = "nat" /\ v.nat = 2 -> Waiting(d, n)
                  [] v.type = "nat" /\ v.nat = 0 -> [d EXCEPT !.bad = @ \cup {"state"}]
                  [] v.type = "pkt" /\ IsReply(d, n) -> Reply(d, n)
                  [] OTHER                       -> NextPacket(d, n)
           first == v.type = "nat" /\ v.nat = 1
           f0 == <<t, n>>
<1>1. /\ v.type # "free" /\ dp' = [dp EXCEPT ![t] = e]
      /\ net' = IF first THEN [net EXCEPT ![f0] = @ + 1] ELSE net
      /\ UNCHANGED <<busy, hand, dups, cur, flushes, tries, ring, exited>>
  BY DEF HandleNode, thr, rx
<1>2. GoodThread(t, d)
  BY DEF NatInv
<1>3. v \in NodeRec /\ GoodNode(v, f0) /\ v.type \in {"nat", "pkt"}
  BY <1>1, <1>2, LiveNode, NodeParts
<1>4. v.type = "nat" => v.nat = 1 \/ v.nat = 2
  BY <1>3 DEF GoodNode
<1>5. NodeStep(t, d, e, n) /\ (first => e.node[n].nat = 2)
  <2>1. CASE first
    <3>1. e = SendFirst(d, n)
      BY <2>1
    <3> QED BY <2>1, <3>1, <1>2, SendFirstStep
  <2>2. CASE v.type = "nat" /\ v.nat = 2
    <3>1. e = Waiting(d, n)
      BY <2>2
    <3> QED BY <2>2, <3>1, <1>2, WaitingStep
  <2>3. CASE v.type = "pkt" /\ IsReply(d, n)
    <3>1. e = Reply(d, n)
      BY <2>3
    <3> QED BY <2>3, <3>1, <1>2, ReplyStep
  <2>4. CASE v.type = "pkt" /\ ~IsReply(d, n)
    <3>1. e = NextPacket(d, n)
      BY <2>4
    <3> QED BY <2>4, <3>1, <1>2, PlainStep
  <2> QED BY <2>1, <2>2, <2>3, <2>4, <1>3, <1>4
<1> HIDE DEF e
<1>6. /\ DOMAIN dp' = Threads /\ dp' = [u \in Threads |-> dp'[u]] /\ dp'[t] = e
      /\ \A u \in Threads : GoodThread(u, dp'[u])
      /\ \A u \in Threads : Seen(u, dp[u]) \subseteq Seen(u, dp'[u])
  BY <1>1, <1>5, NodeFrame
<1>7. \A u \in Threads : Translations(u)'
  BY <1>1, <1>6, TranslationsFrame DEF NatInv
<1>8. \A u \in Threads : Sizes(u)'
  BY <1>1 DEF NatInv, Sizes
<1>9. f0 \in Flows
  BY DEF Flows
<1>10. net = [f \in Flows |-> net[f]] /\ \A f \in Flows : InNet(f) /\ f[1] \in Threads
  BY DEF NatInv, Shapes, Flows
<1>11. Shapes'
  <2>1. net' = [f \in Flows |-> net'[f]]
    BY <1>1, <1>10
  <2> QED BY <2>1, <1>1, <1>6 DEF NatInv, Shapes
<1>12. ASSUME NEW f \in Flows PROVE InNet(f)'
  <2>1. f[1] \in Threads /\ Seen(f[1], dp[f[1]]) \subseteq Seen(f[1], dp'[f[1]])
    BY <1>6, <1>10
  <2>2. InNet(f) /\ dups' = dups
    BY <1>1, <1>10
  <2>3. CASE ~(first /\ f = f0)
    <3>1. net'[f] = net[f]
      BY <2>3, <1>1, <1>10
    <3> QED BY <2>1, <2>2, <3>1 DEF InNet
  <2>4. CASE first /\ f = f0
    <3>1. net[f] = 0
      <4>1. f0[1] = t /\ f0[2] = n
        OBVIOUS
      <4>2. f0 \notin Seen(t, dp[t])
        BY <2>4, <4>1 DEF Seen
      <4> QED BY <2>2, <2>4, <4>1, <4>2 DEF InNet
    <3>2. net'[f] = 1
      BY <2>4, <3>1, <1>1, <1>9, <1>10
    <3>3. f0 \in Seen(t, e)
      <4>1. e.node[n].nat = 2
        BY <2>4, <1>5
      <4>2. e.made = d.made
        BY <1>5 DEF NodeStep
      <4>3. Latest(d, n) /\ ~(n > d.made)
        BY <1>1, <1>2, <1>3 DEF GoodThread, NoNode
      <4>4. Latest(e, n)
        BY <4>2, <4>3, LatestSame
      <4>5. n <= e.made
        BY <4>2, <4>3, <1>2, ThreadParts, Numbered DEF GoodThread
      <4> QED BY <4>1, <4>4, <4>5, <1>9 DEF Seen
    <3>4. f \in Seen(f[1], dp'[f[1]])
      BY <2>4, <3>3, <1>6
    <3>5. dups' \in Nat
      BY <1>1, Constants DEF NatInv, Shapes
    <3>6. net'[f] \in Nat /\ net'[f] <= 1 + dups'
      <4>1. \A x, y : x = 1 /\ y \in Nat => x \in Nat /\ x <= 1 + y
        OBVIOUS
      <4> QED BY <3>2, <3>5, <4>1
    <3> QED BY <3>4, <3>6 DEF InNet
  <2> QED BY <2>3, <2>4
<1> QED BY <1>6, <1>7, <1>8, <1>11, <1>12 DEF NatInv

(***************************************************************************)
(* The loop of check_msgs.                                                 *)
(***************************************************************************)
LEMMA HandelNatMsgInv ==
  ASSUME NatInv, NEW t \in Threads, handel_nat_msg(t)
  PROVE  NatInv'
<1> DEFINE d == dp[t]
           f == Head(hand[t])
           e == Learn(d, f)
           S == Seen(t, d)
<1>1. /\ hand[t] # <<>> /\ dp' = [dp EXCEPT ![t] = e] /\ hand' = [hand EXCEPT ![t] = Tail(@)]
      /\ UNCHANGED <<busy, net, dups, cur, flushes, tries, ring, exited>>
  BY DEF handel_nat_msg, rx
<1>2. /\ GoodThread(t, d) /\ hand = [u \in Threads |-> hand[u]]
      /\ \A u \in Threads : Translations(u) /\ Sizes(u)
      /\ DOMAIN dp = Threads /\ dp = [u \in Threads |-> dp[u]]
      /\ \A u \in Threads : GoodThread(u, dp[u])
  BY DEF NatInv, Shapes
<1>3. hand[t] \in Seq(S)
  BY <1>2 DEF Translations
<1> HIDE DEF S
<1>4. f \in S /\ Tail(hand[t]) \in Seq(S)
  BY <1>1, <1>3
<1>5. \/ e = d
      \/ f[2] \in Numbers /\ d.node[f[2]].type = "nat" /\ NodeStep(t, d, e, f[2])
  BY <1>2, <1>4, LearnStep DEF S
<1> HIDE DEF e
<1>6. /\ DOMAIN dp' = Threads /\ dp' = [u \in Threads |-> dp'[u]]
      /\ \A u \in Threads : GoodThread(u, dp'[u])
      /\ \A u \in Threads : Seen(u, dp[u]) \subseteq Seen(u, dp'[u])
  <2>1. CASE e = d
    <3>1. dp' = dp
      BY <2>1, <1>1, <1>2
    <3> QED BY <3>1, <1>2
  <2>2. CASE f[2] \in Numbers /\ d.node[f[2]].type = "nat" /\ NodeStep(t, d, e, f[2])
    BY <2>2, <1>1, NodeFrame
  <2> QED BY <1>5, <2>1, <2>2
<1>7. hand' = [u \in Threads |-> hand'[u]]
  BY <1>1, <1>2
<1>8. Shapes'
  BY <1>1, <1>6, <1>7 DEF NatInv, Shapes
<1>9. ASSUME NEW u \in Threads PROVE Translations(u)'
  <2>1. CASE u # t
    <3>1. hand'[u] = hand[u]
      BY <2>1, <1>1, <1>2
    <3> QED BY <3>1, <1>1, <1>2, <1>6, TranslationsFrame
  <2>2. CASE u = t
    <3> DEFINE T == Seen(t, dp'[t])
    <3>1. S \subseteq T
      BY <1>6 DEF S
    <3> HIDE DEF T
    <3>2. /\ Seq(S) \subseteq Seq(T) /\ Seq(Seq(S)) \subseteq Seq(Seq(T))
          /\ [infos : Seq(S), old : BOOLEAN] \subseteq [infos : Seq(T), old : BOOLEAN]
      BY <3>1, CarriersMonotone
    <3>3. hand'[t] \in Seq(T)
      BY <3>2, <1>1, <1>2, <1>4
    <3>6. cur[t] \in [infos : Seq(S), old : BOOLEAN] /\ ring[t] \in Seq(Seq(S))
      BY <1>2 DEF Translations, S
    <3>7. cur'[t] \in [infos : Seq(T), old : BOOLEAN] /\ ring'[t] \in Seq(Seq(T))
      BY <3>2, <3>6, <1>1, Zenon
    <3> QED BY <2>2, <3>3, <3>7 DEF Translations, T
  <2> QED BY <2>1, <2>2
<1>10. \A u \in Threads : Sizes(u)'
  BY <1>1, <1>2 DEF Sizes
<1>11. ASSUME NEW g \in Flows PROVE InNet(g)'
  <2>1. InNet(g) /\ g[1] \in Threads
    BY DEF NatInv, Flows
  <2> QED BY <2>1, <1>1, <1>6 DEF InNet
<1> QED BY <1>6, <1>8, <1>9, <1>10, <1>11 DEF NatInv

LEMMA CheckMsgsInv ==
  ASSUME NatInv, NEW t \in Threads, check_msgs(t)
  PROVE  NatInv'
<1>1. UNCHANGED <<dp, net, dups, cur, flushes, tries, exited>>
  BY DEF check_msgs, rx
<1>2. /\ busy \in [Threads -> BOOLEAN] /\ hand = [u \in Threads |-> hand[u]]
      /\ ring = [u \in Threads |-> ring[u]]
      /\ \A u \in Threads : Translations(u) /\ Sizes(u)
  BY DEF NatInv, Shapes
<1> DEFINE S == Seen(t, dp[t])
<1>3. ring[t] \in Seq(Seq(S)) /\ hand[t] \in Seq(S) /\ Len(ring[t]) <= RingSize
  BY <1>2 DEF Translations, Sizes
<1> HIDE DEF S
<1>4. /\ busy' \in [Threads -> BOOLEAN] /\ hand' = [u \in Threads |-> hand'[u]]
      /\ ring' = [u \in Threads |-> ring'[u]]
      /\ \A u \in Threads : u # t => hand'[u] = hand[u] /\ ring'[u] = ring[u]
      /\ ring'[t] \in Seq(Seq(S)) /\ hand'[t] \in Seq(S) /\ Len(ring'[t]) <= RingSize
  <2>1. CASE /\ ring[t] # <<>>
             /\ busy' = [busy EXCEPT ![t] = TRUE]
             /\ hand' = [hand EXCEPT ![t] = Head(ring[t])]
             /\ ring' = [ring EXCEPT ![t] = Tail(@)]
    <3>1. busy' \in [Threads -> BOOLEAN]
      BY <2>1, <1>2
    <3>2. /\ hand' = [u \in Threads |-> hand'[u]] /\ hand'[t] = Head(ring[t])
          /\ \A u \in Threads : u # t => hand'[u] = hand[u]
      BY <2>1, <1>2
    <3>3. /\ ring' = [u \in Threads |-> ring'[u]] /\ ring'[t] = Tail(ring[t])
          /\ \A u \in Threads : u # t => ring'[u] = ring[u]
      BY <2>1, <1>2
    <3> DEFINE SS == Seq(S)
    <3>4. ring[t] \in Seq(SS)
      BY <1>3
    <3> HIDE DEF SS
    <3>5. Head(ring[t]) \in SS /\ Tail(ring[t]) \in Seq(SS)
          /\ Len(Tail(ring[t])) = Len(ring[t]) - 1 /\ Len(ring[t]) \in Nat
      BY <2>1, <3>4
    <3>6. Len(ring'[t]) <= RingSize
      BY <3>3, <3>5, <1>3, Constants
    <3> QED BY <3>1, <3>2, <3>3, <3>5, <3>6 DEF SS
  <2>2. CASE busy' = [busy EXCEPT ![t] = FALSE] /\ UNCHANGED <<hand, ring>>
    BY <2>2, <1>2, <1>3
  <2> QED BY <2>1, <2>2 DEF check_msgs
<1>5. Shapes'
  BY <1>1, <1>4 DEF NatInv, Shapes
<1>6. \A u \in Threads : GoodThread(u, dp'[u])
  BY <1>1 DEF NatInv
<1>7. ASSUME NEW u \in Threads PROVE Translations(u)' /\ Sizes(u)'
  <2>1. CASE u # t
    BY <2>1, <1>1, <1>2, <1>4 DEF Translations, Sizes
  <2>2. CASE u = t
    <3>1. cur[t] \in [infos : Seq(Seen(t, dp[t])), old : BOOLEAN] /\ Sizes(t)
      BY <1>2 DEF Translations
    <3> QED BY <2>2, <3>1, <1>1, <1>4 DEF Translations, Sizes, S
  <2> QED BY <2>1, <2>2
<1>8. \A f \in Flows : InNet(f)'
  BY <1>1 DEF NatInv, InNet
<1> QED BY <1>5, <1>6, <1>7, <1>8 DEF NatInv

(***************************************************************************)
(* A new flow: what is under way is not of the flow whose short id it      *)
(* takes over.                                                             *)
(***************************************************************************)
LEMMA TemplateFacts ==
  ASSUME NEW tpl \in Templates
  PROVE  tpl \in Seq(Packets) /\ tpl # <<>> /\ Head(tpl) = "i" /\ Suffix(tpl)
<1>1. tpl \in Seq(Packets) /\ Len(tpl) > 0 /\ tpl[1] = "i" /\ Len(tpl) \in Nat
  BY NatAssumption DEF Packets
<1>2. tpl # <<>> /\ Head(tpl) = "i"
  BY <1>1
<1>3. SubSeq(tpl, 1, Len(tpl)) = tpl
  BY <1>1
<1>4. 1 \in 1 .. Len(tpl) + 1
  BY <1>1
<1> QED BY <1>1, <1>2, <1>3, <1>4 DEF Suffix

FirstNode(tpl) == [NoNode EXCEPT !.type = "pkt", !.pkts = tpl]
NatNode(tpl)   == [FirstNode(tpl) EXCEPT !.type = "nat", !.nat = 1]
Bare(d, n, tpl) == [d EXCEPT !.made = n, !.node[n] = FirstNode(tpl)]
Made(d, n, tpl) ==
  IF BiDirectional(tpl)
  THEN [associate(Bare(d, n, tpl), n) EXCEPT !.node[n].type = "nat", !.node[n].nat = 1]
  ELSE Bare(d, n, tpl)

LEMMA NewNodes ==
  ASSUME NEW f, NEW tpl \in Templates
  PROVE  /\ FirstNode(tpl) \in NodeRec /\ NatNode(tpl) \in NodeRec
         /\ FirstNode(tpl).type = "pkt" /\ NatNode(tpl).type = "nat"
         /\ ~BiDirectional(tpl) => GoodNode(FirstNode(tpl), f)
         /\ BiDirectional(tpl) => GoodNode(NatNode(tpl), f)
<1> DEFINE p == FirstNode(tpl)
           w == NatNode(tpl)
<1>1. tpl \in Seq(Packets) /\ tpl # <<>> /\ Head(tpl) = "i" /\ Suffix(tpl)
  BY TemplateFacts
<1>2. NoNode \in NodeRec /\ NoNode.nat = 0 /\ NoNode.ext = None /\ NoNode.replied = {}
  BY DEF NoNode, NodeRec, None
<1>3. /\ p \in NodeRec /\ p.type = "pkt" /\ p.nat = NoNode.nat /\ p.pkts = tpl
      /\ p.ext = NoNode.ext /\ p.replied = NoNode.replied
  BY <1>1, <1>2, NodeParts DEF FirstNode, NodeRec
<1>4. /\ p \in NodeRec /\ p.type = "pkt" /\ p.nat = 0 /\ p.pkts = tpl /\ p.ext = None
      /\ p.replied = {}
  BY <1>2, <1>3
<1>5. /\ w \in NodeRec /\ w.type = "nat" /\ w.nat = 1 /\ w.pkts = tpl /\ w.ext = None
      /\ w.replied = {}
  <2>1. w = [p EXCEPT !.type = "nat", !.nat = 1]
    BY DEF NatNode
  <2>2. p \in NodeRec
    BY <1>4
  <2> HIDE DEF p
  <2> DEFINE u == [p EXCEPT !.type = "nat"]
  <2>3. /\ u \in NodeRec /\ u.type = "nat" /\ u.pkts = p.pkts /\ u.ext = p.ext
        /\ u.replied = p.replied
    BY <2>2, NodeParts DEF NodeRec
  <2>4. w = [u EXCEPT !.nat = 1]
    BY <2>1
  <2> HIDE DEF u, w
  <2>5. /\ w \in NodeRec /\ w.type = u.type /\ w.nat = 1 /\ w.pkts = u.pkts /\ w.ext = u.ext
        /\ w.replied = u.replied
    BY <2>3, <2>4, NodeParts DEF NodeRec
  <2> QED BY <1>4, <2>3, <2>5
<1> HIDE DEF p, w
<1>6. ~BiDirectional(tpl) => GoodNode(p, f)
  BY <1>1, <1>4 DEF GoodNode
<1>7. BiDirectional(tpl) => GoodNode(w, f)
  BY <1>1, <1>5 DEF GoodNode
<1> QED BY <1>4, <1>5, <1>6, <1>7 DEF p, w

LEMMA MadeIs ==
  ASSUME NEW d \in ThreadRec, NEW n \in Numbers, NEW tpl \in Templates,
         d.bad = {}, d.lookup[get_short_fid(n)] = 0
  PROVE  Made(d, n, tpl) =
           NewThread(d, n, IF BiDirectional(tpl) THEN NatNode(tpl) ELSE FirstNode(tpl))
<1> DEFINE p == FirstNode(tpl)
           w == NatNode(tpl)
           i == get_short_fid(n)
           d1 == Bare(d, n, tpl)
           g == [d.node EXCEPT ![n] = p]
           l == [d.lookup EXCEPT ![i] = n]
<1>1. /\ d = [made |-> d.made, node |-> d.node, lookup |-> d.lookup, bad |-> d.bad]
      /\ d.node \in [Numbers -> NodeRec] /\ d.lookup \in [Fids -> 0 .. MaxFlows]
      /\ i \in Fids
  BY ThreadParts, FidType, Numbered
<1>2. p \in NodeRec /\ w \in NodeRec /\ p.type = "pkt" /\ w.type = "nat"
  BY NewNodes
<1>w. w = [p EXCEPT !.type = "nat", !.nat = 1]
  BY DEF NatNode
<1> HIDE DEF p, w, i
<1>3. d1 = [made |-> n, node |-> g, lookup |-> d.lookup, bad |-> d.bad]
  <2>1. d1 = [d EXCEPT !.made = n, !.node[n] = p]
    BY DEF Bare, p
  <2> HIDE DEF d1
  <2> QED BY <1>1, <2>1
<1>4. CASE ~BiDirectional(tpl)
  <2>1. Made(d, n, tpl) = d1
    BY <1>4 DEF Made
  <2>2. NewThread(d, n, p) = [made |-> n, node |-> g, lookup |-> d.lookup, bad |-> {}]
    BY <1>2 DEF NewThread
  <2>3. Made(d, n, tpl) = NewThread(d, n, p)
    BY <2>1, <2>2, <1>3
  <2> QED BY <2>3, <1>4 DEF p
<1>5. CASE BiDirectional(tpl)
  <2> DEFINE c == [made |-> n, node |-> g, lookup |-> l, bad |-> {}]
  <2>1. g[n] = p /\ g \in [Numbers -> NodeRec] /\ [g EXCEPT ![n] = w] = [d.node EXCEPT ![n] = w]
    BY <1>1, <1>2
  <2> HIDE DEF g, d1
  <2>2. d1.lookup = d.lookup /\ d1.bad = {}
    BY <1>3
  <2>3. Failed(d1, "associate", d1.lookup[i] = 0) = {}
    BY <2>2 DEF Failed, i
  <2>4. associate(d1, n) = [d1 EXCEPT !.lookup[i] = n, !.bad = {}]
    BY <2>3 DEF associate, i
  <2>5. associate(d1, n) = c
    BY <2>4, <1>1, <1>3
  <2> DEFINE p1 == [p EXCEPT !.type = "nat"]
             g1 == [g EXCEPT ![n] = p1]
             c1 == [made |-> n, node |-> g1, lookup |-> l, bad |-> {}]
             g2 == [g EXCEPT ![n] = w]
             c2 == [made |-> n, node |-> g2, lookup |-> l, bad |-> {}]
  <2>6. [g EXCEPT ![n].type = "nat"] = g1
    BY <2>1
  <2>7. [p1 EXCEPT !.nat = 1] = w
    BY <1>w
  <2>8. g1[n] = p1 /\ [g1 EXCEPT ![n] = w] = g2
    <3> HIDE DEF p1
    <3> QED BY <2>1
  <2> HIDE DEF p1, g1, g2, l
  <2>9. [g1 EXCEPT ![n].nat = 1] = g2
    <3>1. [g1 EXCEPT ![n].nat = 1] = [g1 EXCEPT ![n] = [g1[n] EXCEPT !.nat = 1]]
      OBVIOUS
    <3> QED BY <3>1, <2>7, <2>8
  <2>10. [c EXCEPT !.node[n].type = "nat"] = c1
    BY <2>6
  <2>11. [c1 EXCEPT !.node[n].nat = 1] = c2
    BY <2>9
  <2>12. Made(d, n, tpl) = [c EXCEPT !.node[n].type = "nat", !.node[n].nat = 1]
    BY <2>5, <1>5 DEF Made, d1
  <2> HIDE DEF c, c1
  <2>13. Made(d, n, tpl) = c2
    <3>1. [c EXCEPT !.node[n].type = "nat", !.node[n].nat = 1]
            = [[c EXCEPT !.node[n].type = "nat"] EXCEPT !.node[n].nat = 1]
      OBVIOUS
    <3> QED BY <2>10, <2>11, <2>12, <3>1
  <2>14. c2 = NewThread(d, n, w)
    BY <1>2, <2>1 DEF NewThread, l, g2, i
  <2> QED BY <2>13, <2>14, <1>5 DEF w
<1> QED BY <1>4, <1>5

LEMMA GenerateFlowInv ==
  ASSUME NatInv, NEW t \in Threads, NEW tpl \in Templates, generate_flow(t, tpl)
  PROVE  NatInv'
<1> DEFINE d == dp[t]
           n == d.made + 1
           e == Made(d, n, tpl)
           w == IF BiDirectional(tpl) THEN NatNode(tpl) ELSE FirstNode(tpl)
           S == Seen(t, d)
           T == Seen(t, dp'[t])
<1>1. /\ n \in Numbers /\ WrapIsSlow(t, n) /\ dp' = [dp EXCEPT ![t] = e]
      /\ UNCHANGED <<busy, hand, net, dups, cur, flushes, tries, ring, exited>>
  BY DEF generate_flow, Made, Bare, FirstNode, thr, rx
<1>2. /\ GoodThread(t, d) /\ d \in ThreadRec /\ d.bad = {}
      /\ \A u \in Threads : Translations(u) /\ Sizes(u)
  BY DEF NatInv, GoodThread
<1> HIDE DEF n
<1>3. n = d.made + 1 /\ n \in Nat /\ d.made \in Nat
  BY <1>1, <1>2, ThreadParts, Numbered DEF n
<1>4. ASSUME NEW k \in Numbers, k <= d.made, Latest(d, k),
             get_short_fid(k) = get_short_fid(n)
      PROVE  d.node[k].type = "free" /\ net[<<t, k>>] = 0 /\ ~InTransfer(<<t, k>>)
  <2>1. n > FidMod /\ k = n - FidMod
    BY <1>1, <1>2, <1>3, <1>4, OnlyTheLast
  <2> QED BY <2>1, <1>1 DEF WrapIsSlow
<1>5. \A k \in Numbers : k <= d.made /\ d.node[k].type # "free"
                           => get_short_fid(k) # get_short_fid(n)
  BY <1>2, <1>4 DEF GoodThread
<1>6. d.lookup[get_short_fid(n)] = 0
  <2> DEFINE i == get_short_fid(n)
             k == d.lookup[i]
  <2>1. i \in Fids /\ k \in 0 .. MaxFlows
    BY <1>2, <1>3, FidType, ThreadParts
  <2>2. CASE k # 0
    <3>1. k <= d.made /\ get_short_fid(k) = i /\ d.node[k].type = "nat"
      BY <2>1, <2>2, <1>2 DEF GoodThread
    <3>2. k \in Numbers
      BY <2>1, <2>2, Constants DEF Numbers
    <3> QED BY <3>1, <3>2, <1>5
  <2> QED BY <2>2
<1>7. e = NewThread(d, n, w)
  BY <1>1, <1>2, <1>6, MadeIs
<1>8. GoodNode(w, <<t, n>>)
  BY NewNodes
<1> HIDE DEF e, w
<1>9. /\ GoodThread(t, e)
      /\ \A f \in S : get_short_fid(f[2]) # get_short_fid(n) => f \in Seen(t, e)
  BY <1>1, <1>2, <1>3, <1>5, <1>7, <1>8, NewFlowGood
<1>10. /\ DOMAIN dp' = Threads /\ dp' = [u \in Threads |-> dp'[u]] /\ dp'[t] = e
       /\ \A u \in Threads : u # t => dp'[u] = dp[u]
       /\ \A u \in Threads : GoodThread(u, dp'[u])
  BY <1>1, <1>9, ThreadFrame
<1>11. ASSUME NEW f \in S, net[f] # 0 \/ InTransfer(f)
       PROVE  f \in T
  <2>1. /\ f \in Flows /\ f = <<t, f[2]>> /\ f[2] \in Numbers /\ f[2] <= d.made
        /\ Latest(d, f[2])
    BY DEF S, Seen, Flows
  <2>2. get_short_fid(f[2]) # get_short_fid(n)
    BY <2>1, <1>4, <1>11
  <2> QED BY <2>2, <1>9, <1>10
<1>12. Shapes'
  BY <1>1, <1>10 DEF NatInv, Shapes
<1>13. \A u \in Threads : Sizes(u)'
  BY <1>1, <1>2 DEF Sizes
<1>14. ASSUME NEW f \in Flows PROVE InNet(f)'
  <2>1. InNet(f) /\ f[1] \in Threads
    BY DEF NatInv, Flows
  <2>2. CASE f[1] # t
    BY <2>1, <2>2, <1>1, <1>10 DEF InNet
  <2>3. CASE f[1] = t
    <3>1. net[f] > 0 => f \in S
      BY <2>1, <2>3 DEF InNet
    <3>2. net[f] > 0 => f \in T
      BY <2>1, <3>1, <1>11 DEF InNet
    <3>3. net'[f] = net[f] /\ dups' = dups
      BY <1>1
    <3> QED BY <2>1, <2>3, <3>2, <3>3 DEF InNet
  <2> QED BY <2>2, <2>3
<1>15. ASSUME NEW u \in Threads PROVE Translations(u)'
  <2>1. CASE u # t
    <3>1. dp'[u] = dp[u]
      BY <2>1, <1>10
    <3> QED BY <3>1, <1>1, <1>2, TranslationsFrame
  <2>2. CASE u = t
    <3>1. /\ cur[t] \in [infos : Seq(S), old : BOOLEAN]
          /\ ring[t] \in Seq(Seq(S)) /\ hand[t] \in Seq(S)
      BY <1>2 DEF Translations
    <3>2. \A f \in S : f[1] = t
      BY DEF S, Seen
    <3> HIDE DEF S, T
    <3>3. cur[t].infos \in Seq(S) /\ cur[t].old \in BOOLEAN
          /\ cur[t] = [infos |-> cur[t].infos, old |-> cur[t].old]
      BY <3>1
    <3>4. cur[t].infos \in Seq(T)
      <4>1. ASSUME NEW i \in DOMAIN cur[t].infos PROVE cur[t].infos[i] \in T
        <5> DEFINE f == cur[t].infos[i]
        <5>1. f \in S
          BY <3>3
        <5>2. f \in Range(cur[t].infos)
          BY DEF Range
        <5>3. InTransfer(f)
          BY <5>1, <5>2, <3>2 DEF InTransfer
        <5> QED BY <5>1, <5>3, <1>11
      <4> QED BY <3>3, <4>1, SeqInto
    <3>5. hand[t] \in Seq(T)
      <4>1. ASSUME NEW i \in DOMAIN hand[t] PROVE hand[t][i] \in T
        <5> DEFINE f == hand[t][i]
        <5>1. f \in S
          BY <3>1
        <5>2. f \in Range(hand[t])
          BY DEF Range
        <5>3. InTransfer(f)
          BY <5>1, <5>2, <3>2 DEF InTransfer
        <5> QED BY <5>1, <5>3, <1>11
      <4> QED BY <3>1, <4>1, SeqInto
    <3>6. ring[t] \in Seq(Seq(T))
      <4>1. ASSUME NEW j \in DOMAIN ring[t] PROVE ring[t][j] \in Seq(T)
        <5> DEFINE s == ring[t][j]
        <5>1. s \in Seq(S)
          BY <3>1
        <5>2. ASSUME NEW i \in DOMAIN s PROVE s[i] \in T
          <6>1. s[i] \in S
            BY <5>1
          <6>2. s[i] \in Range(s)
            BY DEF Range
          <6>3. InTransfer(s[i])
            BY <6>1, <6>2, <3>2 DEF InTransfer
          <6> QED BY <6>1, <6>3, <1>11
        <5> HIDE DEF s
        <5>3. s \in Seq(T)
          BY <5>1, <5>2, SeqInto
        <5> QED BY <5>3 DEF s
      <4> DEFINE SS == Seq(S)
                 TT == Seq(T)
      <4>2. ring[t] \in Seq(SS) /\ \A j \in DOMAIN ring[t] : ring[t][j] \in TT
        BY <3>1, <4>1
      <4> HIDE DEF SS, TT
      <4>3. ring[t] \in Seq(TT)
        BY <4>2, SeqInto
      <4> QED BY <4>3 DEF TT
    <3>7. cur[t] \in [infos : Seq(T), old : BOOLEAN]
      BY <3>3, <3>4
    <3> QED BY <2>2, <3>5, <3>6, <3>7, <1>1 DEF Translations, T
  <2> QED BY <2>1, <2>2
<1> QED BY <1>10, <1>12, <1>13, <1>14, <1>15 DEF NatInv
-----------------------------------------------------------------------------
(***************************************************************************)
(* The device and the RX thread.                                           *)
(***************************************************************************)
(* A step that leaves the threads alone: what is left to show. *)
LEMMA ThreadsSame ==
  ASSUME NatInv, dp' = dp, Shapes', \A t \in Threads : Translations(t)' /\ Sizes(t)',
         \A f \in Flows : InNet(f)'
  PROVE  NatInv'
BY DEF NatInv

LEMMA NetParts ==
  ASSUME NatInv
  PROVE  /\ net = [f \in Flows |-> net[f]] /\ \A f \in Flows : InNet(f)
         /\ \A f \in Flows : net[f] \in Nat
         /\ dups \in Nat /\ dups <= MaxDups
<1>1. net = [f \in Flows |-> net[f]] /\ (\A f \in Flows : InNet(f)) /\ dups \in 0 .. MaxDups
  BY DEF NatInv, Shapes
<1>2. \A f \in Flows : net[f] \in Nat
  BY <1>1 DEF InNet
<1> QED BY <1>1, <1>2, Constants

LEMMA LoseInv ==
  ASSUME NatInv, NEW g \in Flows, Lose(g)
  PROVE  NatInv'
<1>1. /\ net[g] > 0 /\ net' = [net EXCEPT ![g] = @ - 1]
      /\ UNCHANGED <<dp, busy, hand, dups, cur, flushes, tries, ring, exited>>
  BY DEF Lose, thr, rx
<1>2. ASSUME NEW f \in Flows PROVE InNet(f)'
  <2>1. InNet(f) /\ net'[f] \in Nat /\ net'[f] <= net[f] /\ net[f] \in Nat /\ dups \in Nat
    BY <1>1, NetParts
  <2>2. net'[f] <= 1 + dups /\ (net'[f] > 0 => net[f] > 0)
    BY <2>1 DEF InNet
  <2> QED BY <2>1, <2>2, <1>1 DEF InNet
<1>3. net' = [f \in Flows |-> net'[f]]
  BY <1>1, NetParts
<1>4. Shapes'
  BY <1>1, <1>3 DEF NatInv, Shapes
<1>5. \A t \in Threads : Translations(t)' /\ Sizes(t)'
  BY <1>1 DEF NatInv, Translations, Sizes
<1> QED BY <1>1, <1>2, <1>4, <1>5, ThreadsSame

LEMMA DuplicateInv ==
  ASSUME NatInv, NEW g \in Flows, Duplicate(g)
  PROVE  NatInv'
<1>1. /\ net[g] > 0 /\ dups < MaxDups
      /\ net' = [net EXCEPT ![g] = @ + 1] /\ dups' = dups + 1
      /\ UNCHANGED <<dp, busy, hand, cur, flushes, tries, ring, exited>>
  BY DEF Duplicate, thr, rx
<1>2. ASSUME NEW f \in Flows PROVE InNet(f)'
  <2>1. InNet(f) /\ net[f] \in Nat /\ net'[f] \in Nat /\ dups \in Nat /\ dups' = dups + 1
        /\ net'[f] <= net[f] + 1 /\ (net'[f] > 0 => net[f] > 0)
    BY <1>1, NetParts
  <2>2. net'[f] <= 1 + dups'
    BY <2>1 DEF InNet
  <2> QED BY <2>1, <2>2, <1>1 DEF InNet
<1>3. net' = [f \in Flows |-> net'[f]] /\ dups' \in 0 .. MaxDups
  <2>1. net' = [f \in Flows |-> net'[f]]
    BY <1>1, NetParts
  <2>2. dups' \in 0 .. MaxDups
    <3>1. dups \in Nat /\ dups < MaxDups /\ dups' = dups + 1
      BY <1>1, NetParts
    <3> QED BY <3>1, Constants
  <2> QED BY <2>1, <2>2
<1>4. Shapes'
  BY <1>1, <1>3 DEF NatInv, Shapes
<1>5. \A t \in Threads : Translations(t)' /\ Sizes(t)'
  BY <1>1 DEF NatInv, Translations, Sizes
<1> QED BY <1>1, <1>2, <1>4, <1>5, ThreadsSame

(* Between two flushes no batch is full. *)
LEMMA RoomInBatch ==
  ASSUME NatInv, flushes = <<>>, NEW t \in Threads
  PROVE  Len(cur[t].infos) < Batch /\ Len(cur[t].infos) \in Nat
<1>1. Sizes(t) /\ Translations(t)
  BY DEF NatInv
<1>2. cur[t].infos \in Seq(Seen(t, dp[t]))
  BY <1>1 DEF Translations
<1>3. Len(cur[t].infos) \in Nat
  BY <1>2
<1>4. ~\E i \in DOMAIN flushes : flushes[i] = t
  <2>1. flushes \in Seq(Threads) /\ Len(flushes) = 0
    BY DEF NatInv, Shapes
  <2>2. DOMAIN flushes = {}
    BY <2>1
  <2> QED BY <2>2
<1>5. Len(cur[t].infos) <= Batch /\ Len(cur[t].infos) # Batch
  BY <1>1, <1>4 DEF Sizes
<1> QED BY <1>3, <1>5, Constants

LEMMA HandlePacketInv ==
  ASSUME NatInv, NEW g \in Flows, handle_packet_ipv4(g)
  PROVE  NatInv'
<1> DEFINE t == g[1]
           infos == IF IsNatInfoPkt(g) THEN Append(cur[t].infos, g) ELSE cur[t].infos
           S == Seen(t, dp[t])
<1>1. /\ flushes = <<>> /\ net[g] > 0 /\ net' = [net EXCEPT ![g] = @ - 1]
      /\ cur' = [cur EXCEPT ![t].infos = infos]
      /\ flushes' = (IF is_full(infos) THEN <<t>> ELSE <<>>)
      /\ UNCHANGED <<dp, busy, hand, dups, tries, ring, exited>>
  BY DEF handle_packet_ipv4, thr
<1>2. t \in Threads
  BY DEF Flows
<1>3. g \in S /\ cur[t] \in [infos : Seq(S), old : BOOLEAN]
  BY <1>1, <1>2, NetParts DEF NatInv, InNet, Translations
<1>4. cur = [u \in Threads |-> cur[u]] /\ \A u \in Threads : Translations(u) /\ Sizes(u)
  BY DEF NatInv, Shapes
<1> HIDE DEF S
<1>5. infos \in Seq(S) /\ (Len(infos) = Len(cur[t].infos) \/ Len(infos) = Len(cur[t].infos) + 1)
  BY <1>3
<1> HIDE DEF infos
<1>6. /\ cur' = [u \in Threads |-> cur'[u]]
      /\ cur'[t] = [infos |-> infos, old |-> cur[t].old]
      /\ \A u \in Threads : u # t => cur'[u] = cur[u]
  BY <1>1, <1>2, <1>3, <1>4
<1>7. flushes' \in Seq(Threads)
  BY <1>1, <1>2
<1>8. net' = [f \in Flows |-> net'[f]]
  BY <1>1, NetParts
<1>9. Shapes'
  BY <1>1, <1>6, <1>7, <1>8 DEF NatInv, Shapes
<1>10. ASSUME NEW f \in Flows PROVE InNet(f)'
  <2>1. InNet(f) /\ net'[f] \in Nat /\ net'[f] <= net[f] /\ net[f] \in Nat /\ dups \in Nat
    BY <1>1, NetParts
  <2>2. net'[f] <= 1 + dups /\ (net'[f] > 0 => net[f] > 0)
    BY <2>1 DEF InNet
  <2> QED BY <2>1, <2>2, <1>1 DEF InNet
<1>11. ASSUME NEW u \in Threads PROVE Translations(u)' /\ Sizes(u)'
  <2>1. CASE u # t
    <3>1. cur'[u] = cur[u]
      BY <2>1, <1>6
    <3>2. Translations(u)'
      BY <3>1, <1>1, <1>4, TranslationsFrame
    <3>3. Len(cur[u].infos) < Batch /\ Len(cur[u].infos) \in Nat
      BY <1>1, RoomInBatch
    <3>4. Len(cur'[u].infos) <= Batch /\ Len(cur'[u].infos) # Batch
      BY <3>1, <3>3, Constants
    <3>5. Len(ring'[u]) <= RingSize
      BY <1>1, <1>4 DEF Sizes
    <3> QED BY <3>2, <3>4, <3>5 DEF Sizes
  <2>2. CASE u = t
    <3>1. cur'[t] \in [infos : Seq(S), old : BOOLEAN] /\ cur'[t].infos = infos
      BY <1>3, <1>5, <1>6
    <3>2. ring[t] \in Seq(Seq(S)) /\ hand[t] \in Seq(S)
      BY <1>2, <1>4 DEF Translations, S
    <3>3. Translations(u)'
      BY <2>2, <3>1, <3>2, <1>1 DEF Translations, S
    <3>4. Len(cur[t].infos) < Batch /\ Len(cur[t].infos) \in Nat
      BY <1>1, <1>2, RoomInBatch
    <3>5. Len(cur'[t].infos) <= Batch
      BY <3>1, <3>4, <1>5, Constants
    <3>6. Len(cur'[t].infos) = Batch => \E i \in DOMAIN flushes' : flushes'[i] = t
      <4>1. CASE is_full(infos)
        <5>1. flushes' = <<t>>
          BY <4>1, <1>1
        <5> QED BY <5>1
      <4>2. CASE ~is_full(infos)
        BY <4>2, <3>1 DEF is_full
      <4> QED BY <4>1, <4>2
    <3>7. Len(ring'[t]) <= RingSize
      BY <1>1, <1>2, <1>4 DEF Sizes
    <3> QED BY <2>2, <3>3, <3>5, <3>6, <3>7 DEF Sizes
  <2> QED BY <2>1, <2>2
<1> QED BY <1>1, <1>9, <1>10, <1>11, ThreadsSame

LEMMA ExpireInv ==
  ASSUME NatInv, NEW t \in Threads, Expire(t)
  PROVE  NatInv'
<1>1. /\ cur' = [cur EXCEPT ![t].old = TRUE]
      /\ UNCHANGED <<dp, busy, hand, net, dups, flushes, tries, ring, exited>>
  BY DEF Expire, thr
<1>2. cur = [u \in Threads |-> cur[u]] /\ \A u \in Threads : Translations(u) /\ Sizes(u)
  BY DEF NatInv, Shapes
<1>3. ASSUME NEW u \in Threads
      PROVE  cur'[u].infos = cur[u].infos /\ Translations(u)'
  <2> DEFINE S == Seen(u, dp[u])
  <2>1. cur[u] \in [infos : Seq(S), old : BOOLEAN] /\ ring[u] \in Seq(Seq(S)) /\ hand[u] \in Seq(S)
    BY <1>2 DEF Translations
  <2> HIDE DEF S
  <2>2. cur'[u].infos = cur[u].infos /\ cur'[u] \in [infos : Seq(S), old : BOOLEAN]
    BY <2>1, <1>1, <1>2
  <2> QED BY <2>1, <2>2, <1>1 DEF Translations, S
<1>4. cur' = [u \in Threads |-> cur'[u]]
  BY <1>1, <1>2
<1>5. Shapes'
  BY <1>1, <1>4 DEF NatInv, Shapes
<1>6. \A u \in Threads : Sizes(u)'
  BY <1>1, <1>2, <1>3 DEF Sizes
<1>7. \A f \in Flows : InNet(f)'
  BY <1>1 DEF NatInv, InNet
<1> QED BY <1>1, <1>3, <1>5, <1>6, <1>7, ThreadsSame

LEMMA AgedFinite == IsFiniteSet(Aged) /\ Cardinality(Aged) \in Nat
<1>1. IsFiniteSet(Threads)
  BY FS_Interval, Constants DEF Threads
<1>2. Aged \subseteq Threads
  BY DEF Aged
<1> QED BY <1>1, <1>2, FS_Subset, FS_CardinalityType

LEMMA HandleAgingInv ==
  ASSUME NatInv, handle_aging
  PROVE  NatInv'
<1>1. /\ flushes = <<>> /\ flushes' \in InOrder(Aged)
      /\ UNCHANGED <<dp, busy, hand, net, dups, cur, tries, ring, exited>>
  BY DEF handle_aging, thr
<1>2. flushes' \in Seq(Threads)
  <2> DEFINE c == Cardinality(Aged)
  <2>1. c \in Nat
    BY AgedFinite
  <2>2. flushes' \in [1 .. c -> Aged]
    BY <1>1 DEF InOrder
  <2>3. Aged \subseteq Threads
    BY DEF Aged
  <2> HIDE DEF c
  <2> QED BY <2>1, <2>2, <2>3
<1>3. Shapes'
  BY <1>1, <1>2 DEF NatInv, Shapes
<1>4. ASSUME NEW t \in Threads PROVE Translations(t)' /\ Sizes(t)'
  <2>1. Translations(t) /\ Sizes(t)
    BY DEF NatInv
  <2>2. Len(cur[t].infos) < Batch /\ Len(cur[t].infos) \in Nat
    BY <1>1, RoomInBatch
  <2>3. Len(cur[t].infos) # Batch
    BY <2>2, Constants
  <2> QED BY <2>1, <2>3, <1>1 DEF Translations, Sizes
<1>5. \A f \in Flows : InNet(f)'
  BY <1>1 DEF NatInv, InNet
<1> QED BY <1>1, <1>3, <1>4, <1>5, ThreadsSame

LEMMA FlushNodeInv ==
  ASSUME NatInv, flush_node
  PROVE  NatInv'
<1> DEFINE t == Head(flushes)
           S == Seen(t, dp[t])
<1>1. ~exited /\ flushes # <<>> /\ UNCHANGED <<dp, busy, hand, net, dups>>
  BY DEF flush_node, thr
<1>2. /\ flushes \in Seq(Threads) /\ cur = [u \in Threads |-> cur[u]]
      /\ ring = [u \in Threads |-> ring[u]] /\ tries \in Nat /\ tries <= MaxRetries
      /\ \A u \in Threads : Translations(u) /\ Sizes(u)
  BY <1>1, Constants DEF NatInv, Shapes
<1>3. t \in Threads
  BY <1>1, <1>2
<1>4. \A f \in Flows : InNet(f)'
  BY <1>1 DEF NatInv, InNet
<1>5. CASE Len(ring[t]) < RingSize
  <2>1. /\ ring' = [ring EXCEPT ![t] = Append(@, cur[t].infos)]
        /\ cur' = [cur EXCEPT ![t] = Empty] /\ flushes' = Tail(flushes)
        /\ tries' = 0 /\ exited' = exited
    BY <1>5 DEF flush_node
  <2>2. /\ ring' = [u \in Threads |-> ring'[u]] /\ ring'[t] = Append(ring[t], cur[t].infos)
        /\ \A u \in Threads : u # t => ring'[u] = ring[u]
    BY <2>1, <1>2, <1>3
  <2>3. /\ cur' = [u \in Threads |-> cur'[u]] /\ cur'[t] = Empty
        /\ \A u \in Threads : u # t => cur'[u] = cur[u]
    BY <2>1, <1>2, <1>3
  <2>4. flushes' \in Seq(Threads)
    BY <2>1, <1>1, <1>2
  <2>5. tries' \in 0 .. MaxRetries + 1 /\ tries' <= MaxRetries
    BY <2>1, Constants
  <2>6. exited' \in BOOLEAN
    BY <2>1 DEF NatInv, Shapes
  <2>7. Shapes'
    BY <2>2, <2>3, <2>4, <2>5, <2>6, <1>1 DEF NatInv, Shapes
  <2>8. ASSUME NEW u \in Threads PROVE Translations(u)' /\ Sizes(u)'
    <3>1. CASE u = t
      <4>1. cur[t] \in [infos : Seq(S), old : BOOLEAN] /\ ring[t] \in Seq(Seq(S))
            /\ hand[t] \in Seq(S)
        BY <1>2, <1>3 DEF Translations
      <4> HIDE DEF S
      <4>2. cur[t].infos \in Seq(S)
        BY <4>1
      <4> DEFINE SS == Seq(S)
      <4>3. ring[t] \in Seq(SS) /\ cur[t].infos \in SS
        BY <4>1, <4>2
      <4> HIDE DEF SS
      <4>4. ring'[t] \in Seq(SS) /\ Len(ring'[t]) = Len(ring[t]) + 1 /\ Len(ring[t]) \in Nat
        BY <4>3, <2>2
      <4>5. Len(ring'[t]) <= RingSize
        BY <4>4, <1>5, Constants
      <4>6. cur'[t] \in [infos : Seq(S), old : BOOLEAN] /\ Len(cur'[t].infos) = 0
        BY <2>3 DEF Empty
      <4>7. Len(cur'[t].infos) <= Batch /\ Len(cur'[t].infos) # Batch
        BY <4>6, Constants
      <4>8. /\ cur'[t] \in [infos : Seq(S), old : BOOLEAN] /\ ring'[t] \in Seq(Seq(S))
            /\ hand'[t] \in Seq(S) /\ S = Seen(u, dp'[u])
        BY <3>1, <4>1, <4>4, <4>6, <1>1 DEF S, SS
      <4>9. /\ cur'[u] \in [infos : Seq(S), old : BOOLEAN] /\ ring'[u] \in Seq(Seq(S))
            /\ hand'[u] \in Seq(S)
        BY <3>1, <4>8
      <4>10. Translations(u)'
        BY <4>8, <4>9 DEF Translations
      <4>11. Len(cur'[u].infos) <= Batch /\ Len(cur'[u].infos) # Batch /\ Len(ring'[u]) <= RingSize
        BY <3>1, <4>5, <4>7
      <4> QED BY <4>10, <4>11 DEF Sizes
    <3>2. CASE u # t
      <4>1. cur'[u] = cur[u] /\ ring'[u] = ring[u]
        BY <3>2, <2>2, <2>3
      <4>2. Translations(u)'
        BY <4>1, <1>1, <1>2, TranslationsFrame
      <4>3. (\E i \in DOMAIN flushes : flushes[i] = u)
              => \E i \in DOMAIN flushes' : flushes'[i] = u
        <5> SUFFICES ASSUME NEW i \in DOMAIN flushes, flushes[i] = u
                     PROVE  \E j \in DOMAIN flushes' : flushes'[j] = u
          OBVIOUS
        <5>1. i \in 1 .. Len(flushes) /\ i # 1
          BY <3>2, <1>1, <1>2
        <5>2. flushes' = Tail(flushes) /\ Len(flushes') = Len(flushes) - 1 /\ Len(flushes) \in Nat
          BY <2>1, <1>1, <1>2
        <5>3. i - 1 \in DOMAIN flushes' /\ flushes'[i - 1] = u
          BY <5>1, <5>2, <1>1, <1>2
        <5> QED BY <5>3
      <4> QED BY <4>1, <4>2, <4>3, <1>2 DEF Sizes
    <3> QED BY <3>1, <3>2
  <2> QED BY <2>7, <2>8, <1>1, <1>4, ThreadsSame
<1>6. CASE ~(Len(ring[t]) < RingSize)
  <2>1. /\ tries' = tries + 1 /\ exited' = (tries' > MaxRetries)
        /\ UNCHANGED <<ring, cur, flushes>>
    BY <1>6 DEF flush_node
  <2>2. tries' \in 0 .. MaxRetries + 1
    BY <2>1, <1>2, Constants
  <2>3. exited' \in BOOLEAN /\ (~exited' => tries' <= MaxRetries)
    <3>1. CASE tries' > MaxRetries
      <4>1. exited' = TRUE
        BY <2>1, <3>1
      <4> QED BY <4>1
    <3>2. CASE ~(tries' > MaxRetries)
      <4> DEFINE x == tries'
      <4>1. x \in Int /\ MaxRetries \in Int /\ ~(x > MaxRetries) /\ exited' = (x > MaxRetries)
        BY <2>1, <2>2, <3>2, Constants
      <4> HIDE DEF x
      <4>2. (x > MaxRetries) = FALSE
        BY <4>1
      <4>3. exited' = FALSE
        BY <4>1, <4>2, Zenon
      <4>4. tries' <= MaxRetries
        BY <2>2, <3>2, Constants
      <4> QED BY <4>3, <4>4
    <3> QED BY <3>1, <3>2
  <2>4. Shapes'
    BY <2>1, <2>2, <2>3, <1>1 DEF NatInv, Shapes
  <2>5. \A u \in Threads : Translations(u)' /\ Sizes(u)'
    BY <2>1, <1>1, <1>2 DEF Translations, Sizes
  <2> QED BY <2>4, <2>5, <1>1, <1>4, ThreadsSame
<1> QED BY <1>5, <1>6
-----------------------------------------------------------------------------
LEMMA NextInv == NatInv /\ [Next]_vars => NatInv'
<1> SUFFICES ASSUME NatInv, [Next]_vars PROVE NatInv'
  OBVIOUS
<1>1. ASSUME NEW t \in Threads, NEW tpl \in Templates, generate_flow(t, tpl) PROVE NatInv'
  BY <1>1, GenerateFlowInv
<1>2. ASSUME NEW t \in Threads, NEW n \in Numbers, HandleNode(t, n) PROVE NatInv'
  BY <1>2, HandleNodeInv
<1>3. ASSUME NEW t \in Threads, check_msgs(t) PROVE NatInv'
  BY <1>3, CheckMsgsInv
<1>4. ASSUME NEW t \in Threads, handel_nat_msg(t) PROVE NatInv'
  BY <1>4, HandelNatMsgInv
<1>5. ASSUME NEW t \in Threads, Expire(t) PROVE NatInv'
  BY <1>5, ExpireInv
<1>6. ASSUME NEW f \in Flows, Lose(f) PROVE NatInv'
  BY <1>6, LoseInv
<1>7. ASSUME NEW f \in Flows, Duplicate(f) PROVE NatInv'
  BY <1>7, DuplicateInv
<1>8. ASSUME NEW f \in Flows, handle_packet_ipv4(f) PROVE NatInv'
  BY <1>8, HandlePacketInv
<1>9. CASE handle_aging
  BY <1>9, HandleAgingInv
<1>10. CASE flush_node
  BY <1>10, FlushNodeInv
<1>11. CASE UNCHANGED vars
  BY <1>11 DEF vars, thr, rx, NatInv, Shapes, Translations, Sizes, InNet
<1> QED BY <1>1, <1>2, <1>3, <1>4, <1>5, <1>6, <1>7, <1>8, <1>9, <1>10, <1>11 DEF Next

(* The invariant that the theorems below follow from: for any number of threads
   and flows, the lookup table, the nodes, the batches and the rings agree, and
   what is under way belongs to the latest flow of its short id. *)
THEOREM NatInvariant == Spec => []NatInv
<1>1. Init => NatInv
  BY InitInv
<1>2. NatInv /\ [Next]_vars => NatInv'
  BY NextInv
<1> QED BY <1>1, <1>2, PTL DEF Spec

(* The lookup table holds exactly the flows that wait for a translation, and no
   batch or ring is ever fuller than its size (associate, terminate_nat_flows,
   handel_nat_msg, is_full, flush_node). *)
THEOREM LookupTableIsExact == Spec => []LookupSound
<1>1. NatInv => LookupSound
  <2> SUFFICES ASSUME NatInv PROVE LookupSound
    OBVIOUS
  <2>1. ASSUME NEW t \in Threads
        PROVE  /\ dp[t].made \in 0 .. MaxFlows
               /\ \A n \in Numbers : NodeOK(dp[t].node[n])
               /\ dp[t].lookup \in [Fids -> 0 .. MaxFlows]
               /\ Len(cur[t].infos) \in 0 .. Batch
               /\ Len(ring[t]) \in 0 .. RingSize
    <3>1. GoodThread(t, dp[t]) /\ Translations(t) /\ Sizes(t)
      BY DEF NatInv
    <3>2. dp[t] \in ThreadRec
      BY <3>1 DEF GoodThread
    <3>3. ASSUME NEW n \in Numbers PROVE NodeOK(dp[t].node[n])
      <4>1. GoodNode(dp[t].node[n], <<t, n>>)
        BY <3>1 DEF GoodThread
      <4> QED BY <4>1 DEF GoodNode, NodeOK, NodeRec, Suffix
    <3> DEFINE S == Seen(t, dp[t])
    <3>4. cur[t] \in [infos : Seq(S), old : BOOLEAN] /\ ring[t] \in Seq(Seq(S))
      BY <3>1 DEF Translations
    <3> HIDE DEF S
    <3>5. Len(cur[t].infos) \in Nat /\ Len(ring[t]) \in Nat
      BY <3>4
    <3>6. Len(cur[t].infos) \in 0 .. Batch /\ Len(ring[t]) \in 0 .. RingSize
      BY <3>1, <3>5, Constants DEF Sizes
    <3> QED BY <3>2, <3>3, <3>6, ThreadParts
  <2>2. net \in [Flows -> 0 .. 1 + MaxDups]
    <3>1. ASSUME NEW f \in Flows PROVE net[f] \in 0 .. 1 + MaxDups
      <4>1. net[f] \in Nat /\ net[f] <= 1 + dups
        BY NetParts DEF InNet
      <4> QED BY <4>1, NetParts, Constants
    <3> QED BY <3>1, NetParts
  <2>3. tries \in 0 .. MaxRetries + 1
    BY DEF NatInv, Shapes
  <2>4. ASSUME NEW t \in Threads, NEW n \in 1 .. dp[t].made
        PROVE  dp[t].node[n].type = "nat" <=> dp[t].lookup[get_short_fid(n)] = n
    <3>1. GoodThread(t, dp[t])
      BY DEF NatInv
    <3>2. dp[t].made \in 0 .. MaxFlows
      BY <3>1, ThreadParts DEF GoodThread
    <3>3. n \in Numbers /\ n # 0
      BY <3>2, Constants DEF Numbers
    <3>4. get_short_fid(n) \in Fids
      BY <3>3, Numbered, FidType
    <3> QED BY <3>1, <3>3, <3>4 DEF GoodThread
  <2> QED BY <2>1, <2>2, <2>3, <2>4 DEF LookupSound, TypeOK, LookupIsExact
<1> QED BY <1>1, NatInvariant, PTL

(* No assert of associate, handle_slow_messages or handel_nat_msg fails, however
   late or often a translation comes. *)
THEOREM NatNeverAsserts == Spec => []NatAssertsHold
<1>1. NatInv => NatAssertsHold
  BY DEF NatInv, GoodThread, NatAssertsHold
<1> QED BY <1>1, NatInvariant, PTL

(* A reply is never sent without a translation or with that of another flow
   (update_pkt_info), though short ids are used again. *)
THEOREM RepliesAreOwn == Spec => []RepliesUseOwn
<1>1. NatInv => RepliesUseOwn
  BY DEF NatInv, GoodThread, GoodNode, RepliesUseOwn
<1> QED BY <1>1, NatInvariant, PTL
=============================================================================
