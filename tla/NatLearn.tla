------------------------------ MODULE NatLearn ------------------------------
(***************************************************************************)
(* The NAT learn mode of the stateful generator (nat_check.cpp and the     *)
(* NAT parts of bp_sim).  A data-path thread sends the first packet of a   *)
(* flow with the flow's short id in it; the receive (RX) thread sees how   *)
(* the device translated it and sends the translation back over a ring, in *)
(* batches; the thread needs it before the flow's first reply is due.      *)
(*                                                                         *)
(* Threads run concurrently with the RX thread.  The device loses,         *)
(* duplicates and delays packets, so the translation may come late, twice  *)
(* or never.  A packet the RX thread cannot use (wrong protocol or thread  *)
(* id) is counted as an error and is lost to the flow all the same.        *)
(*                                                                         *)
(* A flow is <<t, n>>: the n-th flow of thread t; its translation is       *)
(* written as the flow itself.  Repeated flows are not supported with NAT  *)
(* by the code and left out, and so are the latency packets that share the *)
(* ring in one-queue mode.                                                 *)
(***************************************************************************)
EXTENDS Integers, Sequences, SequencesExt, FiniteSets

CONSTANTS
  NThreads,   \* number of data-path threads
  Templates,  \* packets of a flow: sequences of "i" (initiator) and "r" (responder)
  MaxFlows,   \* bound: flows of a thread
  MaxTotal,   \* bound: flows of all threads
  FidMod,     \* NAT_FLOW_ID_MASK + 1
  Batch,      \* MAX_NAT_FLOW_INFO
  RingSize,   \* capacity of a ring
  MaxRetries, \* tries of flush_node after the first
  MaxDups,    \* bound: packets duplicated by the device
  TcpAck      \* LEARN_MODE_TCP_ACK; otherwise an IP option carries the id

ASSUME NatAssumption ==
  /\ {NThreads, MaxFlows, MaxTotal, FidMod, Batch, RingSize} \subseteq Nat \ {0}
  /\ {MaxRetries, MaxDups} \subseteq Nat
  /\ \A tpl \in Templates : tpl \in Seq({"i", "r"}) /\ Len(tpl) > 0 /\ tpl[1] = "i"
  /\ TcpAck \in BOOLEAN

Threads == 0 .. NThreads - 1
Numbers == 1 .. MaxFlows
Fids    == 0 .. FidMod - 1
Flows   == Threads \X Numbers

VARIABLES
  dp,      \* dp[t]: the state of a data-path thread
  busy,    \* busy[t]: t is in the loop of check_msgs
  hand,    \* hand[t]: the entries of the batch at hand that t has not seen
  net,     \* net[f]: copies of the first packet of f under way to the RX thread
  dups,    \* packets the device has duplicated
  cur,     \* cur[t]: the batch under construction and whether it is older than 2 msec
  flushes, \* threads whose batch the RX thread is now sending, in order
  tries,   \* failed tries of the flush at hand
  ring,    \* ring[t]: batches on their way to t
  exited   \* exit(1) was called

rx   == <<cur, flushes, tries>>
thr  == <<busy, hand>>
vars == <<dp, thr, net, dups, rx, ring, exited>>

None == <<>>

NoNode == [type |-> "free", nat |-> 0, pkts |-> <<>>, ext |-> None, replied |-> {}]

Empty == [infos |-> <<>>, old |-> FALSE]

Init ==
  /\ dp = [t \in Threads |-> [made |-> 0,
                              node |-> [n \in Numbers |-> NoNode],
                              lookup |-> [i \in Fids |-> 0],
                              bad |-> {}]]
  /\ busy = [t \in Threads |-> FALSE]
  /\ hand = [t \in Threads |-> <<>>]
  /\ net = [f \in Flows |-> 0]
  /\ dups = 0
  /\ cur = [t \in Threads |-> Empty]
  /\ flushes = <<>>
  /\ tries = 0
  /\ ring = [t \in Threads |-> <<>>]
  /\ exited = FALSE
-----------------------------------------------------------------------------
(* The data-path thread.  A node's pkts are the packets not yet sent; nat is
   the two-bit field of m_flags: 1 for the first state, 2 for the wait state. *)

get_short_fid(n) == n % FidMod

BiDirectional(tpl) == \E i \in DOMAIN tpl : tpl[i] = "r"

Failed(d, name, ok) == IF ok THEN d.bad ELSE d.bad \cup {name}

associate(d, n) ==
  [d EXCEPT !.lookup[get_short_fid(n)] = n,
            !.bad = Failed(d, "associate", d.lookup[get_short_fid(n)] = 0)]

(* Translations of f between the RX thread and the flow's own thread. *)
InTransfer(f) ==
  \/ f \in Range(cur[f[1]].infos)
  \/ \E i \in DOMAIN ring[f[1]] : f \in Range(ring[f[1]][i])
  \/ f \in Range(hand[f[1]])

(* The device and the threads are done with a flow before FidMod newer ones
   of its thread have been made; with 24 bits that takes 16M flows. *)
WrapIsSlow(t, n) ==
  n > FidMod =>
    /\ dp[t].node[n - FidMod].type = "free"
    /\ net[<<t, n - FidMod>>] = 0 /\ ~InTransfer(<<t, n - FidMod>>)

(* CCapFileFlowInfo::generate_flow in learn mode.  The translation fields of a
   node out of the pool are what its last user left: here, none of this flow. *)
generate_flow(t, tpl) ==
  LET n == dp[t].made + 1
      d == [dp[t] EXCEPT !.made = n,
                         !.node[n] = [NoNode EXCEPT !.type = "pkt", !.pkts = tpl]]
  IN /\ ~exited /\ ~busy[t]
     /\ n \in Numbers /\ SumFunction([u \in Threads |-> dp[u].made]) < MaxTotal
     /\ WrapIsSlow(t, n)
     /\ dp' = [dp EXCEPT ![t] =
                 IF BiDirectional(tpl)
                 THEN [associate(d, n) EXCEPT !.node[n].type = "nat", !.node[n].nat = 1]
                 ELSE d]
     /\ UNCHANGED <<thr, net, dups, rx, ring, exited>>

free_last_flow_node(d, n) == [d EXCEPT !.node[n].type = "free"]

(* Mutant: the timed out flow stays in the lookup table. *)
TerminateNotRemoved(d, n) == free_last_flow_node(d, n)

terminate_nat_flows(d, n) ==
  free_last_flow_node([d EXCEPT !.lookup[get_short_fid(n)] = 0], n)

(* is_last_in_flow: the node is freed, otherwise it goes to its next packet. *)
NextPacket(d, n) ==
  LET e == [d EXCEPT !.node[n].pkts = Tail(@)]
  IN IF e.node[n].pkts = <<>> THEN free_last_flow_node(e, n) ELSE e

IsReply(d, n) == Head(d.node[n].pkts) = "r"

(* Mutant: the first state is not left. *)
StaysFirst(d, n) == NextPacket(d, n)

SendFirst(d, n) == NextPacket([d EXCEPT !.node[n].nat = 2], n)

(* A reply is addressed with the translation the node holds. *)
Reply(d, n) == NextPacket([d EXCEPT !.node[n].replied = @ \cup {d.node[n].ext}], n)

(* Mutant: a reply that is due without a translation is sent. *)
RepliesAnyway(d, n) == IF IsReply(d, n) THEN Reply(d, n) ELSE NextPacket(d, n)

(* Mutant: a reply that is due without a translation is put off. *)
WaitsForEver(d, n) == IF IsReply(d, n) THEN d ELSE NextPacket(d, n)

(* In the wait state a reply that is due is the time-out of the flow. *)
Waiting(d, n) == IF IsReply(d, n) THEN terminate_nat_flows(d, n) ELSE NextPacket(d, n)

(* A flow packet is due: flush_file, and handle_slow_messages for a NAT node. *)
HandleNode(t, n) ==
  LET d == dp[t]
      v == d.node[n]
  IN /\ ~exited /\ ~busy[t] /\ v.type # "free"
     /\ dp' = [dp EXCEPT ![t] =
                 CASE v.type = "nat" /\ v.nat = 1 -> SendFirst(d, n)
                   [] v.type = "nat" /\ v.nat = 2 -> Waiting(d, n)
                   [] v.type = "nat" /\ v.nat = 0 -> [d EXCEPT !.bad = @ \cup {"state"}]
                   [] v.type = "pkt" /\ IsReply(d, n) -> Reply(d, n)
                   [] OTHER                       -> NextPacket(d, n)]
     /\ net' = IF v.type = "nat" /\ v.nat = 1 THEN [net EXCEPT ![<<t, n>>] = @ + 1] ELSE net
     /\ UNCHANGED <<thr, dups, rx, ring, exited>>

(* One entry of a batch. *)
Learn(d, f) ==
  LET fid == get_short_fid(f[2])
      n   == d.lookup[fid]
  IN IF n = 0
     THEN d
     ELSE [d EXCEPT !.node[n].ext = f,
                    !.node[n].type = "pkt",
                    !.lookup[fid] = 0,
                    !.bad = Failed(d, "wait", d.node[n].nat = 2)]

handel_nat_msg(t) ==
  /\ ~exited /\ hand[t] # <<>>
  /\ dp' = [dp EXCEPT ![t] = Learn(@, Head(hand[t]))]
  /\ hand' = [hand EXCEPT ![t] = Tail(@)]
  /\ UNCHANGED <<busy, net, dups, rx, ring, exited>>

(* check_msgs: batches are taken until the ring is empty, those that come in
   the meantime too.  The thread does nothing else until then. *)
check_msgs(t) ==
  /\ ~exited /\ hand[t] = <<>>
  /\ \/ /\ ring[t] # <<>>
        /\ busy' = [busy EXCEPT ![t] = TRUE]
        /\ hand' = [hand EXCEPT ![t] = Head(ring[t])]
        /\ ring' = [ring EXCEPT ![t] = Tail(@)]
     \/ /\ ring[t] = <<>> /\ busy[t]
        /\ busy' = [busy EXCEPT ![t] = FALSE]
        /\ UNCHANGED <<hand, ring>>
  /\ UNCHANGED <<dp, net, dups, rx, exited>>
-----------------------------------------------------------------------------
(* The device under test. *)

Lose(f) ==
  /\ net[f] > 0
  /\ net' = [net EXCEPT ![f] = @ - 1]
  /\ UNCHANGED <<dp, thr, dups, rx, ring, exited>>

Duplicate(f) ==
  /\ net[f] > 0 /\ dups < MaxDups
  /\ net' = [net EXCEPT ![f] = @ + 1]
  /\ dups' = dups + 1
  /\ UNCHANGED <<dp, thr, rx, ring, exited>>
-----------------------------------------------------------------------------
(* The RX thread: it does nothing else while it flushes a batch. *)

(* In the TCP mode the id travels in the acknowledge number, where 0 means
   that there is none: the flows of thread 0 with short id 0 are not seen. *)
IsNatInfoPkt(f) == ~(TcpAck /\ f[1] = 0 /\ get_short_fid(f[2]) = 0)

is_full(infos) == Len(infos) = Batch

handle_packet_ipv4(f) ==
  LET t     == f[1]
      infos == IF IsNatInfoPkt(f) THEN Append(cur[t].infos, f) ELSE cur[t].infos
  IN /\ ~exited /\ flushes = <<>>
     /\ net[f] > 0
     /\ net' = [net EXCEPT ![f] = @ - 1]
     /\ cur' = [cur EXCEPT ![t].infos = infos]
     /\ flushes' = IF is_full(infos) THEN <<t>> ELSE <<>>
     /\ UNCHANGED <<dp, thr, dups, tries, ring, exited>>

(* The batch of t is older than MAX_TIME_MSG_IN_QUEUE_SEC. *)
Expire(t) ==
  /\ cur[t].infos # <<>> /\ ~cur[t].old
  /\ cur' = [cur EXCEPT ![t].old = TRUE]
  /\ UNCHANGED <<dp, thr, net, dups, flushes, tries, ring, exited>>

(* Mutant: the loop ends one thread too early. *)
AgedButLast == {t \in Threads : cur[t].old /\ t < NThreads - 1}

Aged == {t \in Threads : cur[t].old}

InOrder(X) ==
  {q \in [1 .. Cardinality(X) -> X] : \A i, j \in DOMAIN q : i < j => q[i] < q[j]}

handle_aging ==
  /\ ~exited /\ flushes = <<>>
  /\ Aged # {}
  /\ flushes' \in InOrder(Aged)
  /\ UNCHANGED <<dp, thr, net, dups, cur, tries, ring, exited>>

(* One round of the loop of flush_node, with the delay that follows it. *)
flush_node ==
  /\ ~exited /\ flushes # <<>>
  /\ LET t == Head(flushes)
     IN IF Len(ring[t]) < RingSize
        THEN /\ ring' = [ring EXCEPT ![t] = Append(@, cur[t].infos)]
             /\ cur' = [cur EXCEPT ![t] = Empty]
             /\ flushes' = Tail(flushes)
             /\ tries' = 0
             /\ UNCHANGED exited
        ELSE /\ tries' = tries + 1
             /\ exited' = (tries' > MaxRetries)
             /\ UNCHANGED <<ring, cur, flushes>>
  /\ UNCHANGED <<dp, thr, net, dups>>

Next ==
  \/ \E t \in Threads :
       \/ \E tpl \in Templates : generate_flow(t, tpl)
       \/ \E n \in Numbers : HandleNode(t, n)
       \/ check_msgs(t)
       \/ handel_nat_msg(t)
       \/ Expire(t)
  \/ \E f \in Flows : Lose(f) \/ Duplicate(f) \/ handle_packet_ipv4(f)
  \/ handle_aging
  \/ flush_node

(* A data-path thread goes on with the packets of its flows and looks at its
   ring every millisecond (FLOW_SYNC); the RX thread checks for old batches
   as often, and time passes. *)
Fairness ==
  /\ \A t \in Threads :
       /\ \A n \in Numbers : WF_vars(HandleNode(t, n))
       /\ WF_vars(check_msgs(t))
       /\ WF_vars(handel_nat_msg(t))
       /\ WF_vars(Expire(t))
  /\ WF_vars(handle_aging)
  /\ WF_vars(flush_node)

Spec == Init /\ [][Next]_vars /\ Fairness
-----------------------------------------------------------------------------
NodeOK(v) ==
  /\ v.type \in {"free", "nat", "pkt"}
  /\ v.nat \in 0 .. 2
  /\ \E tpl \in Templates \cup {<<>>} : \E k \in 1 .. Len(tpl) + 1 :
       v.pkts = SubSeq(tpl, k, Len(tpl))
  /\ v.ext \in Flows \cup {None}

TypeOK ==
  /\ \A t \in Threads :
       /\ dp[t].made \in 0 .. MaxFlows
       /\ \A n \in Numbers : NodeOK(dp[t].node[n])
       /\ dp[t].lookup \in [Fids -> 0 .. MaxFlows]
       /\ Len(cur[t].infos) \in 0 .. Batch
       /\ Len(ring[t]) \in 0 .. RingSize
  /\ net \in [Flows -> 0 .. 1 + MaxDups]
  /\ tries \in 0 .. MaxRetries + 1

(* The asserts hold: a new flow's short id is not in use (associate), and a
   translation finds its flow in the wait state (handel_nat_msg), however late
   or often it comes. *)
NatAssertsHold == \A t \in Threads : dp[t].bad = {}

(* The lookup table holds exactly the flows that have no translation yet: no
   pointer to a node that was freed or already translated, and no flow that a
   translation could not find. *)
LookupIsExact ==
  \A t \in Threads : \A n \in 1 .. dp[t].made :
    dp[t].node[n].type = "nat" <=> dp[t].lookup[get_short_fid(n)] = n

(* The lookup table is sound, and batches and rings are within their sizes
   (is_full, flush_node). *)
LookupSound == TypeOK /\ LookupIsExact

(* Every reply is addressed with the flow's own translation: never without
   one, and never with that of another flow (update_pkt_info). *)
RepliesUseOwn ==
  \A t \in Threads, n \in Numbers : dp[t].node[n].replied \subseteq {<<t, n>>}

(* Every flow ends, with or without its translation: the wait has a time-out. *)
FlowsEnd ==
  \A t \in Threads, n \in Numbers :
    dp[t].node[n].type # "free" ~> dp[t].node[n].type = "free" \/ exited

(* A translation that the RX thread has seen gets to its thread, in a full
   batch or in one that aged, unless the process gave up on a full ring. *)
InfoIsDelivered == \A f \in Flows : InTransfer(f) ~> ~InTransfer(f) \/ exited
=============================================================================
