-------------------------- MODULE StlClient_proofs --------------------------
(***************************************************************************)
(* Proofs about StlClient for any number of clients, handlers, timeouts    *)
(* and queued events.                                                      *)
(***************************************************************************)
EXTENDS StlClient, TLAPS

StateTypes == {"started", "stopped", "paused"}
EventSet == [type : StateTypes \cup {"forced", "barrier"}, by : Clients \cup {"-"},
             disorder : BOOLEAN]

Types ==
  /\ srv \in {"IDLE", "STREAMS", "TX", "PAUSE"} /\ endless \in BOOLEAN
  /\ generated \in 0 .. MaxHandlers /\ owner \in 0 .. generated
  /\ starting \in BOOLEAN /\ finishing \in BOOLEAN
  /\ conn \in [Clients -> {"off", "waiting", "on"}]
  /\ joined \in [Clients -> BOOLEAN]
  /\ handler \in [Clients -> 0 .. generated]
  /\ cstate \in [Clients -> {"IDLE", "STREAMS", "TX", "PAUSE"}]
  /\ call \in [Clients -> Call \cup {NoCall}] /\ late \in [Clients -> Call \cup {NoCall}]
  /\ timeouts \in 0 .. MaxTimeouts
  /\ events \in [Clients -> Seq(EventSet)]
  /\ \A c \in Clients : Len(events[c]) <= MaxQueue
  /\ overtaken \in [Clients -> BOOLEAN] /\ stale \in [Clients -> BOOLEAN]
  /\ robbed \in [Clients -> BOOLEAN]

(* Where a client is in connecting decides what it can have. *)
Link(c) ==
  /\ conn[c] = "on" => joined[c]
  /\ conn[c] = "off" => ~joined[c]
  /\ events[c] # << >> => joined[c]
  /\ handler[c] # NoHandler => conn[c] = "on"
  /\ call[c] # NoCall => conn[c] = "on"
  /\ late[c] # NoCall => conn[c] = "off" /\ late[c].reply = "sent"
  /\ late[c].got = NoHandler
  /\ call[c].reply = "sent" => call[c].got = NoHandler

(* The handlers a client may use or be about to learn. *)
Held(c) == {handler[c], call[c].with, call[c].got, late[c].with} \ {NoHandler}

(* A handler is known to one client only, and was generated. *)
Apart ==
  /\ \A c \in Clients : \A h \in Held(c) : h <= generated
  /\ \A c, d \in Clients : c # d => Held(c) \cap Held(d) = {}

(* A granted acquire holds until the notice of a steal is sent. *)
Granted(c) ==
  /\ call[c].got # NoHandler => handler[c] # call[c].got
  /\ call[c].op \in {"acquire", "force"} /\ call[c].reply = "ok" =>
       /\ call[c].got # NoHandler
       /\ call[c].got = owner \/ StealOnItsWay(c) \/ overtaken[c]

Belief(c) ==
  conn[c] = "on" /\ handler[c] # NoHandler =>
    handler[c] = owner \/ StealOnItsWay(c) \/ ReplyOnItsWay(c) \/ robbed[c]

(* The state events of a queue, and what the client knows at its end. *)
StatesIn(q) == {k \in DOMAIN q : IsState(q[k])}
Right(e, sv) == e.disorder \/ Class(Told(e.type)) = Class(sv)
InformedBy(q, st, wrong, sv) ==
  /\ StatesIn(q) = {} => wrong \/ Class(st) = Class(sv)
  /\ \A k \in StatesIn(q) :
       (\A j \in StatesIn(q) : j <= k) => Right(q[k], sv)

(* With nothing left to publish, the last thing c will learn is right. *)
Informed(c) ==
  conn[c] # "off" /\ ~starting /\ ~finishing =>
    InformedBy(events[c], cstate[c], stale[c], srv)

(* A reply that nothing has overtaken is still right when it arrives. *)
Answered(c) ==
  /\ call[c].reply = "ok" /\ ~Ownership(call[c].op) /\ ~overtaken[c]
  /\ StatesIn(events[c]) = {} /\ ~starting /\ ~finishing
  => Class(After(call[c].op, cstate[c])) = Class(srv)

Starts == starting => srv \in {"TX", "STREAMS"}

Mine(c) == Link(c) /\ Granted(c) /\ Belief(c) /\ Informed(c) /\ Answered(c)

IndInv == Types /\ Starts /\ Apart /\ \A c \in Clients : Mine(c)

-----------------------------------------------------------------------------
(***************************************************************************)
(* Queues of events.                                                       *)
(***************************************************************************)
LEMMA AppendFacts ==
  ASSUME NEW q \in Seq(EventSet), NEW e \in EventSet
  PROVE  /\ Append(q, e) \in Seq(EventSet) /\ Len(Append(q, e)) = Len(q) + 1
         /\ DOMAIN q = 1 .. Len(q) /\ DOMAIN Append(q, e) = 1 .. Len(q) + 1
         /\ Append(q, e)[Len(q) + 1] = e /\ Len(q) \in Nat
         /\ \A k \in 1 .. Len(q) : Append(q, e)[k] = q[k]
OBVIOUS

LEMMA TailFacts ==
  ASSUME NEW q \in Seq(EventSet), q # << >>
  PROVE  /\ Tail(q) \in Seq(EventSet) /\ Len(Tail(q)) = Len(q) - 1 /\ Len(q) \in Nat \ {0}
         /\ DOMAIN q = 1 .. Len(q) /\ DOMAIN Tail(q) = 1 .. Len(q) - 1
         /\ Head(q) = q[1] /\ Head(q) \in EventSet
         /\ \A k \in 1 .. Len(q) - 1 : Tail(q)[k] = q[k + 1]
OBVIOUS

LEMMA StatesAppend ==
  ASSUME NEW q \in Seq(EventSet), NEW e \in EventSet
  PROVE  StatesIn(Append(q, e)) = StatesIn(q) \cup (IF IsState(e) THEN {Len(q) + 1} ELSE {})
BY AppendFacts DEF StatesIn

(* A state event that is right, or known to be out of order, is the last. *)
LEMMA InformedAppend ==
  ASSUME NEW q \in Seq(EventSet), NEW e \in EventSet, NEW st, NEW w, NEW sv,
         IsState(e), Right(e, sv)
  PROVE  InformedBy(Append(q, e), st, w, sv)
<1> DEFINE S == StatesIn(Append(q, e))
<1>1. S = StatesIn(q) \cup {Len(q) + 1}
  BY StatesAppend
<1>2. ASSUME NEW k \in S, \A j \in S : j <= k PROVE k = Len(q) + 1
  <2>1. k \in 1 .. Len(q) + 1 /\ Len(q) + 1 <= k /\ Len(q) \in Nat
    BY <1>1, <1>2, AppendFacts DEF StatesIn
  <2> QED BY <2>1
<1>3. Append(q, e)[Len(q) + 1] = e
  BY AppendFacts
<1> QED BY <1>1, <1>2, <1>3 DEF InformedBy

LEMMA InformedOther ==
  ASSUME NEW q \in Seq(EventSet), NEW e \in EventSet, NEW st, NEW w, NEW sv,
         ~IsState(e), InformedBy(q, st, w, sv)
  PROVE  InformedBy(Append(q, e), st, w, sv)
<1>1. StatesIn(Append(q, e)) = StatesIn(q)
  BY StatesAppend
<1>2. \A k \in StatesIn(q) : Append(q, e)[k] = q[k]
  BY AppendFacts DEF StatesIn
<1> QED BY <1>1, <1>2 DEF InformedBy

LEMMA StatesTail ==
  ASSUME NEW q \in Seq(EventSet), q # << >>
  PROVE  /\ \A k \in StatesIn(Tail(q)) : k + 1 \in StatesIn(q) /\ k \in Nat \ {0}
         /\ \A k \in StatesIn(q) : k \in Nat \ {0} /\ (k = 1 \/ k - 1 \in StatesIn(Tail(q)))
         /\ \A k \in StatesIn(Tail(q)) : Tail(q)[k] = q[k + 1]
         /\ 1 \in StatesIn(q) <=> IsState(Head(q))
<1> USE TailFacts
<1>1. ASSUME NEW k \in StatesIn(Tail(q)) PROVE k + 1 \in StatesIn(q) /\ k \in Nat \ {0} /\ Tail(q)[k] = q[k + 1]
  BY <1>1 DEF StatesIn
<1>2. ASSUME NEW k \in StatesIn(q) PROVE k \in Nat \ {0} /\ (k = 1 \/ k - 1 \in StatesIn(Tail(q)))
  BY <1>2 DEF StatesIn
<1>3. 1 \in StatesIn(q) <=> IsState(Head(q))
  BY DEF StatesIn
<1> QED BY <1>1, <1>2, <1>3

LEMMA InformedTail ==
  ASSUME NEW q \in Seq(EventSet), q # << >>, NEW st, NEW w, NEW sv, InformedBy(q, st, w, sv)
  PROVE  IF IsState(Head(q))
         THEN InformedBy(Tail(q), Told(Head(q).type), Head(q).disorder, sv)
         ELSE InformedBy(Tail(q), st, w, sv)
<1> DEFINE T == StatesIn(Tail(q))
<1>1. ASSUME NEW k \in T, \A j \in T : j <= k
      PROVE  Right(Tail(q)[k], sv)
  <2>1. k + 1 \in StatesIn(q) /\ k \in Nat \ {0} /\ Tail(q)[k] = q[k + 1]
    BY <1>1, StatesTail
  <2>2. ASSUME NEW j \in StatesIn(q) PROVE j <= k + 1
    <3>1. j \in Nat \ {0} /\ (j = 1 \/ j - 1 \in T)
      BY <2>2, StatesTail
    <3> QED BY <1>1, <2>1, <3>1
  <2> QED BY <2>1, <2>2 DEF InformedBy
<1>2. ASSUME T = {}, IsState(Head(q))
      PROVE  Head(q).disorder \/ Class(Told(Head(q).type)) = Class(sv)
  <2>1. 1 \in StatesIn(q) /\ \A j \in StatesIn(q) : j <= 1
    BY <1>2, StatesTail
  <2> QED BY <2>1, TailFacts DEF InformedBy, Right
<1>3. ASSUME T = {}, ~IsState(Head(q)) PROVE w \/ Class(st) = Class(sv)
  <2>1. StatesIn(q) = {}
    BY <1>3, StatesTail
  <2> QED BY <2>1 DEF InformedBy
<1> QED BY <1>1, <1>2, <1>3 DEF InformedBy

(* The notice of a steal stays until it is delivered. *)
StealIn(c, q) == \E k \in DOMAIN q : StealsFrom(c, q[k])

LEMMA StealAppend ==
  ASSUME NEW q \in Seq(EventSet), NEW e \in EventSet, NEW c
  PROVE  StealIn(c, Append(q, e)) <=> StealIn(c, q) \/ StealsFrom(c, e)
BY AppendFacts DEF StealIn

LEMMA StealTail ==
  ASSUME NEW q \in Seq(EventSet), q # << >>, NEW c, ~StealsFrom(c, Head(q))
  PROVE  StealIn(c, Tail(q)) <=> StealIn(c, q)
<1> USE TailFacts
<1>1. ASSUME NEW k \in DOMAIN q, StealsFrom(c, q[k]) PROVE k - 1 \in DOMAIN Tail(q) /\ Tail(q)[k - 1] = q[k]
  <2>1. k # 1 /\ k \in 1 .. Len(q)
    BY <1>1
  <2>2. k - 1 \in 1 .. Len(q) - 1 /\ (k - 1) + 1 = k
    BY <2>1
  <2> QED BY <2>2
<1>2. ASSUME NEW k \in DOMAIN Tail(q) PROVE k + 1 \in DOMAIN q /\ Tail(q)[k] = q[k + 1]
  BY <1>2
<1> QED BY <1>1, <1>2 DEF StealIn

-----------------------------------------------------------------------------
(***************************************************************************)
(* What the server's steps do to the clients.                              *)
(***************************************************************************)
States == {"IDLE", "STREAMS", "TX", "PAUSE"}

LEMMA EventType ==
  /\ \A ty \in StateTypes, b \in BOOLEAN :
       /\ Event(ty, "-", b) \in EventSet /\ IsState(Event(ty, "-", b))
       /\ Event(ty, "-", b).type = ty /\ Event(ty, "-", b).disorder = b
       /\ \A c : ~StealsFrom(c, Event(ty, "-", b))
  /\ \A c \in Clients :
       /\ Event("forced", c, FALSE) \in EventSet /\ ~IsState(Event("forced", c, FALSE))
       /\ Event("forced", c, FALSE).type = "forced"
       /\ \A d : d # c => StealsFrom(d, Event("forced", c, FALSE))
BY DEF Event, EventSet, StateTypes, IsState, StealsFrom

LEMMA PublishFacts ==
  ASSUME Types, NEW e \in EventSet, Publish(e)
  PROVE  /\ events' \in [Clients -> Seq(EventSet)] /\ stale' \in [Clients -> BOOLEAN]
         /\ \A c \in Clients : Len(events'[c]) <= MaxQueue
         /\ \A c \in Clients :
              IF joined[c] THEN events'[c] = Append(events[c], e) /\ stale'[c] = stale[c]
              ELSE /\ events'[c] = events[c]
                   /\ stale'[c] = (stale[c] \/ (conn[c] # "off" /\ e.type # "forced"))
<1>1. ASSUME NEW c \in Clients, joined[c]
      PROVE  events'[c] = Append(events[c], e) /\ events'[c] \in Seq(EventSet)
             /\ Len(events'[c]) <= MaxQueue
  <2>1. events'[c] = Append(events[c], e) /\ events[c] \in Seq(EventSet) /\ Len(events[c]) + 1 <= MaxQueue
    BY <1>1 DEF Publish, RoomFor, Types
  <2> QED BY <2>1, AppendFacts
<1>2. ASSUME NEW c \in Clients, ~joined[c] PROVE events'[c] = events[c]
  BY <1>2 DEF Publish
<1>3. events' \in [Clients -> Seq(EventSet)]
  BY <1>1, <1>2 DEF Publish, Types
<1>4. stale' \in [Clients -> BOOLEAN]
  BY DEF Publish, Types
<1>5. \A c \in Clients : stale'[c] = (stale[c] \/ (conn[c] # "off" /\ ~joined[c] /\ e.type # "forced"))
  BY DEF Publish
<1>6. \A c \in Clients : stale[c] \in BOOLEAN /\ Len(events[c]) <= MaxQueue
  BY DEF Types
<1> QED BY <1>1, <1>2, <1>3, <1>4, <1>5, <1>6

(* What one request does, seen from the clients. *)
Granted1(c, req, r) ==
  /\ req.op \in {"acquire", "force"} /\ r.ok
  /\ r.got = generated + 1 /\ owner' = generated + 1 /\ generated' = generated + 1
  /\ generated < MaxHandlers
  /\ srv' = srv /\ starting' = starting
  /\ (owner = NoHandler /\ NoEvent) \/ Publish(Event("forced", c, FALSE))

Released(req, r) ==
  /\ req.op = "release" /\ r.got = NoHandler /\ r.ok
  /\ req.with = owner /\ owner # NoHandler
  /\ owner' = NoHandler /\ generated' = generated /\ srv' = srv /\ starting' = starting
  /\ NoEvent

Quiet(req, r) ==
  /\ r.got = NoHandler /\ srv' \in States /\ Class(srv') = Class(srv)
  /\ r.ok => ~Ownership(req.op) /\ \A st : Class(After(req.op, st)) = Class(srv')
  /\ UNCHANGED <<owner, generated, starting>> /\ NoEvent

Tells(req, r) ==
  /\ r.got = NoHandler /\ srv' \in States /\ ~Ownership(req.op)
  /\ UNCHANGED <<owner, generated, starting>>
  /\ \E ty \in StateTypes : Publish(Event(ty, "-", FALSE)) /\ Class(Told(ty)) = Class(srv')

Starting(req, r) ==
  /\ r.got = NoHandler /\ req.op = "start" /\ srv' = "TX" /\ starting' = TRUE
  /\ UNCHANGED <<owner, generated>> /\ NoEvent

LEMMA ServeKinds ==
  ASSUME Types, NEW c \in Clients, NEW req \in Call, NEW r \in Replies, Serve(c, req, r)
  PROVE  /\ Granted1(c, req, r) \/ Released(req, r) \/ Quiet(req, r) \/ Tells(req, r)
            \/ Starting(req, r)
         /\ ~starting /\ finishing' = finishing /\ endless' \in BOOLEAN
<1>0. req.op \in Ops /\ r.ok \in BOOLEAN /\ srv \in States /\ endless \in BOOLEAN
  BY DEF Call, Replies, Types, States
<1>1. ~starting /\ finishing' = finishing
  BY DEF Serve
<1>2. CASE req.op \in {"acquire", "force"}
  <2>1. Acquire(c, req.op = "force", r)
    BY <1>2 DEF Serve
  <2>2. CASE r.ok
    BY <1>0, <1>1, <1>2, <2>1, <2>2 DEF Acquire, Granted1
  <2>3. CASE ~r.ok
    BY <1>0, <1>1, <1>2, <2>1, <2>3 DEF Acquire, Quiet
  <2> QED BY <2>2, <2>3
<1>3. CASE req.op \notin {"acquire", "force"} /\ ~OwnedBy(req.with)
  <2>1. ~r.ok /\ NoEvent /\ UNCHANGED <<srv, endless, owner, generated, starting>> /\ r.got = NoHandler
    BY <1>3 DEF Serve
  <2> QED BY <1>0, <1>1, <2>1 DEF Quiet
<1>4. CASE req.op \notin {"acquire", "force"} /\ OwnedBy(req.with)
  <2>1. Owned(req.op, r) /\ r.got = NoHandler /\ req.with = owner /\ owner # NoHandler
    BY <1>4 DEF Serve, OwnedBy
  <2>2. CASE req.op = "release"
    BY <1>0, <1>1, <2>1, <2>2 DEF Owned, Released
  <2>3. CASE req.op \in {"add", "remove"}
    BY <1>0, <1>1, <2>1, <2>3 DEF Owned, Moves, Refused, Quiet, Class, Active, After, Ownership, States
  <2>4. CASE req.op = "start"
    BY <1>0, <1>1, <2>1, <2>4 DEF Owned, StartTraffic, Refused, Quiet, Starting
  <2>5. CASE req.op = "stop"
    <3>1. CASE r.ok /\ Moves({"TX", "PAUSE"}, "STREAMS", Publish(Event("stopped", "-", FALSE)))
      BY <1>0, <1>1, <2>1, <2>5, <3>1
         DEF Moves, Tells, StateTypes, Told, Class, Active, Ownership, States
    <3>2. CASE r.ok /\ (Moves({"IDLE"}, "IDLE", NoEvent) \/ Moves({"STREAMS"}, "STREAMS", NoEvent))
      BY <1>0, <1>1, <2>1, <2>5, <3>2 DEF Moves, Quiet, Class, Active, After, Ownership, States
    <3> QED BY <2>1, <2>5, <3>1, <3>2 DEF Owned
  <2>6. CASE req.op = "pause"
    <3>1. CASE r.ok /\ Moves({"TX"}, "PAUSE", Publish(Event("paused", "-", FALSE)))
      BY <1>0, <1>1, <2>1, <2>6, <3>1
         DEF Moves, Tells, StateTypes, Told, Class, Active, Ownership, States
    <3>2. CASE Refused({}, r)
      BY <1>0, <1>1, <2>1, <3>2 DEF Refused, Quiet
    <3> QED BY <2>1, <2>6, <3>1, <3>2 DEF Owned
  <2>7. CASE req.op = "resume"
    <3>1. CASE r.ok /\ Moves({"PAUSE"}, "TX", Publish(Event("started", "-", FALSE)))
      BY <1>0, <1>1, <2>1, <2>7, <3>1
         DEF Moves, Tells, StateTypes, Told, Class, Active, Ownership, States
    <3>2. CASE Refused({"PAUSE"}, r)
      BY <1>0, <1>1, <2>1, <3>2 DEF Refused, Quiet
    <3> QED BY <2>1, <2>7, <3>1, <3>2 DEF Owned
  <2> QED BY <1>0, <1>4, <2>2, <2>3, <2>4, <2>5, <2>6, <2>7 DEF Ops
<1> QED BY <1>2, <1>3, <1>4

-----------------------------------------------------------------------------
(***************************************************************************)
(* A client that takes no step itself.                                     *)
(***************************************************************************)
SameClient(d) ==
  /\ conn'[d] = conn[d] /\ joined'[d] = joined[d] /\ handler'[d] = handler[d]
  /\ cstate'[d] = cstate[d] /\ robbed'[d] = robbed[d]
SameCall(d) == call'[d] = call[d] /\ late'[d] = late[d] /\ overtaken'[d] = overtaken[d]
SameEvents(d) == events'[d] = events[d] /\ stale'[d] = stale[d]

(* The owner does not change from a handler that d has. *)
KeepsOwner(d) == owner' = owner \/ owner \notin Held(d)

(* The change of the state is none to the client, or will be published. *)
KeepsState ==
  \/ starting' \/ finishing'
  \/ starting' = starting /\ finishing' = finishing /\ Class(srv') = Class(srv)

LEMMA StealDef == \A c : StealOnItsWay(c) <=> StealIn(c, events[c])
BY DEF StealOnItsWay, StealIn

LEMMA OwnKept ==
  ASSUME NEW d, KeepsOwner(d), NEW h \in Held(d), h = owner
  PROVE  h = owner'
BY DEF KeepsOwner

LEMMA HeldFacts ==
  ASSUME NEW d
  PROVE  /\ handler[d] # NoHandler => handler[d] \in Held(d)
         /\ call[d].got # NoHandler => call[d].got \in Held(d)
         /\ call[d].with # NoHandler => call[d].with \in Held(d)
         /\ late[d].with # NoHandler => late[d].with \in Held(d)
BY DEF Held

LEMMA QuietInformed ==
  ASSUME NEW d, Informed(d), SameClient(d), SameEvents(d), KeepsState
  PROVE  Informed(d)'
<1>1. CASE starting' \/ finishing'
  BY <1>1 DEF Informed
<1>2. CASE starting' = starting /\ finishing' = finishing /\ Class(srv') = Class(srv)
  BY <1>2 DEF Informed, InformedBy, Right, SameClient, SameEvents
<1> QED BY <1>1, <1>2 DEF KeepsState

LEMMA QuietBelief ==
  ASSUME NEW d, Belief(d), SameClient(d), events'[d] = events[d], KeepsOwner(d),
         ReplyOnItsWay(d) => ReplyOnItsWay(d)'
  PROVE  Belief(d)'
<1>1. StealOnItsWay(d)' <=> StealOnItsWay(d)
  BY DEF StealOnItsWay
<1>2. handler[d] # NoHandler /\ handler[d] = owner => handler[d] = owner'
  BY OwnKept, HeldFacts
<1> QED BY <1>1, <1>2 DEF Belief, SameClient

LEMMA QuietClient ==
  ASSUME NEW d, Mine(d), SameClient(d), SameCall(d), SameEvents(d), KeepsOwner(d), KeepsState
  PROVE  Mine(d)'
<1>1. Link(d)'
  BY DEF Mine, Link, SameClient, SameCall, SameEvents
<1>2. Granted(d)'
  <2>1. StealOnItsWay(d)' <=> StealOnItsWay(d)
    BY DEF StealOnItsWay, SameEvents
  <2>2. call[d].got # NoHandler /\ call[d].got = owner => call[d].got = owner'
    BY OwnKept, HeldFacts
  <2> QED BY <2>1, <2>2 DEF Mine, Granted, SameClient, SameCall
<1>3. Belief(d)'
  <2>1. ReplyOnItsWay(d)' <=> ReplyOnItsWay(d)
    BY DEF ReplyOnItsWay, SameCall
  <2> QED BY <2>1, QuietBelief DEF Mine, SameEvents
<1>4. Informed(d)'
  BY QuietInformed DEF Mine
<1>5. Answered(d)'
  <2>1. CASE starting' \/ finishing'
    BY <2>1 DEF Answered
  <2>2. CASE starting' = starting /\ finishing' = finishing /\ Class(srv') = Class(srv)
    BY <2>2 DEF Mine, Answered, SameClient, SameCall, SameEvents
  <2> QED BY <2>1, <2>2 DEF KeepsState
<1> QED BY <1>1, <1>2, <1>3, <1>4, <1>5 DEF Mine

(* A state event is published. *)
LEMMA ToldInformed ==
  ASSUME Types, NEW d \in Clients, SameClient(d), Link(d),
         NEW ty \in StateTypes, NEW b \in BOOLEAN, Publish(Event(ty, "-", b)),
         ~starting' /\ ~finishing' => b \/ Class(Told(ty)) = Class(srv')
  PROVE  /\ Informed(d)' /\ (StealOnItsWay(d) <=> StealOnItsWay(d)')
         /\ joined[d] => StatesIn(events'[d]) # {}
         /\ (events'[d] # << >> => joined[d])
<1> DEFINE e == Event(ty, "-", b)
<1>0. e \in EventSet /\ IsState(e) /\ e.type = ty /\ e.disorder = b /\ ~StealsFrom(d, e)
      /\ e.type # "forced"
  BY EventType DEF StateTypes
<1> HIDE DEF e
<1>1. /\ joined[d] => events'[d] = Append(events[d], e) /\ stale'[d] = stale[d]
      /\ ~joined[d] => /\ events'[d] = events[d]
                       /\ stale'[d] = (stale[d] \/ (conn[d] # "off" /\ e.type # "forced"))
      /\ events[d] \in Seq(EventSet)
  BY <1>0, PublishFacts DEF Types, e
<1>2. CASE joined[d]
  <2>1. ASSUME ~starting', ~finishing' PROVE InformedBy(events'[d], cstate'[d], stale'[d], srv')
    <3>1. Right(e, srv')
      BY <1>0, <2>1 DEF Right
    <3> QED BY <1>0, <1>1, <1>2, <3>1, InformedAppend
  <2>2. Informed(d)'
    BY <2>1 DEF Informed
  <2>3. StatesIn(events'[d]) # {}
    BY <1>0, <1>1, <1>2, StatesAppend
  <2>4. StealOnItsWay(d) <=> StealOnItsWay(d)'
    BY <1>0, <1>1, <1>2, StealAppend DEF StealOnItsWay, StealIn
  <2> QED BY <1>2, <2>2, <2>3, <2>4
<1>3. CASE ~joined[d]
  <2>1. events[d] = << >>
    BY <1>3 DEF Link
  <2>2. StatesIn(<< >>) = {}
    BY DEF StatesIn
  <2>3. conn[d] # "off" => stale'[d]
    BY <1>0, <1>1, <1>3
  <2>4. Informed(d)'
    BY <1>1, <1>3, <2>1, <2>2, <2>3 DEF Informed, InformedBy, SameClient
  <2> QED BY <1>1, <1>3, <2>1, <2>4 DEF StealOnItsWay
<1> QED BY <1>2, <1>3

LEMMA ToldClient ==
  ASSUME Types, NEW d \in Clients, Mine(d), SameClient(d), SameCall(d), owner' = owner,
         NEW ty \in StateTypes, NEW b \in BOOLEAN, Publish(Event(ty, "-", b)),
         ~starting' /\ ~finishing' => b \/ Class(Told(ty)) = Class(srv')
  PROVE  Mine(d)'
<1>1. /\ Informed(d)' /\ (StealOnItsWay(d) <=> StealOnItsWay(d)')
      /\ joined[d] => StatesIn(events'[d]) # {}
      /\ (events'[d] # << >> => joined[d])
  BY ToldInformed DEF Mine
<1>2. Link(d)'
  BY <1>1 DEF Mine, Link, SameClient, SameCall
<1>3. Granted(d)'
  BY <1>1 DEF Mine, Granted, SameClient, SameCall
<1>4. Belief(d)'
  <2>1. ReplyOnItsWay(d)' <=> ReplyOnItsWay(d)
    BY DEF ReplyOnItsWay, SameCall
  <2> QED BY <1>1, <2>1 DEF Mine, Belief, SameClient
<1>5. Answered(d)'
  <2>1. call[d].reply = "ok" => joined[d]
    BY DEF Mine, Link, NoCall
  <2> QED BY <1>1, <2>1 DEF Answered, SameCall
<1> QED BY <1>1, <1>2, <1>3, <1>4, <1>5 DEF Mine

(* Another client steals the port. *)
LEMMA ForcedClient ==
  ASSUME Types, NEW c \in Clients, NEW d \in Clients, c # d, Mine(d), SameClient(d), SameCall(d),
         Publish(Event("forced", c, FALSE)),
         UNCHANGED <<srv, starting, finishing>>
  PROVE  Mine(d)'
<1> DEFINE e == Event("forced", c, FALSE)
<1>0. e \in EventSet /\ ~IsState(e) /\ e.type = "forced" /\ StealsFrom(d, e)
  BY EventType
<1> HIDE DEF e
<1>1. /\ joined[d] => events'[d] = Append(events[d], e)
      /\ ~joined[d] => events'[d] = events[d]
      /\ stale'[d] = stale[d] /\ events[d] \in Seq(EventSet)
  <2>1. stale[d] \in BOOLEAN
    BY DEF Types
  <2> QED BY <1>0, <2>1, PublishFacts DEF Types, e
<1>2. CASE joined[d]
  <2>1. StealOnItsWay(d)'
    BY <1>0, <1>1, <1>2, StealAppend DEF StealOnItsWay, StealIn
  <2>2. Link(d)'
    BY <1>2 DEF Mine, Link, SameClient, SameCall
  <2>3. Granted(d)'
    BY <2>1 DEF Mine, Granted, SameClient, SameCall
  <2>4. Belief(d)'
    BY <2>1 DEF Belief
  <2>5. InformedBy(events[d], cstate[d], stale[d], srv)
          => InformedBy(events'[d], cstate'[d], stale'[d], srv')
    BY <1>0, <1>1, <1>2, InformedOther DEF SameClient
  <2>6. Informed(d)'
    BY <2>5 DEF Mine, Informed, SameClient
  <2>7. StatesIn(events'[d]) = StatesIn(events[d])
    BY <1>0, <1>1, <1>2, StatesAppend
  <2>8. Answered(d)'
    BY <2>7 DEF Mine, Answered, SameClient, SameCall
  <2> QED BY <2>2, <2>3, <2>4, <2>6, <2>8 DEF Mine
<1>3. CASE ~joined[d]
  <2>1. SameEvents(d) /\ KeepsState
    BY <1>1, <1>3 DEF SameEvents, KeepsState
  <2>2. handler[d] = NoHandler /\ call[d] = NoCall
    BY <1>3 DEF Mine, Link
  <2>3. Link(d)' /\ Granted(d)' /\ Belief(d)' /\ Answered(d)'
    BY <2>1, <2>2 DEF Mine, Link, Granted, Belief, Answered, SameClient, SameCall, SameEvents, NoCall
  <2> QED BY <2>1, <2>3, QuietInformed DEF Mine
<1> QED BY <1>2, <1>3

-----------------------------------------------------------------------------
(***************************************************************************)
(* The server's steps.                                                     *)
(***************************************************************************)
LEMMA CallType ==
  ASSUME Types, NEW c \in Clients
  PROVE  /\ call[c] \in Call \/ call[c] = NoCall
         /\ call[c].reply = "sent" => call[c] \in Call
         /\ late[c] # NoCall => late[c] \in Call
         /\ handler[c] \in 0 .. generated /\ generated \in 0 .. MaxHandlers
         /\ call[c].with \in Nat /\ call[c].got \in Nat /\ late[c].with \in Nat
BY DEF Types, Call, NoCall

(* The server-side types, and the queues, after a request. *)
LEMMA ServeTypes ==
  ASSUME Types, NEW c \in Clients, NEW req \in Call, NEW r \in Replies, Serve(c, req, r)
  PROVE  /\ srv' \in States /\ endless' \in BOOLEAN
         /\ generated' \in 0 .. MaxHandlers /\ owner' \in 0 .. generated'
         /\ generated <= generated'
         /\ starting' \in BOOLEAN /\ finishing' \in BOOLEAN
         /\ events' \in [Clients -> Seq(EventSet)] /\ stale' \in [Clients -> BOOLEAN]
         /\ \A d \in Clients : Len(events'[d]) <= MaxQueue
<1>1. /\ Granted1(c, req, r) \/ Released(req, r) \/ Quiet(req, r) \/ Tells(req, r) \/ Starting(req, r)
      /\ ~starting /\ finishing' = finishing /\ endless' \in BOOLEAN
  BY ServeKinds
<1>2. srv' \in States /\ starting' \in BOOLEAN
  BY <1>1 DEF Granted1, Released, Quiet, Tells, Starting, Types, States
<1>3. generated' \in 0 .. MaxHandlers /\ owner' \in 0 .. generated' /\ generated <= generated'
  <2>1. \/ owner' = generated + 1 /\ generated' = generated + 1 /\ generated < MaxHandlers
        \/ generated' = generated /\ owner' \in {owner, NoHandler}
    BY <1>1 DEF Granted1, Released, Quiet, Tells, Starting
  <2>2. generated \in 0 .. MaxHandlers /\ owner \in 0 .. generated /\ MaxHandlers \in Nat
    BY ClientAssumption DEF Types
  <2> QED BY <2>1, <2>2 DEF NoHandler
<1>4. NoEvent \/ \E e \in EventSet : Publish(e)
  <2>1. CASE Granted1(c, req, r)
    BY <2>1, EventType DEF Granted1
  <2>2. CASE Tells(req, r)
    BY <2>2, EventType DEF Tells
  <2> QED BY <1>1, <2>1, <2>2 DEF Released, Quiet, Starting
<1>5. /\ events' \in [Clients -> Seq(EventSet)] /\ stale' \in [Clients -> BOOLEAN]
      /\ \A d \in Clients : Len(events'[d]) <= MaxQueue
  <2>1. CASE NoEvent
    BY <2>1 DEF NoEvent, Types
  <2> QED BY <1>4, <2>1, PublishFacts
<1> QED BY <1>1, <1>2, <1>3, <1>5 DEF Types

(* The other clients. *)
LEMMA ServeOthers ==
  ASSUME IndInv, NEW c \in Clients, NEW req \in Call, NEW r \in Replies, Serve(c, req, r),
         req.with # NoHandler => req.with \in Held(c),
         NEW d \in Clients, d # c, SameClient(d), SameCall(d)
  PROVE  Mine(d)'
<1>0. Types /\ Mine(d) /\ Held(c) \cap Held(d) = {}
  BY DEF IndInv, Apart
<1>1. /\ Granted1(c, req, r) \/ Released(req, r) \/ Quiet(req, r) \/ Tells(req, r) \/ Starting(req, r)
      /\ ~starting /\ finishing' = finishing
  BY <1>0, ServeKinds
<1>2. CASE Granted1(c, req, r)
  <2>1. CASE owner = NoHandler /\ NoEvent
    <3>1. KeepsOwner(d) /\ SameEvents(d) /\ KeepsState
      BY <1>1, <1>2, <2>1 DEF KeepsOwner, Held, SameEvents, NoEvent, KeepsState, Granted1
    <3> QED BY <1>0, <3>1, QuietClient
  <2>2. CASE Publish(Event("forced", c, FALSE))
    BY <1>0, <1>1, <1>2, <2>2, ForcedClient DEF Granted1
  <2> QED BY <1>2, <2>1, <2>2 DEF Granted1
<1>3. CASE Released(req, r)
  <2>1. KeepsOwner(d) /\ SameEvents(d) /\ KeepsState
    BY <1>0, <1>1, <1>3 DEF KeepsOwner, Released, SameEvents, NoEvent, KeepsState
  <2> QED BY <1>0, <2>1, QuietClient
<1>4. CASE Quiet(req, r) \/ Starting(req, r)
  <2>1. KeepsOwner(d) /\ SameEvents(d) /\ KeepsState
    BY <1>1, <1>4 DEF KeepsOwner, Quiet, Starting, SameEvents, NoEvent, KeepsState
  <2> QED BY <1>0, <2>1, QuietClient
<1>5. CASE Tells(req, r)
  <2>1. PICK ty \in StateTypes : Publish(Event(ty, "-", FALSE)) /\ Class(Told(ty)) = Class(srv')
    BY <1>5 DEF Tells
  <2> QED BY <1>0, <1>5, <2>1, ToldClient DEF Tells
<1> QED BY <1>1, <1>2, <1>3, <1>4, <1>5

(* The client that is served. *)
LEMMA ServeOwn ==
  ASSUME IndInv, NEW c \in Clients, NEW r \in Replies, call[c].reply = "sent",
         Serve(c, call[c], r), SameClient(c), late'[c] = late[c],
         call'[c] = [call[c] EXCEPT !.reply = IF r.ok THEN "ok" ELSE "error", !.got = r.got],
         overtaken'[c] = FALSE
  PROVE  Mine(c)'
<1> DEFINE req == call[c]
<1>0. Types /\ Mine(c) /\ req \in Call /\ r.ok \in BOOLEAN /\ req.op \in Ops
  BY CallType DEF IndInv, Replies, Call
<1>1. /\ Granted1(c, req, r) \/ Released(req, r) \/ Quiet(req, r) \/ Tells(req, r) \/ Starting(req, r)
      /\ ~starting /\ finishing' = finishing
  BY <1>0, ServeKinds
<1>2. /\ call'[c].op = req.op /\ call'[c].with = req.with /\ call'[c].got = r.got
      /\ call'[c].reply = (IF r.ok THEN "ok" ELSE "error")
  BY <1>0 DEF Call
<1>3. conn[c] = "on" /\ joined[c] /\ late[c] = NoCall
  BY <1>0 DEF Mine, Link, NoCall, Call
<1>4. Link(c)'
  BY <1>0, <1>2, <1>3 DEF Mine, Link, SameClient
<1>5. ~ReplyOnItsWay(c)
  BY DEF ReplyOnItsWay
<1>6. CASE Granted1(c, req, r)
  <2>1. Granted(c)'
    <3>1. r.got = owner' /\ r.got # NoHandler /\ handler[c] # r.got
      BY <1>0, <1>6, CallType DEF Granted1, NoHandler
    <3> QED BY <1>2, <3>1 DEF Granted, SameClient
  <2>2. Belief(c)' /\ Answered(c)'
    BY <1>2, <1>6 DEF Granted1, Belief, ReplyOnItsWay, Answered, Ownership
  <2>3. Informed(c)'
    <3>1. CASE NoEvent
      <4>1. SameEvents(c) /\ KeepsState
        BY <1>1, <1>6, <3>1 DEF Granted1, NoEvent, SameEvents, KeepsState
      <4> QED BY <1>0, <4>1, QuietInformed DEF Mine
    <3>2. CASE Publish(Event("forced", c, FALSE))
      <4> DEFINE e == Event("forced", c, FALSE)
      <4>0. e \in EventSet /\ ~IsState(e)
        BY EventType
      <4> HIDE DEF e
      <4>1. /\ events'[c] = Append(events[c], e)
            /\ stale'[c] = stale[c] /\ events[c] \in Seq(EventSet)
        BY <1>0, <1>3, <3>2, <4>0, PublishFacts DEF Types, e
      <4>2. InformedBy(events[c], cstate[c], stale[c], srv)
              => InformedBy(events'[c], cstate'[c], stale'[c], srv)
        BY <4>0, <4>1, InformedOther DEF SameClient
      <4> QED BY <1>0, <1>1, <1>6, <4>2 DEF Mine, Informed, Granted1, SameClient
    <3> QED BY <1>6, <3>1, <3>2 DEF Granted1
  <2> QED BY <1>4, <2>1, <2>2, <2>3 DEF Mine
<1>7. CASE Released(req, r)
  <2>1. SameEvents(c) /\ KeepsState
    BY <1>1, <1>7 DEF Released, NoEvent, SameEvents, KeepsState
  <2>2. Granted(c)' /\ Belief(c)' /\ Answered(c)'
    BY <1>2, <1>7 DEF Released, Granted, Belief, ReplyOnItsWay, Answered, Ownership
  <2> QED BY <1>0, <1>4, <2>1, <2>2, QuietInformed DEF Mine
<1>8. CASE Quiet(req, r) \/ Starting(req, r)
  <2>1. SameEvents(c) /\ KeepsState /\ KeepsOwner(c) /\ r.got = NoHandler
    BY <1>1, <1>8 DEF Quiet, Starting, NoEvent, SameEvents, KeepsState, KeepsOwner
  <2>2. Granted(c)'
    BY <1>2, <1>8, <2>1 DEF Granted, Quiet, Starting, Ownership
  <2>3. Belief(c)'
    BY <1>0, <1>5, <2>1, QuietBelief DEF Mine, SameEvents
  <2>4. Answered(c)'
    <3>1. CASE Quiet(req, r)
      BY <1>2, <3>1 DEF Answered, Quiet
    <3>2. CASE Starting(req, r)
      BY <3>2 DEF Answered, Starting
    <3> QED BY <1>8, <3>1, <3>2
  <2> QED BY <1>0, <1>4, <2>1, <2>2, <2>3, <2>4, QuietInformed DEF Mine
<1>9. CASE Tells(req, r)
  <2>1. PICK ty \in StateTypes : Publish(Event(ty, "-", FALSE)) /\ Class(Told(ty)) = Class(srv')
    BY <1>9 DEF Tells
  <2>2. /\ Informed(c)' /\ (StealOnItsWay(c) <=> StealOnItsWay(c)')
        /\ StatesIn(events'[c]) # {}
    BY <1>0, <1>3, <2>1, ToldInformed DEF Mine
  <2>3. owner' = owner /\ r.got = NoHandler /\ ~Ownership(req.op)
    BY <1>9 DEF Tells
  <2>4. Granted(c)'
    BY <1>2, <2>3 DEF Granted, Ownership
  <2>5. Belief(c)'
    BY <1>0, <1>5, <2>2, <2>3 DEF Mine, Belief, SameClient
  <2>6. Answered(c)'
    BY <2>2 DEF Answered
  <2> QED BY <1>4, <2>2, <2>4, <2>5, <2>6 DEF Mine
<1> QED BY <1>1, <1>6, <1>7, <1>8, <1>9

(* Handlers stay apart when a client learns only what is its own or new. *)
LEMMA ApartKept ==
  ASSUME Types, Apart, generated' \in Nat, generated <= generated',
         NEW c \in Clients, NEW h, Held(c)' \subseteq Held(c) \cup {h},
         h \in Held(c) \/ (h = generated' /\ generated' = generated + 1),
         \A d \in Clients : d # c => Held(d)' = Held(d)
  PROVE  Apart'
<1>0. generated \in Nat /\ \A d \in Clients : \A x \in Held(d) : x \in Nat /\ x <= generated
  <2>1. \A d \in Clients : Held(d) \subseteq Nat
    BY CallType DEF Held
  <2> QED BY <2>1 DEF Types, Apart
<1>1. ASSUME NEW d \in Clients, NEW x \in Held(d)' PROVE x <= generated'
  BY <1>0, <1>1
<1>2. \A d \in Clients : d # c => h \notin Held(d)
  BY <1>0 DEF Apart
<1>3. ASSUME NEW d \in Clients, NEW e \in Clients, d # e PROVE Held(d)' \cap Held(e)' = {}
  BY <1>2, <1>3 DEF Apart
<1> QED BY <1>1, <1>3 DEF Apart

LEMMA ApartSame ==
  ASSUME Types, Apart, generated' = generated,
         \A d \in Clients : Held(d)' \subseteq Held(d)
  PROVE  Apart'
BY DEF Apart

LEMMA StepServeCall ==
  ASSUME IndInv, NEW c \in Clients, ServeCall(c)
  PROVE  IndInv'
<1>0. Types /\ Apart /\ \A d \in Clients : Mine(d)
  BY DEF IndInv
<1>1. call[c].reply = "sent" /\ call[c] \in Call
  BY <1>0, CallType DEF ServeCall
<1>2. PICK r \in Replies :
        /\ Serve(c, call[c], r)
        /\ call' = [call EXCEPT ![c].reply = IF r.ok THEN "ok" ELSE "error", ![c].got = r.got]
  BY DEF ServeCall
<1>3. /\ overtaken' = [overtaken EXCEPT ![c] = FALSE]
      /\ UNCHANGED <<conn, joined, late, timeouts, handler, cstate, robbed>>
  BY DEF ServeCall, beliefVars
<1>4. /\ call'[c] = [call[c] EXCEPT !.reply = IF r.ok THEN "ok" ELSE "error", !.got = r.got]
      /\ \A d \in Clients : d # c => call'[d] = call[d] /\ overtaken'[d] = overtaken[d]
      /\ overtaken'[c] = FALSE
  BY <1>0, <1>2, <1>3 DEF Types
<1>5. r.got \in 0 .. MaxHandlers
  BY DEF Replies
<1>6. call'[c] \in Call /\ call'[c].with = call[c].with /\ call'[c].got = r.got
  BY <1>1, <1>4, <1>5 DEF Call
<1>7. call' \in [Clients -> Call \cup {NoCall}] /\ overtaken' \in [Clients -> BOOLEAN]
  BY <1>0, <1>2, <1>3, <1>4, <1>6 DEF Types
<1>8. /\ srv' \in States /\ endless' \in BOOLEAN
      /\ generated' \in 0 .. MaxHandlers /\ owner' \in 0 .. generated'
      /\ generated <= generated'
      /\ starting' \in BOOLEAN /\ finishing' \in BOOLEAN
      /\ events' \in [Clients -> Seq(EventSet)] /\ stale' \in [Clients -> BOOLEAN]
      /\ \A d \in Clients : Len(events'[d]) <= MaxQueue
  BY <1>0, <1>1, <1>2, ServeTypes
<1>9. Types'
  <2>1. handler' \in [Clients -> 0 .. generated']
    BY <1>0, <1>3, <1>8 DEF Types
  <2> QED BY <1>0, <1>3, <1>7, <1>8, <2>1 DEF Types, States
<1>10. /\ Granted1(c, call[c], r) \/ Released(call[c], r) \/ Quiet(call[c], r) \/ Tells(call[c], r)
         \/ Starting(call[c], r)
       /\ ~starting
  BY <1>0, <1>1, <1>2, ServeKinds
<1>11. Starts'
  BY <1>10 DEF Starts, Granted1, Released, Quiet, Tells, Starting
<1>12. Apart'
  <2>1. \A d \in Clients : d # c => Held(d)' = Held(d)
    BY <1>3, <1>4 DEF Held
  <2>2. Held(c)' \subseteq Held(c) \cup ({r.got} \ {NoHandler})
    BY <1>3, <1>6 DEF Held
  <2>3. CASE r.got = NoHandler /\ generated' = generated
    BY <1>0, <2>1, <2>2, <2>3, ApartSame
  <2>4. CASE r.got = generated' /\ generated' = generated + 1
    <3>1. generated' \in Nat /\ generated <= generated'
      BY <1>8, ClientAssumption
    <3>2. Held(c)' \subseteq Held(c) \cup {r.got}
      BY <2>2
    <3> QED BY <1>0, <2>1, <2>4, <3>1, <3>2, ApartKept
  <2> QED BY <1>10, <2>3, <2>4 DEF Granted1, Released, Quiet, Tells, Starting
<1>13. ASSUME NEW d \in Clients, d # c PROVE Mine(d)'
  <2>1. SameClient(d) /\ SameCall(d)
    BY <1>3, <1>4, <1>13 DEF SameClient, SameCall
  <2> QED BY <1>1, <1>2, <1>13, <2>1, ServeOthers, HeldFacts
<1>14. Mine(c)'
  <2>1. SameClient(c) /\ late'[c] = late[c]
    BY <1>3 DEF SameClient
  <2> QED BY <1>1, <1>2, <1>4, <2>1, ServeOwn
<1> QED BY <1>9, <1>11, <1>12, <1>13, <1>14 DEF IndInv

LEMMA StepServeLate ==
  ASSUME IndInv, NEW c \in Clients, ServeLate(c)
  PROVE  IndInv'
<1>0. Types /\ Apart /\ \A d \in Clients : Mine(d)
  BY DEF IndInv
<1>1. late[c] # NoCall /\ late[c] \in Call
  BY <1>0, CallType DEF ServeLate
<1>2. PICK r \in Replies : Serve(c, late[c], r)
  BY DEF ServeLate
<1>3. /\ late' = [late EXCEPT ![c] = NoCall]
      /\ UNCHANGED <<conn, joined, call, timeouts, handler, cstate, overtaken, robbed>>
  BY DEF ServeLate, beliefVars
<1>4. late'[c] = NoCall /\ \A d \in Clients : d # c => late'[d] = late[d]
  BY <1>0, <1>3 DEF Types
<1>5. late' \in [Clients -> Call \cup {NoCall}]
  BY <1>0, <1>3 DEF Types
<1>8. /\ srv' \in States /\ endless' \in BOOLEAN
      /\ generated' \in 0 .. MaxHandlers /\ owner' \in 0 .. generated'
      /\ generated <= generated'
      /\ starting' \in BOOLEAN /\ finishing' \in BOOLEAN
      /\ events' \in [Clients -> Seq(EventSet)] /\ stale' \in [Clients -> BOOLEAN]
      /\ \A d \in Clients : Len(events'[d]) <= MaxQueue
  BY <1>0, <1>1, <1>2, ServeTypes
<1>9. Types'
  <2>1. handler' \in [Clients -> 0 .. generated']
    BY <1>0, <1>3, <1>8 DEF Types
  <2> QED BY <1>0, <1>3, <1>5, <1>8, <2>1 DEF Types, States
<1>10. /\ Granted1(c, late[c], r) \/ Released(late[c], r) \/ Quiet(late[c], r) \/ Tells(late[c], r)
         \/ Starting(late[c], r)
       /\ ~starting
  BY <1>0, <1>1, <1>2, ServeKinds
<1>11. Starts'
  BY <1>10 DEF Starts, Granted1, Released, Quiet, Tells, Starting
<1>12. Apart'
  <2>1. \A d \in Clients : Held(d)' \subseteq Held(d)
    BY <1>3, <1>4 DEF Held, NoCall, NoHandler
  <2>2. \A d \in Clients : \A x \in Held(d) : x \in Nat /\ x <= generated
    BY <1>0, CallType DEF Held, Apart
  <2> QED BY <1>0, <1>8, <2>1, <2>2 DEF Apart, Types
<1>13. ASSUME NEW d \in Clients, d # c PROVE Mine(d)'
  <2>1. SameClient(d) /\ SameCall(d)
    BY <1>3, <1>4, <1>13 DEF SameClient, SameCall
  <2> QED BY <1>1, <1>2, <1>13, <2>1, ServeOthers, HeldFacts
<1>14. Mine(c)'
  <2>1. conn[c] = "off" /\ handler[c] = NoHandler /\ call[c] = NoCall /\ ~joined[c] /\ events[c] = << >>
    BY <1>0, <1>1 DEF Mine, Link
  <2>2. events'[c] = << >>
    <3>1. NoEvent \/ \E e \in EventSet : Publish(e)
      <4>1. CASE Granted1(c, late[c], r)
        BY <4>1, EventType DEF Granted1
      <4>2. CASE Tells(late[c], r)
        BY <4>2, EventType DEF Tells
      <4> QED BY <1>10, <4>1, <4>2 DEF Released, Quiet, Starting
    <3> QED BY <1>0, <2>1, <3>1, PublishFacts DEF NoEvent
  <2> QED BY <1>3, <1>4, <2>1, <2>2 DEF Mine, Link, Granted, Belief, Informed, Answered, NoCall, NoHandler
<1> QED BY <1>9, <1>11, <1>12, <1>13, <1>14 DEF IndInv

LEMMA StepPublish ==
  ASSUME IndInv, PublishStarted \/ PublishFinished
  PROVE  IndInv'
<1>0. Types /\ Apart /\ Starts /\ \A d \in Clients : Mine(d)
  BY DEF IndInv
<1>1. UNCHANGED <<srv, endless, owner, generated, linkVars, beliefVars, overtaken, robbed>>
  BY DEF PublishStarted, PublishFinished
<1>2. PICK ty \in StateTypes, b \in BOOLEAN :
        /\ Publish(Event(ty, "-", b)) /\ starting' \in BOOLEAN /\ finishing' \in BOOLEAN
        /\ starting' => starting
        /\ ~starting' /\ ~finishing' => b \/ Class(Told(ty)) = Class(srv')
  <2>1. CASE PublishStarted
    <3> DEFINE b == ~Active(srv) /\ ~finishing
    <3>1. /\ Publish(Event("started", "-", b)) /\ b \in BOOLEAN /\ "started" \in StateTypes
          /\ starting' = FALSE /\ finishing' = finishing /\ srv' = srv /\ starting
      BY <2>1 DEF PublishStarted, StateTypes
    <3>2. ~finishing => b \/ Class(Told("started")) = Class(srv)
      BY <1>0, <3>1 DEF Starts, Told, Class, Active
    <3> HIDE DEF b
    <3> QED BY <1>0, <3>1, <3>2 DEF Types
  <2>2. CASE PublishFinished
    <3> DEFINE b == Active(srv) /\ ~starting
    <3>1. /\ Publish(Event("stopped", "-", b)) /\ b \in BOOLEAN /\ "stopped" \in StateTypes
          /\ finishing' = FALSE /\ starting' = starting /\ srv' = srv
      BY <2>2 DEF PublishFinished, StateTypes
    <3>2. ~starting => b \/ Class(Told("stopped")) = Class(srv)
      BY DEF Told, Class, Active
    <3> HIDE DEF b
    <3> QED BY <1>0, <3>1, <3>2 DEF Types
  <2> QED BY <2>1, <2>2
<1>3. Types'
  <2>1. /\ events' \in [Clients -> Seq(EventSet)] /\ stale' \in [Clients -> BOOLEAN]
        /\ \A c \in Clients : Len(events'[c]) <= MaxQueue
    BY <1>0, <1>2, PublishFacts, EventType
  <2> QED BY <1>0, <1>1, <1>2, <2>1 DEF Types, linkVars, beliefVars
<1>4. Starts'
  BY <1>0, <1>1, <1>2 DEF Starts
<1>5. Apart'
  <2>1. \A d \in Clients : Held(d)' = Held(d)
    BY <1>1 DEF Held, linkVars, beliefVars
  <2> QED BY <1>0, <1>1, <2>1, ApartSame
<1>6. ASSUME NEW d \in Clients PROVE Mine(d)'
  <2>1. SameClient(d) /\ SameCall(d) /\ owner' = owner
    BY <1>1 DEF SameClient, SameCall, linkVars, beliefVars
  <2> QED BY <1>0, <1>2, <2>1, ToldClient
<1> QED BY <1>3, <1>4, <1>5, <1>6 DEF IndInv

LEMMA StepFinish ==
  ASSUME IndInv, Finish
  PROVE  IndInv'
<1>0. Types /\ Apart /\ Starts /\ \A d \in Clients : Mine(d)
  BY DEF IndInv
<1>1. /\ UNCHANGED <<endless, owner, generated, starting, linkVars, events, beliefVars, histVars>>
      /\ srv' = "STREAMS" /\ finishing' = TRUE
  BY DEF Finish
<1>2. Types' /\ Starts'
  BY <1>0, <1>1 DEF Types, Starts, linkVars, beliefVars, histVars
<1>3. Apart'
  <2>1. \A d \in Clients : Held(d)' = Held(d)
    BY <1>1 DEF Held, linkVars, beliefVars
  <2> QED BY <1>0, <1>1, <2>1, ApartSame
<1>4. ASSUME NEW d \in Clients PROVE Mine(d)'
  <2>1. SameClient(d) /\ SameCall(d) /\ SameEvents(d) /\ KeepsOwner(d) /\ KeepsState
    BY <1>1 DEF SameClient, SameCall, SameEvents, KeepsOwner, KeepsState, linkVars, beliefVars, histVars
  <2> QED BY <1>0, <2>1, QuietClient
<1> QED BY <1>2, <1>3, <1>4 DEF IndInv

-----------------------------------------------------------------------------
(***************************************************************************)
(* The client's steps leave the server and the other clients alone.        *)
(***************************************************************************)
OnlyClient(c) ==
  /\ UNCHANGED serverVars
  /\ \A d \in Clients : d # c => SameClient(d) /\ SameCall(d) /\ SameEvents(d)

LEMMA ClientAlone ==
  ASSUME IndInv, NEW c \in Clients, OnlyClient(c), Types', Mine(c)', Held(c)' \subseteq Held(c)
  PROVE  IndInv'
<1>0. Types /\ Apart /\ Starts /\ \A d \in Clients : Mine(d)
  BY DEF IndInv
<1>1. Starts'
  BY <1>0 DEF Starts, OnlyClient, serverVars
<1>2. Apart'
  <2>1. \A d \in Clients : Held(d)' \subseteq Held(d)
    BY DEF Held, OnlyClient, SameClient, SameCall
  <2> QED BY <1>0, <2>1, ApartSame DEF OnlyClient, serverVars
<1>3. ASSUME NEW d \in Clients, d # c PROVE Mine(d)'
  <2>1. SameClient(d) /\ SameCall(d) /\ SameEvents(d) /\ KeepsOwner(d) /\ KeepsState
    BY <1>3 DEF OnlyClient, KeepsOwner, KeepsState, serverVars
  <2> QED BY <1>0, <2>1, QuietClient
<1> QED BY <1>1, <1>2, <1>3 DEF IndInv

LEMMA NothingInformed ==
  /\ StatesIn(<< >>) = {} /\ (\A c : ~StealIn(c, << >>))
  /\ \A st, sv : Class(st) = Class(sv) => InformedBy(<< >>, st, FALSE, sv)
BY DEF StatesIn, StealIn, InformedBy

(* Whoever is off has nothing and knows nothing. *)
LEMMA OffMine ==
  ASSUME IndInv, NEW c \in Clients, Off(c), UNCHANGED serverVars,
         late'[c] = NoCall \/ late'[c] \in Call, late'[c] # NoCall => late'[c].reply = "sent",
         late'[c].got = NoHandler
  PROVE  Mine(c)'
<1>0. Types
  BY DEF IndInv
<1>1. /\ conn'[c] = "off" /\ joined'[c] = FALSE /\ events'[c] = << >> /\ call'[c] = NoCall
      /\ handler'[c] = NoHandler
  BY <1>0 DEF Off, Types
<1> QED BY <1>1 DEF Mine, Link, Granted, Belief, Informed, Answered, NoCall, NoHandler

LEMMA OffTypes ==
  ASSUME IndInv, NEW c \in Clients, Off(c), UNCHANGED serverVars,
         late' \in [Clients -> Call \cup {NoCall}], timeouts' \in 0 .. MaxTimeouts
  PROVE  Types' /\ \A d \in Clients : d # c => SameClient(d) /\ SameEvents(d) /\ call'[d] = call[d]
                                               /\ overtaken'[d] = overtaken[d]
<1>0. Types
  BY DEF IndInv
<1>1. << >> \in Seq(EventSet) /\ Len(<< >>) = 0 /\ NoHandler \in 0 .. generated
  BY <1>0 DEF NoHandler, Types
<1>2. /\ events' \in [Clients -> Seq(EventSet)]
      /\ \A d \in Clients : Len(events'[d]) <= MaxQueue
  <2>1. events' = [events EXCEPT ![c] = << >>]
    BY DEF Off
  <2>2. \A d \in Clients : events'[d] = IF d = c THEN << >> ELSE events[d]
    BY <1>0, <2>1 DEF Types
  <2> QED BY <1>0, <1>1, <2>1, <2>2, ClientAssumption DEF Types
<1>3. Types'
  BY <1>0, <1>1, <1>2 DEF Types, Off, serverVars
<1>4. \A d \in Clients : d # c => SameClient(d) /\ SameEvents(d) /\ call'[d] = call[d]
                                  /\ overtaken'[d] = overtaken[d]
  BY <1>0 DEF Types, Off, SameClient, SameEvents
<1> QED BY <1>3, <1>4

LEMMA StepOff ==
  ASSUME IndInv, NEW c \in Clients, ConnectFails(c) \/ Disconnect(c)
  PROVE  IndInv'
<1>0. Types /\ Mine(c)
  BY DEF IndInv
<1>1. Off(c) /\ UNCHANGED <<serverVars, late, timeouts>> /\ conn[c] # "off"
  BY DEF ConnectFails, Disconnect
<1>2. late[c] = NoCall
  BY <1>0, <1>1 DEF Mine, Link
<1>3. Mine(c)'
  BY <1>1, <1>2, OffMine DEF NoCall, NoHandler
<1>4. Types' /\ \A d \in Clients : d # c => SameClient(d) /\ SameEvents(d) /\ call'[d] = call[d]
                                           /\ overtaken'[d] = overtaken[d]
  BY <1>0, <1>1, OffTypes DEF Types
<1>5. OnlyClient(c)
  BY <1>1, <1>4 DEF OnlyClient, SameCall
<1>6. Held(c)' \subseteq Held(c)
  BY <1>0, <1>1 DEF Held, Off, Types, NoCall, NoHandler
<1> QED BY <1>3, <1>4, <1>5, <1>6, ClientAlone

LEMMA StepTimeout ==
  ASSUME IndInv, NEW c \in Clients, Timeout(c)
  PROVE  IndInv'
<1>0. Types /\ Mine(c)
  BY DEF IndInv
<1>1. Off(c) /\ UNCHANGED serverVars /\ call[c] # NoCall /\ timeouts' \in 0 .. MaxTimeouts
  BY <1>0, ClientAssumption DEF Timeout, Types
<1>2. PICK x \in {call[c], NoCall} :
        (x = NoCall \/ x.reply = "sent") /\ late' = [late EXCEPT ![c] = x]
  BY DEF Timeout
<1>3. late' \in [Clients -> Call \cup {NoCall}] /\ late'[c] = x
      /\ \A d \in Clients : d # c => late'[d] = late[d]
  BY <1>0, <1>2 DEF Types
<1>4. /\ late'[c] = NoCall \/ late'[c] \in Call
      /\ late'[c] # NoCall => late'[c].reply = "sent"
      /\ late'[c].got = NoHandler
  <2>1. NoCall.got = NoHandler /\ (call[c].reply = "sent" => call[c].got = NoHandler)
    BY <1>0 DEF Mine, Link, NoCall, NoHandler
  <2> QED BY <1>0, <1>2, <1>3, <2>1, CallType
<1>5. Mine(c)'
  BY <1>1, <1>4, OffMine
<1>6. Types' /\ \A d \in Clients : d # c => SameClient(d) /\ SameEvents(d) /\ call'[d] = call[d]
                                           /\ overtaken'[d] = overtaken[d]
  BY <1>1, <1>3, OffTypes
<1>7. OnlyClient(c)
  BY <1>1, <1>3, <1>6 DEF OnlyClient, SameCall
<1>8. Held(c)' \subseteq Held(c)
  BY <1>0, <1>1, <1>2, <1>3 DEF Held, Off, Types, NoCall, NoHandler
<1> QED BY <1>5, <1>6, <1>7, <1>8, ClientAlone

LEMMA StepConnectSync ==
  ASSUME IndInv, NEW c \in Clients, ConnectSync(c)
  PROVE  IndInv'
<1>0. Types /\ Mine(c) /\ Starts
  BY DEF IndInv
<1>1. /\ conn[c] = "off" /\ late[c] = NoCall
      /\ call[c] = NoCall /\ handler[c] = NoHandler /\ ~joined[c] /\ events[c] = << >>
  BY <1>0 DEF ConnectSync, Mine, Link
<1>2. /\ conn'[c] = "waiting" /\ handler'[c] = NoHandler /\ cstate'[c] = srv
      /\ UNCHANGED <<serverVars, joined, call, late, timeouts, events, overtaken>>
  BY <1>0 DEF ConnectSync, Types
<1>3. Types'
  <2>1. stale' \in [Clients -> BOOLEAN]
    BY <1>0 DEF ConnectSync, Types
  <2> QED BY <1>0, <1>2, <2>1 DEF ConnectSync, Types, serverVars, NoHandler
<1>4. OnlyClient(c)
  BY <1>0, <1>2 DEF OnlyClient, SameClient, SameCall, SameEvents, ConnectSync, Types
<1>5. Held(c)' \subseteq Held(c)
  BY <1>1, <1>2 DEF Held
<1>6. Mine(c)'
  <2>1. Informed(c)'
    BY <1>1, <1>2, NothingInformed DEF Informed, InformedBy, serverVars
  <2> QED BY <1>1, <1>2, <2>1 DEF Mine, Link, Granted, Belief, Answered, NoCall, NoHandler
<1> QED BY <1>3, <1>4, <1>5, <1>6, ClientAlone

LEMMA StepJoin ==
  ASSUME IndInv, NEW c \in Clients, Join(c)
  PROVE  IndInv'
<1>0. Types /\ Mine(c)
  BY DEF IndInv
<1>1. /\ conn[c] = "waiting" /\ joined'[c] = TRUE
      /\ UNCHANGED <<serverVars, conn, call, late, timeouts, events, beliefVars, histVars>>
  BY <1>0 DEF Join, Types
<1>2. Types'
  BY <1>0, <1>1 DEF Join, Types, serverVars, beliefVars, histVars
<1>3. OnlyClient(c)
  BY <1>0, <1>1 DEF OnlyClient, SameClient, SameCall, SameEvents, Join, Types, beliefVars, histVars
<1>4. Held(c)' \subseteq Held(c)
  BY <1>1 DEF Held, beliefVars
<1>5. handler[c] = NoHandler /\ call[c] = NoCall
  BY <1>0, <1>1 DEF Mine, Link
<1>6. Mine(c)'
  BY <1>0, <1>1, <1>5 DEF Mine, Link, Granted, Belief, Informed, Answered, NoCall, NoHandler,
                          serverVars, beliefVars, histVars
<1> QED BY <1>2, <1>3, <1>4, <1>6, ClientAlone

LEMMA StepBarrier ==
  ASSUME IndInv, NEW c \in Clients, Barrier(c)
  PROVE  IndInv'
<1> DEFINE e == Event("barrier", "-", FALSE)
<1>0. Types /\ Mine(c) /\ e \in EventSet /\ ~IsState(e)
  BY DEF IndInv, Event, EventSet, IsState
<1> HIDE DEF e
<1>1. /\ conn[c] = "waiting" /\ joined[c] /\ Len(events[c]) < MaxQueue
      /\ events' = [events EXCEPT ![c] = Append(events[c], e)]
      /\ UNCHANGED <<serverVars, linkVars, beliefVars, histVars>>
  BY DEF Barrier, e
<1>2. /\ events'[c] = Append(events[c], e) /\ events[c] \in Seq(EventSet)
      /\ \A d \in Clients : d # c => events'[d] = events[d]
  BY <1>0, <1>1 DEF Types
<1>3. events' \in [Clients -> Seq(EventSet)] /\ \A d \in Clients : Len(events'[d]) <= MaxQueue
  <2>1. events'[c] \in Seq(EventSet) /\ Len(events'[c]) = Len(events[c]) + 1 /\ Len(events[c]) \in Nat
    BY <1>0, <1>2, AppendFacts
  <2>2. Len(events'[c]) <= MaxQueue
    BY <1>1, <2>1, ClientAssumption
  <2> QED BY <1>0, <1>1, <1>2, <2>1, <2>2 DEF Types
<1>4. Types'
  BY <1>0, <1>1, <1>3 DEF Types, serverVars, linkVars, beliefVars, histVars
<1>5. OnlyClient(c)
  BY <1>1, <1>2 DEF OnlyClient, SameClient, SameCall, SameEvents, linkVars, beliefVars, histVars
<1>6. Held(c)' \subseteq Held(c)
  BY <1>1 DEF Held, linkVars, beliefVars
<1>7. handler[c] = NoHandler /\ call[c] = NoCall
  BY <1>0, <1>1 DEF Mine, Link
<1>8. Informed(c)'
  <2>1. InformedBy(events[c], cstate[c], stale[c], srv) => InformedBy(events'[c], cstate[c], stale[c], srv)
    BY <1>0, <1>2, InformedOther
  <2> QED BY <1>0, <1>1, <2>1 DEF Mine, Informed, serverVars, linkVars, beliefVars, histVars
<1>9. Mine(c)'
  BY <1>0, <1>1, <1>7, <1>8 DEF Mine, Link, Granted, Belief, Answered, NoCall, NoHandler,
                          linkVars, beliefVars
<1> QED BY <1>4, <1>5, <1>6, <1>9, ClientAlone

LEMMA StepSend ==
  ASSUME IndInv, NEW c \in Clients, NEW op \in Ops, Send(c, op)
  PROVE  IndInv'
<1>0. Types /\ Mine(c)
  BY DEF IndInv
<1>1. /\ conn[c] = "on" /\ call[c] = NoCall /\ call' = [call EXCEPT ![c] = Command(op, handler[c])]
      /\ UNCHANGED <<serverVars, conn, joined, late, timeouts, events, beliefVars, histVars>>
  BY DEF Send
<1>2. call'[c] = Command(op, handler[c]) /\ \A d \in Clients : d # c => call'[d] = call[d]
  BY <1>0, <1>1 DEF Types
<1>3. /\ Command(op, handler[c]).with = handler[c] /\ Command(op, handler[c]).reply = "sent"
      /\ Command(op, handler[c]).got = NoHandler
      /\ Command(op, handler[c]) \in Call
  <2>1. handler[c] \in 0 .. MaxHandlers /\ NoHandler \in 0 .. MaxHandlers
    BY <1>0, CallType, ClientAssumption DEF NoHandler
  <2> QED BY <2>1 DEF Command, Call
<1>4. Types'
  <2>1. call' \in [Clients -> Call \cup {NoCall}]
    BY <1>0, <1>1, <1>3 DEF Types
  <2> QED BY <1>0, <1>1, <2>1 DEF Types, serverVars, beliefVars, histVars
<1>5. OnlyClient(c)
  BY <1>1, <1>2 DEF OnlyClient, SameClient, SameCall, SameEvents, beliefVars, histVars
<1>6. Held(c)' \subseteq Held(c)
  BY <1>1, <1>2, <1>3 DEF Held, beliefVars
<1>7. Mine(c)'
  <2>1. Link(c)' /\ Granted(c)' /\ Answered(c)'
    BY <1>0, <1>1, <1>2, <1>3 DEF Mine, Link, Granted, Answered, beliefVars
  <2>2. StealOnItsWay(c)' <=> StealOnItsWay(c)
    BY <1>1 DEF StealOnItsWay
  <2>3. ~ReplyOnItsWay(c)
    BY <1>1 DEF ReplyOnItsWay, NoCall
  <2>4. Belief(c)' /\ Informed(c)'
    BY <1>0, <1>1, <2>2, <2>3 DEF Mine, Belief, Informed, serverVars, beliefVars, histVars
  <2> QED BY <2>1, <2>4 DEF Mine
<1> QED BY <1>4, <1>5, <1>6, <1>7, ClientAlone

(* A reply sets the belief, rightly unless something overtook it. *)
LEMMA StepReturn ==
  ASSUME IndInv, NEW c \in Clients, Return(c)
  PROVE  IndInv'
<1> DEFINE x == call[c]
           sets == x.reply = "ok" /\ ~Ownership(x.op)
           again == x.op \in {"acquire", "force"} /\ x.reply = "error"
<1>0. Types /\ Mine(c)
  BY DEF IndInv
<1>1. /\ x.reply \in {"ok", "error"} /\ x \in Call /\ conn[c] = "on" /\ x # NoCall
      /\ UNCHANGED <<serverVars, conn, joined, late, timeouts, events>>
  <2>1. x.reply \in {"ok", "error"} /\ UNCHANGED <<serverVars, conn, joined, late, timeouts, events>>
    BY DEF Return
  <2>2. x # NoCall
    BY <2>1 DEF NoCall
  <2> QED BY <1>0, <2>1, <2>2, CallType DEF Mine, Link
<1>2. /\ call' = [call EXCEPT ![c] = IF again THEN Command("release", handler[c]) ELSE NoCall]
      /\ handler' = [handler EXCEPT ![c] = HandlerAfter(x, handler[c])]
      /\ cstate' = [cstate EXCEPT ![c] = IF x.reply = "ok" THEN After(x.op, cstate[c]) ELSE cstate[c]]
      /\ stale' = IF sets THEN [stale EXCEPT ![c] = overtaken[c]] ELSE stale
      /\ robbed' = IF handler'[c] # handler[c]
                   THEN [robbed EXCEPT ![c] = handler'[c] # NoHandler /\ overtaken[c]]
                   ELSE robbed
      /\ overtaken' = [overtaken EXCEPT ![c] = FALSE]
  BY DEF Return
<1>3. /\ handler[c] \in 0 .. generated /\ handler[c] \in 0 .. MaxHandlers /\ x.got \in 0 .. generated
      /\ NoHandler \in 0 .. MaxHandlers /\ NoHandler \in 0 .. generated
      /\ cstate[c] \in States /\ overtaken[c] \in BOOLEAN /\ x.op \in Ops
  <2>1. x.got # NoHandler => x.got <= generated
    BY HeldFacts DEF IndInv, Apart
  <2> QED BY <1>0, <1>1, <2>1, CallType, ClientAssumption DEF Types, States, Call, NoHandler
<1>4. /\ HandlerAfter(x, handler[c]) \in {x.got, NoHandler, handler[c]}
      /\ After(x.op, cstate[c]) \in States
  BY <1>3 DEF HandlerAfter, After, States
<1>5. /\ Command("release", handler[c]).with = handler[c] /\ Command("release", handler[c]).reply = "sent"
      /\ Command("release", handler[c]).got = NoHandler
      /\ Command("release", handler[c]) \in Call
  BY <1>3 DEF Command, Call, Ops
<1>6. /\ call'[c] = (IF again THEN Command("release", handler[c]) ELSE NoCall)
      /\ handler'[c] = HandlerAfter(x, handler[c])
      /\ cstate'[c] = (IF x.reply = "ok" THEN After(x.op, cstate[c]) ELSE cstate[c])
      /\ stale'[c] = (IF sets THEN overtaken[c] ELSE stale[c])
      /\ robbed'[c] = (IF handler'[c] # handler[c] THEN handler'[c] # NoHandler /\ overtaken[c]
                       ELSE robbed[c])
  BY <1>0, <1>2 DEF Types
<1>7. Types'
  <2>1. call' \in [Clients -> Call \cup {NoCall}] /\ handler' \in [Clients -> 0 .. generated]
        /\ cstate' \in [Clients -> States]
    BY <1>0, <1>2, <1>3, <1>4, <1>5 DEF Types, States
  <2>2. stale' \in [Clients -> BOOLEAN] /\ robbed' \in [Clients -> BOOLEAN]
        /\ overtaken' \in [Clients -> BOOLEAN]
    BY <1>0, <1>2, <1>3 DEF Types
  <2> QED BY <1>0, <1>1, <2>1, <2>2 DEF Types, serverVars, States
<1>8. OnlyClient(c)
  BY <1>0, <1>1, <1>2 DEF OnlyClient, SameClient, SameCall, SameEvents, Types
<1>9. Held(c)' \subseteq Held(c)
  BY <1>1, <1>4, <1>5, <1>6 DEF Held, NoCall, NoHandler
<1>10. call'[c].reply # "ok" /\ call'[c].got = NoHandler /\ ~(call'[c].op \in {"acquire", "force"})
  BY <1>5, <1>6 DEF NoCall, NoHandler, Command
<1>11. Link(c)' /\ Granted(c)' /\ Answered(c)'
  BY <1>0, <1>1, <1>10 DEF Mine, Link, Granted, Answered
<1>12. Belief(c)'
  <2>0. StealOnItsWay(c)' <=> StealOnItsWay(c)
    BY <1>1 DEF StealOnItsWay
  <2>1. CASE x.op \in {"acquire", "force"} /\ x.reply = "ok"
    <3>1. handler'[c] = x.got /\ x.got # handler[c] /\ x.got # NoHandler
          /\ (x.got = owner \/ StealOnItsWay(c) \/ overtaken[c])
      BY <1>0, <1>6, <2>1 DEF HandlerAfter, Mine, Granted
    <3>2. robbed'[c] = overtaken[c]
      BY <1>3, <1>6, <3>1
    <3> QED BY <1>1, <2>0, <3>1, <3>2 DEF Belief, serverVars
  <2>2. CASE x.op = "release"
    <3>1. handler'[c] = NoHandler
      BY <1>6, <2>2 DEF HandlerAfter
    <3> QED BY <3>1 DEF Belief
  <2>3. CASE ~(x.op \in {"acquire", "force"} /\ x.reply = "ok") /\ x.op # "release"
    <3>1. handler'[c] = handler[c]
      BY <1>6, <2>3 DEF HandlerAfter
    <3>2. robbed'[c] = robbed[c] /\ ~ReplyOnItsWay(c)
      BY <1>6, <2>3, <3>1 DEF ReplyOnItsWay, Ownership
    <3> QED BY <1>0, <1>1, <2>0, <3>1, <3>2 DEF Mine, Belief, serverVars
  <2> QED BY <2>1, <2>2, <2>3
<1>13. Informed(c)'
  <2> SUFFICES ASSUME ~starting, ~finishing
               PROVE  InformedBy(events[c], cstate'[c], stale'[c], srv)
    BY <1>1 DEF Informed, serverVars
  <2>1. InformedBy(events[c], cstate[c], stale[c], srv)
    BY <1>0, <1>1 DEF Mine, Informed
  <2>2. CASE sets
    <3>1. stale'[c] = overtaken[c] /\ cstate'[c] = After(x.op, cstate[c])
      BY <1>6, <2>2
    <3>2. StatesIn(events[c]) = {} => overtaken[c] \/ Class(After(x.op, cstate[c])) = Class(srv)
      BY <1>0, <2>2 DEF Mine, Answered
    <3> QED BY <2>1, <3>1, <3>2 DEF InformedBy
  <2>3. CASE ~sets
    <3>1. stale'[c] = stale[c] /\ cstate'[c] = cstate[c]
      BY <1>6, <2>3 DEF After, Ownership
    <3> QED BY <2>1, <3>1
  <2> QED BY <2>2, <2>3
<1> QED BY <1>7, <1>8, <1>9, <1>11, <1>12, <1>13, ClientAlone DEF Mine

LEMMA StepDeliver ==
  ASSUME IndInv, NEW c \in Clients, Deliver(c)
  PROVE  IndInv'
<1> DEFINE q == events[c]
           e == Head(q)
<1>0. Types /\ Mine(c) /\ q \in Seq(EventSet) /\ q # << >> /\ e \in EventSet
  BY TailFacts DEF IndInv, Deliver, Types
<1>1. /\ events' = [events EXCEPT ![c] = Tail(q)]
      /\ conn' = [conn EXCEPT ![c] = IF e.type = "barrier" THEN "on" ELSE conn[c]]
      /\ cstate' = IF IsState(e) THEN [cstate EXCEPT ![c] = Told(e.type)] ELSE cstate
      /\ handler' = IF StealsFrom(c, e) THEN [handler EXCEPT ![c] = NoHandler] ELSE handler
      /\ stale' = IF IsState(e) THEN [stale EXCEPT ![c] = e.disorder] ELSE stale
      /\ robbed' = IF StealsFrom(c, e) THEN [robbed EXCEPT ![c] = FALSE] ELSE robbed
      /\ overtaken' = [overtaken EXCEPT ![c] = overtaken[c] \/ BearsOn(e, c, call[c])]
      /\ UNCHANGED <<serverVars, joined, call, late, timeouts>>
  BY DEF Deliver
<1>2. joined[c] /\ conn[c] # "off" /\ late[c] = NoCall
  BY <1>0 DEF Mine, Link
<1>3. /\ events'[c] = Tail(q) /\ \A d \in Clients : d # c => events'[d] = events[d]
      /\ conn'[c] = (IF e.type = "barrier" THEN "on" ELSE conn[c])
      /\ cstate'[c] = (IF IsState(e) THEN Told(e.type) ELSE cstate[c])
      /\ handler'[c] = (IF StealsFrom(c, e) THEN NoHandler ELSE handler[c])
      /\ stale'[c] = (IF IsState(e) THEN e.disorder ELSE stale[c])
      /\ ~StealsFrom(c, e) => robbed'[c] = robbed[c]
      /\ overtaken'[c] = (overtaken[c] \/ BearsOn(e, c, call[c]))
  BY <1>0, <1>1 DEF Types
<1>4. Tail(q) \in Seq(EventSet) /\ Len(Tail(q)) <= MaxQueue
  <2>1. Len(Tail(q)) = Len(q) - 1 /\ Len(q) <= MaxQueue /\ Len(q) \in Nat /\ Tail(q) \in Seq(EventSet)
    BY <1>0, TailFacts DEF Types
  <2> QED BY <2>1, ClientAssumption
<1>5. Types'
  <2>1. events' \in [Clients -> Seq(EventSet)] /\ \A d \in Clients : Len(events'[d]) <= MaxQueue
    BY <1>0, <1>1, <1>3, <1>4 DEF Types
  <2>2. IsState(e) => Told(e.type) \in States /\ e.disorder \in BOOLEAN
    BY <1>0 DEF IsState, Told, States, EventSet
  <2>3. cstate' \in [Clients -> States] /\ stale' \in [Clients -> BOOLEAN]
    BY <1>0, <1>1, <2>2 DEF Types, States
  <2>4. handler' \in [Clients -> 0 .. generated] /\ conn' \in [Clients -> {"off", "waiting", "on"}]
        /\ robbed' \in [Clients -> BOOLEAN]
    BY <1>0, <1>1 DEF Types, NoHandler
  <2>5. overtaken' \in [Clients -> BOOLEAN]
    BY <1>0, <1>1 DEF Types, BearsOn
  <2> QED BY <1>0, <1>1, <2>1, <2>3, <2>4, <2>5 DEF Types, serverVars, States
<1>6. OnlyClient(c)
  BY <1>0, <1>1, <1>3 DEF OnlyClient, SameClient, SameCall, SameEvents, Types
<1>7. Held(c)' \subseteq Held(c)
  BY <1>1, <1>3 DEF Held
<1>8. Link(c)'
  BY <1>0, <1>1, <1>2, <1>3 DEF Mine, Link
<1>9. ~StealsFrom(c, e) => (StealOnItsWay(c)' <=> StealOnItsWay(c))
  BY <1>0, <1>3, StealTail DEF StealOnItsWay, StealIn
<1>10. Granted(c)'
  <2>1. ASSUME call[c].op \in {"acquire", "force"}, call[c].reply = "ok", StealsFrom(c, e)
        PROVE  overtaken'[c]
    BY <1>3, <2>1 DEF BearsOn, Ownership
  <2> QED BY <1>0, <1>1, <1>3, <1>9, <2>1 DEF Mine, Granted, serverVars
<1>11. Belief(c)'
  <2>1. CASE StealsFrom(c, e)
    BY <1>3, <2>1 DEF Belief
  <2>2. CASE ~StealsFrom(c, e)
    <3>1. ReplyOnItsWay(c)' <=> ReplyOnItsWay(c)
      BY <1>1 DEF ReplyOnItsWay
    <3>2. handler[c] # NoHandler => conn[c] = "on"
      BY <1>0 DEF Mine, Link
    <3> QED BY <1>0, <1>1, <1>3, <1>9, <2>2, <3>1, <3>2 DEF Mine, Belief, serverVars
  <2> QED BY <2>1, <2>2
<1>12. Informed(c)'
  <2> SUFFICES ASSUME ~starting, ~finishing
               PROVE  InformedBy(Tail(q), cstate'[c], stale'[c], srv)
    BY <1>1, <1>3 DEF Informed, serverVars
  <2>1. InformedBy(q, cstate[c], stale[c], srv)
    BY <1>0, <1>2 DEF Mine, Informed
  <2> QED BY <1>0, <1>3, <2>1, InformedTail
<1>13. Answered(c)'
  <2> SUFFICES ASSUME call[c].reply = "ok", ~Ownership(call[c].op), ~overtaken'[c],
                      StatesIn(Tail(q)) = {}, ~starting, ~finishing
               PROVE  Class(After(call[c].op, cstate'[c])) = Class(srv)
    BY <1>1, <1>3 DEF Answered, serverVars
  <2>1. ~overtaken[c] /\ ~IsState(e)
    BY <1>3 DEF BearsOn
  <2>2. StatesIn(q) = {}
    <3>1. /\ \A k \in StatesIn(q) : k = 1 \/ k - 1 \in StatesIn(Tail(q))
          /\ 1 \in StatesIn(q) <=> IsState(e)
      BY <1>0, StatesTail
    <3> QED BY <2>1, <3>1
  <2> QED BY <1>0, <1>3, <2>1, <2>2 DEF Mine, Answered
<1> QED BY <1>5, <1>6, <1>7, <1>8, <1>10, <1>11, <1>12, <1>13, ClientAlone DEF Mine

-----------------------------------------------------------------------------
LEMMA InitInv == Init => IndInv
<1> SUFFICES ASSUME Init PROVE IndInv
  OBVIOUS
<1>1. << >> \in Seq(EventSet) /\ Len(<< >>) = 0
  OBVIOUS
<1>2. Types
  <2>1. /\ events \in [Clients -> Seq(EventSet)] /\ \A c \in Clients : events[c] = << >>
        /\ \A c \in Clients : Len(events[c]) <= MaxQueue
    BY <1>1, ClientAssumption DEF Init
  <2>2. generated \in 0 .. MaxHandlers /\ owner \in 0 .. generated /\ timeouts \in 0 .. MaxTimeouts
        /\ handler \in [Clients -> 0 .. generated]
    BY ClientAssumption DEF Init, NoHandler
  <2> QED BY <2>1, <2>2 DEF Init, Types
<1>3. \A c \in Clients : Held(c) = {}
  BY DEF Init, Held, NoCall, NoHandler
<1>4. \A c \in Clients : Mine(c)
  BY DEF Init, Mine, Link, Granted, Belief, Informed, Answered, NoCall, NoHandler
<1> QED BY <1>2, <1>3, <1>4 DEF IndInv, Apart, Starts, Init

LEMMA StepInv == IndInv /\ [Next]_vars => IndInv'
<1> SUFFICES ASSUME IndInv, [Next]_vars PROVE IndInv'
  OBVIOUS
<1>1. CASE UNCHANGED vars
  <2>1. Types' /\ Starts'
    BY <1>1 DEF IndInv, Types, Starts, vars, serverVars, linkVars, beliefVars, histVars
  <2>2. \A c \in Clients : Held(c)' \subseteq Held(c)
    BY <1>1 DEF Held, vars, linkVars, beliefVars
  <2>3. Apart'
    BY <1>1, <2>2, ApartSame DEF IndInv, vars, serverVars
  <2>4. ASSUME NEW d \in Clients PROVE Mine(d)'
    <3>1. SameClient(d) /\ SameCall(d) /\ SameEvents(d) /\ KeepsOwner(d) /\ KeepsState
      BY <1>1 DEF SameClient, SameCall, SameEvents, KeepsOwner, KeepsState,
                  vars, serverVars, linkVars, beliefVars, histVars
    <3> QED BY <3>1, QuietClient DEF IndInv
  <2> QED BY <2>1, <2>3, <2>4 DEF IndInv
<1> QED BY <1>1, StepServeCall, StepServeLate, StepPublish, StepFinish, StepOff, StepTimeout,
           StepConnectSync, StepJoin, StepBarrier, StepSend, StepReturn, StepDeliver
        DEF Next, ClientStep

(***************************************************************************)
(* The inductive invariant: who can have what while connecting, handlers   *)
(* known to one client only, and what is still on its way to each client.  *)
(***************************************************************************)
THEOREM ClientInvariant == Spec => []IndInv
BY InitInv, StepInv, PTL DEF Spec

(***************************************************************************)
(* For any number of clients, handlers, timeouts and queued events: the    *)
(* handlers in use were given out, and a client that thinks it owns the    *)
(* port does, unless the notice of the steal or the reply to its own       *)
(* command is on its way, or the notice overtook the reply to its acquire. *)
(***************************************************************************)
THEOREM BeliefsAboutOwnership == Spec => []OwnershipSound
<1>1. IndInv => TypeOK
  BY DEF IndInv, Types, TypeOK
<1>2. IndInv => OwnershipBelief
  BY DEF IndInv, Mine, Belief, OwnershipBelief
<1> QED BY <1>1, <1>2, ClientInvariant, PTL DEF OwnershipSound

(***************************************************************************)
(* Once everything has arrived a client knows the port's state, whoever    *)
(* commanded it, unless it was told out of order in one of the three ways  *)
(* that stale records.                                                     *)
(***************************************************************************)
THEOREM BeliefsAboutState == Spec => []BeliefsSettle
<1>1. IndInv => BeliefsSettle
  <2> SUFFICES ASSUME IndInv, NEW c \in Clients, Settled(c), ~stale[c]
               PROVE  Class(cstate[c]) = Class(srv)
    BY DEF BeliefsSettle
  <2>1. InformedBy(<< >>, cstate[c], stale[c], srv)
    BY DEF IndInv, Mine, Informed, Settled
  <2> QED BY <2>1, NothingInformed DEF InformedBy
<1> QED BY <1>1, ClientInvariant, PTL
=============================================================================
