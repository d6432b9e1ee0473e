----------------------------- MODULE StlClient -----------------------------
(***************************************************************************)
(* What the Python clients of the stateless server believe about a port:   *)
(* who owns it and whether it transmits.                                   *)
(*                                                                         *)
(* A client learns about the port from the replies to its own commands     *)
(* (a ZMQ request socket) and from the events the server publishes (a      *)
(* subscription, read by a thread of its own).  The two channels are not   *)
(* ordered with each other, an event published before the subscription is  *)
(* in place is lost, and a reply that does not come in time takes the      *)
(* request channel down.                                                   *)
(*                                                                         *)
(* The server here is one port: its owner's handler, its state, the RPC    *)
(* thread and the master thread, which publish from both threads.          *)
(***************************************************************************)
EXTENDS Integers, Sequences

CONSTANTS
  Clients,
  MaxHandlers,   (* bound: handlers generated                           *)
  MaxTimeouts,   (* bound: replies that do not come in time             *)
  MaxQueue       (* bound: events on their way to a client              *)

ASSUME ClientAssumption ==
  MaxHandlers \in Nat /\ MaxTimeouts \in Nat /\ MaxQueue \in Nat \ {0}

NoHandler == 0     \* handler is None; on the server: the port is free

VARIABLES
  \* the server
  srv,        \* m_port_state
  endless,    \* the run has only continuous streams and no duration
  owner,      \* m_handler of TrexPortOwner
  generated,  \* handlers generated so far
  starting,   \* a start has set TX and not yet published PORT_STARTED
  finishing,  \* the master has set STREAMS and not published FINISHED_TX
  \* every client
  conn,       \* off; waiting, from reading the port to the barrier; on
  joined,     \* the subscription is in place
  events,     \* published to the client and not yet handled
  handler, cstate,    \* Port.handler and Port.state
  call,       \* the command in progress, see Call
  late,       \* a timed-out request the server may still serve
  timeouts,
  \* history
  overtaken,  \* an event that bears on the command was handled after the server served it
  stale,      \* cstate was last set from something out of order
  robbed      \* handler was set although the steal was handled before

serverVars == <<srv, endless, owner, generated, starting, finishing>>
linkVars   == <<conn, joined, call, late, timeouts>>
beliefVars == <<handler, cstate>>
histVars   == <<overtaken, stale, robbed>>
vars == <<serverVars, linkVars, events, beliefVars, histVars>>

Active(st) == st \in {"TX", "PAUSE"}

(* IDLE and STREAMS look alike to the others: adding streams is not told. *)
Class(st) == IF Active(st) THEN st ELSE "stopped"

Ops == {"acquire", "force", "release", "add", "remove", "start", "stop", "pause", "resume"}

Ownership(op) == op \in {"acquire", "force", "release"}

(* A command with the handler it was sent with; the reply holds "ok" or    *)
(* "error", and the new handler of an acquire.                             *)
Call   == [op : Ops, with : 0 .. MaxHandlers, reply : {"sent", "ok", "error"},
           got : 0 .. MaxHandlers]
NoCall == [op |-> "none", with |-> 0, reply |-> "none", got |-> 0]

Command(op, h) == [op |-> op, with |-> h, reply |-> "sent", got |-> NoHandler]

Init ==
  /\ srv = "IDLE" /\ endless = FALSE
  /\ owner = NoHandler /\ generated = 0
  /\ starting = FALSE /\ finishing = FALSE
  /\ conn = [c \in Clients |-> "off"] /\ joined = [c \in Clients |-> FALSE]
  /\ events = [c \in Clients |-> << >>]
  /\ handler = [c \in Clients |-> NoHandler] /\ cstate = [c \in Clients |-> "IDLE"]
  /\ call = [c \in Clients |-> NoCall] /\ late = [c \in Clients |-> NoCall]
  /\ timeouts = 0
  /\ overtaken = [c \in Clients |-> FALSE]
  /\ stale = [c \in Clients |-> FALSE] /\ robbed = [c \in Clients |-> FALSE]

-----------------------------------------------------------------------------
(***************************************************************************)
(* The publisher: an event reaches the subscriptions that are in place.    *)
(* disorder marks a state event that is published after the one of a later *)
(* change of state; a client that is connecting has read the state already *)
(* and loses the event.                                                    *)
(***************************************************************************)
(* PORT_RESUMED is told as "started" and PORT_FINISHED_TX as "stopped": the *)
(* client does the same for both.                                          *)
Event(type, by, disorder) == [type |-> type, by |-> by, disorder |-> disorder]

RoomFor(n) == \A c \in Clients : joined[c] => Len(events[c]) + n <= MaxQueue

Publish(e) ==
  /\ RoomFor(1)
  /\ events' = [c \in Clients |-> IF joined[c] THEN Append(events[c], e) ELSE events[c]]
  /\ stale' = [c \in Clients |-> stale[c] \/ (conn[c] # "off" /\ ~joined[c] /\ e.type # "forced")]

NoEvent == UNCHANGED <<events, stale>>

-----------------------------------------------------------------------------
(***************************************************************************)
(* The server.  Commands run one at a time; a start is two steps, because  *)
(* the master may finish a short run before PORT_STARTED is published.     *)
(***************************************************************************)
OwnedBy(h) == owner # NoHandler /\ h = owner

(* Faulty variant: a forced acquire does not tell the other client. *)
AcquireSilent(c, force, r) ==
  /\ r.ok = (owner = NoHandler \/ force)
  /\ IF r.ok THEN /\ generated < MaxHandlers
                  /\ owner' = generated + 1 /\ generated' = generated + 1
                  /\ r.got = owner'
             ELSE r.got = NoHandler /\ UNCHANGED <<owner, generated>>
  /\ NoEvent
  /\ UNCHANGED <<srv, endless, starting>>

(* TrexStatelessPort::acquire *)
Acquire(c, force, r) ==
  /\ r.ok = (owner = NoHandler \/ force)
  /\ IF r.ok THEN /\ generated < MaxHandlers
                  /\ owner' = generated + 1 /\ generated' = generated + 1
                  /\ r.got = owner'
             ELSE r.got = NoHandler /\ UNCHANGED <<owner, generated>>
  /\ IF owner # NoHandler /\ force THEN Publish(Event("forced", c, FALSE)) ELSE NoEvent
  /\ UNCHANGED <<srv, endless, starting>>

Moves(from, to, e) ==
  /\ srv \in from
  /\ srv' = to
  /\ endless' = (endless /\ Active(to))
  /\ e
  /\ UNCHANGED <<owner, generated, starting>>

(* verify_state fails *)
Refused(from, r) ==
  /\ srv \notin from /\ ~r.ok
  /\ NoEvent
  /\ UNCHANGED <<srv, endless, owner, generated, starting>>

StartTraffic(kind) ==
  /\ srv = "STREAMS"
  /\ srv' = "TX" /\ endless' = kind /\ starting' = TRUE
  /\ NoEvent
  /\ UNCHANGED <<owner, generated>>

(* The commands that need the port; r is the reply. *)
Owned(op, r) ==
  \/ /\ op = "release" /\ r.ok
     /\ owner' = NoHandler /\ NoEvent
     /\ UNCHANGED <<srv, endless, generated, starting>>
  \/ op = "add" /\ r.ok /\ Moves({"IDLE", "STREAMS"}, "STREAMS", NoEvent)
  \/ op = "add" /\ Refused({"IDLE", "STREAMS"}, r)
  \/ op = "remove" /\ r.ok /\ Moves({"IDLE", "STREAMS"}, "IDLE", NoEvent)
  \/ op = "remove" /\ Refused({"IDLE", "STREAMS"}, r)
  \/ op = "start" /\ r.ok /\ \E kind \in BOOLEAN : StartTraffic(kind)
  \/ op = "start" /\ Refused({"STREAMS"}, r)
  \/ op = "stop" /\ r.ok /\ Moves({"TX", "PAUSE"}, "STREAMS", Publish(Event("stopped", "-", FALSE)))
  \/ op = "stop" /\ r.ok /\ Moves({"IDLE"}, "IDLE", NoEvent)
  \/ op = "stop" /\ r.ok /\ Moves({"STREAMS"}, "STREAMS", NoEvent)
  \/ op = "pause" /\ r.ok /\ endless /\ Moves({"TX"}, "PAUSE", Publish(Event("paused", "-", FALSE)))
  \/ op = "pause" /\ (srv = "TX" => ~endless) /\ Refused({}, r)
  \/ op = "resume" /\ r.ok /\ Moves({"PAUSE"}, "TX", Publish(Event("started", "-", FALSE)))
  \/ op = "resume" /\ Refused({"PAUSE"}, r)

(* One request of client c, with the reply r it gets. *)
Serve(c, req, r) ==
  /\ ~starting
  /\ r.got # NoHandler => req.op \in {"acquire", "force"}
  /\ IF req.op \in {"acquire", "force"} THEN Acquire(c, req.op = "force", r)
     ELSE IF OwnedBy(req.with) THEN Owned(req.op, r)
     ELSE ~r.ok /\ NoEvent /\ UNCHANGED <<srv, endless, owner, generated, starting>>
  /\ UNCHANGED finishing

Replies == [ok : BOOLEAN, got : 0 .. MaxHandlers]

ServeCall(c) ==
  /\ call[c].reply = "sent"
  /\ \E r \in Replies :
       /\ Serve(c, call[c], r)
       /\ call' = [call EXCEPT ![c].reply = IF r.ok THEN "ok" ELSE "error",
                               ![c].got = r.got]
  /\ overtaken' = [overtaken EXCEPT ![c] = FALSE]
  /\ UNCHANGED <<conn, joined, late, timeouts, beliefVars, robbed>>

ServeLate(c) ==
  /\ late[c] # NoCall
  /\ \E r \in Replies : Serve(c, late[c], r)
  /\ late' = [late EXCEPT ![c] = NoCall]
  /\ UNCHANGED <<conn, joined, call, timeouts, beliefVars, overtaken, robbed>>

(* The end of start_traffic. *)
PublishStarted ==
  /\ starting /\ starting' = FALSE
  /\ Publish(Event("started", "-", ~Active(srv) /\ ~finishing))
  /\ UNCHANGED <<srv, endless, owner, generated, finishing, linkVars, beliefVars,
                 overtaken, robbed>>

(* common_port_stop_actions on the master thread. *)
Finish ==
  /\ srv = "TX" /\ ~endless /\ ~finishing
  /\ srv' = "STREAMS" /\ finishing' = TRUE
  /\ UNCHANGED <<endless, owner, generated, starting, linkVars, events, beliefVars, histVars>>

PublishFinished ==
  /\ finishing /\ finishing' = FALSE
  /\ Publish(Event("stopped", "-", Active(srv) /\ ~starting))
  /\ UNCHANGED <<srv, endless, owner, generated, starting, linkVars, beliefVars,
                 overtaken, robbed>>

-----------------------------------------------------------------------------
(***************************************************************************)
(* Connecting: read the ports, then subscribe, then wait for a barrier.    *)
(***************************************************************************)
ConnectSync(c) ==
  /\ conn[c] = "off" /\ late[c] = NoCall
  /\ conn' = [conn EXCEPT ![c] = "waiting"]
  /\ handler' = [handler EXCEPT ![c] = NoHandler]
  /\ cstate' = [cstate EXCEPT ![c] = srv]
  /\ stale' = [stale EXCEPT ![c] = (starting /\ ~Active(srv) /\ ~finishing)]
  /\ robbed' = [robbed EXCEPT ![c] = FALSE]
  /\ UNCHANGED <<serverVars, joined, call, late, timeouts, events, overtaken>>

Join(c) ==
  /\ conn[c] = "waiting" /\ ~joined[c]
  /\ joined' = [joined EXCEPT ![c] = TRUE]
  /\ UNCHANGED <<serverVars, conn, call, late, timeouts, events, beliefVars, histVars>>

(* publish_now with the client's key, repeated until it comes back. *)
Barrier(c) ==
  /\ conn[c] = "waiting" /\ joined[c]
  /\ \A k \in DOMAIN events[c] : events[c][k].type # "barrier"
  /\ Len(events[c]) < MaxQueue
  /\ events' = [events EXCEPT ![c] = Append(@, Event("barrier", "-", FALSE))]
  /\ UNCHANGED <<serverVars, linkVars, beliefVars, histVars>>

Off(c) ==
  /\ conn' = [conn EXCEPT ![c] = "off"]
  /\ joined' = [joined EXCEPT ![c] = FALSE]
  /\ events' = [events EXCEPT ![c] = << >>]
  /\ call' = [call EXCEPT ![c] = NoCall]
  /\ handler' = [handler EXCEPT ![c] = NoHandler]
  /\ robbed' = [robbed EXCEPT ![c] = FALSE]
  /\ cstate' = [cstate EXCEPT ![c] = "IDLE"]
  /\ overtaken' = [overtaken EXCEPT ![c] = FALSE]
  /\ stale' = [stale EXCEPT ![c] = FALSE]

(* The barrier does not come back in time, or the user gives up. *)
ConnectFails(c) ==
  /\ conn[c] = "waiting"
  /\ Off(c)
  /\ UNCHANGED <<serverVars, late, timeouts>>

-----------------------------------------------------------------------------
(***************************************************************************)
(* Commands, as the client library lets them through: by what it believes. *)
(***************************************************************************)
Allowed(c, op) ==
  CASE op \in {"acquire", "force"} -> TRUE
    [] op = "release" -> handler[c] # NoHandler
    [] op \in {"add", "remove"} -> handler[c] # NoHandler /\ ~Active(cstate[c])
    [] op = "start" -> handler[c] # NoHandler /\ cstate[c] = "STREAMS"
    [] op = "stop" -> handler[c] # NoHandler /\ Active(cstate[c])
    [] op = "pause" -> handler[c] # NoHandler /\ cstate[c] = "TX"
    [] op = "resume" -> handler[c] # NoHandler /\ cstate[c] = "PAUSE"

Send(c, op) ==
  /\ conn[c] = "on" /\ call[c] = NoCall
  /\ Allowed(c, op)
  /\ call' = [call EXCEPT ![c] = Command(op, handler[c])]
  /\ UNCHANGED <<serverVars, conn, joined, late, timeouts, events, beliefVars, histVars>>

(* The state the library sets when the server has agreed. *)
After(op, st) ==
  CASE op \in {"add", "stop"} -> "STREAMS"
    [] op = "remove" -> "IDLE"
    [] op \in {"start", "resume"} -> "TX"
    [] op = "pause" -> "PAUSE"
    [] OTHER -> st

HandlerAfter(x, h) ==
  IF x.op \in {"acquire", "force"} /\ x.reply = "ok" THEN x.got
  ELSE IF x.op = "release" THEN NoHandler ELSE h

(* A failed acquire is followed by a release, as a cleanup. *)
Return(c) ==
  LET x == call[c]
      sets == x.reply = "ok" /\ ~Ownership(x.op)
  IN
  /\ x.reply \in {"ok", "error"}
  /\ call' = [call EXCEPT ![c] = IF x.op \in {"acquire", "force"} /\ x.reply = "error"
                                 THEN Command("release", handler[c]) ELSE NoCall]
  /\ handler' = [handler EXCEPT ![c] = HandlerAfter(x, @)]
  /\ cstate' = [cstate EXCEPT ![c] = IF x.reply = "ok" THEN After(x.op, @) ELSE @]
  /\ stale' = IF sets THEN [stale EXCEPT ![c] = overtaken[c]] ELSE stale
  /\ robbed' = IF handler'[c] # handler[c]
               THEN [robbed EXCEPT ![c] = handler'[c] # NoHandler /\ overtaken[c]]
               ELSE robbed
  /\ overtaken' = [overtaken EXCEPT ![c] = FALSE]
  /\ UNCHANGED <<serverVars, conn, joined, late, timeouts, events>>

(* disconnect; stopping and releasing the port first are commands of their *)
(* own, which the user may leave out.                                       *)
Disconnect(c) ==
  /\ conn[c] = "on" /\ call[c] = NoCall
  /\ Off(c)
  /\ UNCHANGED <<serverVars, late, timeouts>>

(* No reply in time: the channel is closed, the user disconnects and may   *)
(* connect again; a request not served yet is lost, or served later.       *)
Timeout(c) ==
  /\ call[c] # NoCall /\ timeouts < MaxTimeouts
  /\ timeouts' = timeouts + 1
  /\ \E x \in {call[c], NoCall} :
       /\ x = NoCall \/ x.reply = "sent"
       /\ late' = [late EXCEPT ![c] = x]
  /\ Off(c)
  /\ UNCHANGED serverVars

-----------------------------------------------------------------------------
(***************************************************************************)
(* handle_async_event, on the client's own thread.                         *)
(***************************************************************************)
(* Faulty variant: the end of a run is not taken for a stop. *)
ToldNoStop(type) == IF type = "paused" THEN "PAUSE" ELSE "TX"

Told(type) ==
  CASE type = "started" -> "TX"
    [] type = "stopped" -> "STREAMS"
    [] type = "paused" -> "PAUSE"

IsState(e) == e.type \in {"started", "stopped", "paused"}
StealsFrom(c, e) == e.type = "forced" /\ e.by # c

(* The command has been served, and e is about what its reply will set. *)
BearsOn(e, c, x) ==
  /\ x.reply = "ok"
  /\ IF Ownership(x.op) THEN StealsFrom(c, e) ELSE IsState(e)

Deliver(c) ==
  /\ events[c] # << >>
  /\ LET e == Head(events[c]) IN
       /\ events' = [events EXCEPT ![c] = Tail(@)]
       /\ conn' = [conn EXCEPT ![c] = IF e.type = "barrier" THEN "on" ELSE @]
       /\ cstate' = IF IsState(e) THEN [cstate EXCEPT ![c] = Told(e.type)] ELSE cstate
       /\ handler' = IF StealsFrom(c, e) THEN [handler EXCEPT ![c] = NoHandler] ELSE handler
       /\ stale' = IF IsState(e) THEN [stale EXCEPT ![c] = e.disorder] ELSE stale
       /\ robbed' = IF StealsFrom(c, e) THEN [robbed EXCEPT ![c] = FALSE] ELSE robbed
       /\ overtaken' = [overtaken EXCEPT ![c] = @ \/ BearsOn(e, c, call[c])]
  /\ UNCHANGED <<serverVars, joined, call, late, timeouts>>

ClientStep(c) ==
  \/ ConnectSync(c) \/ Join(c) \/ Barrier(c) \/ ConnectFails(c)
  \/ \E op \in Ops : Send(c, op)
  \/ Return(c) \/ Disconnect(c) \/ Timeout(c) \/ Deliver(c)

Next ==
  \/ \E c \in Clients : ClientStep(c)
  \/ \E c \in Clients : ServeCall(c) \/ ServeLate(c)
  \/ PublishStarted \/ Finish \/ PublishFinished

(* The server's threads run, and so does the thread that reads the events. *)
Spec ==
  /\ Init /\ [][Next]_vars
  /\ \A c \in Clients : WF_vars(Deliver(c))

-----------------------------------------------------------------------------
(***************************************************************************)
(* Properties.                                                             *)
(***************************************************************************)

(* The handlers in use have been generated; what is queued is bounded. *)
TypeOK ==
  /\ srv \in {"IDLE", "STREAMS", "TX", "PAUSE"} /\ endless \in BOOLEAN
  /\ generated \in 0 .. MaxHandlers /\ owner \in 0 .. generated
  /\ starting \in BOOLEAN /\ finishing \in BOOLEAN
  /\ conn \in [Clients -> {"off", "waiting", "on"}]
  /\ joined \in [Clients -> BOOLEAN]
  /\ handler \in [Clients -> 0 .. generated]
  /\ cstate \in [Clients -> {"IDLE", "STREAMS", "TX", "PAUSE"}]
  /\ \A c \in Clients : /\ call[c] \in Call \cup {NoCall}
                        /\ late[c] \in Call \cup {NoCall}
                        /\ Len(events[c]) <= MaxQueue
  /\ timeouts \in 0 .. MaxTimeouts

(* A notice of a steal by another client is on its way. *)
StealOnItsWay(c) == \E k \in DOMAIN events[c] : StealsFrom(c, events[c][k])

(* The reply to the client's own change of the ownership is. *)
ReplyOnItsWay(c) ==
  Ownership(call[c].op) /\ call[c].reply = "ok"

(***************************************************************************)
(* A client that thinks it owns the port does, or the notice of the steal  *)
(* is on its way: the only other way is that the notice was handled before *)
(* the reply to the client's own acquire.  Two clients can therefore not   *)
(* both drive a port for longer than an event takes.                       *)
(***************************************************************************)
OwnershipBelief ==
  \A c \in Clients :
    conn[c] = "on" /\ handler[c] # NoHandler =>
      handler[c] = owner \/ StealOnItsWay(c) \/ ReplyOnItsWay(c) \/ robbed[c]

(* Handlers are ones the server has given out, and who believes in owning  *)
(* the port is right or about to be told (acquire, Port.acquire).          *)
OwnershipSound == TypeOK /\ OwnershipBelief

(* Nothing that concerns the port is on its way to c. *)
Settled(c) ==
  /\ conn[c] = "on" /\ call[c] = NoCall /\ events[c] = << >>
  /\ ~starting /\ ~finishing

(***************************************************************************)
(* Once everything has arrived, a client knows whether the port transmits, *)
(* is paused or stopped, whoever commanded it.  There are three ways to be *)
(* wrong, and no others: an event lost between reading the port's state    *)
(* and the subscription, an event handled before the reply to an earlier   *)
(* command, and PORT_STARTED published after the end of its run.           *)
(***************************************************************************)
BeliefsSettle ==
  \A c \in Clients : Settled(c) /\ ~stale[c] => Class(cstate[c]) = Class(srv)
=============================================================================
