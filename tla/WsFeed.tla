------------------------------- MODULE WsFeed -------------------------------
(***************************************************************************)
(* WsNextOrder (orderFeeds/ws.order.feed.ts): one timer watches the        *)
(* connection to the server of orders.  When nothing was heard for its     *)
(* time, the socket is terminated and the next one opened, and what was    *)
(* missed is asked for again.                                              *)
(*                                                                         *)
(* External: the server and the network.  While they are up, a socket      *)
(* opens and the server pings before the timer runs out; they may go       *)
(* silent, and may drop a connection, which the code only logs.  The       *)
(* library still emits what it had received on a terminated socket, until  *)
(* that one is closed, and before the next one opens.                      *)
(* Abstracted: the contents of orders, finalization and hooks.             *)
(***************************************************************************)
EXTENDS Integers, Sequences, FiniteSets, SequencesExt

CONSTANTS
  OrderId,
  UnlockAuthorities,  (* of the configured chains, a sequence              *)
  Taker,              (* of each order: who fulfils it                     *)
  PingTimeout,
  MaxFaults,          (* bound: how often the server goes silent or drops  *)
  None

ASSUME WsFeedAssumption ==
  /\ PingTimeout \in Nat \ {0}
  /\ MaxFaults \in Nat
  /\ None \notin OrderId
  /\ IsFiniteSet(OrderId)
  /\ UnlockAuthorities \in Seq(Range(UnlockAuthorities))

VARIABLES
  orders,    (* the server: where each order is                            *)
  up,        (* the server and the network answer                          *)
  faults,
  socket,    (* this.socket                                                *)
  previous,  (* the socket before it, until it is closed                   *)
  timer,     (* pingTimer: the time left                                   *)
  handed     (* of each order: what processNextOrder was last told         *)

vars == <<orders, up, faults, socket, previous, timer, handed>>

Stage == {"none", "created", "cancelled", "fulfilled", "unlocked"}

(* The statuses of an event, and where they say the order is.               *)
StageOf ==
  [Created |-> "created", ArchivalCreated |-> "created", Cancelled |-> "cancelled",
   Fulfilled |-> "fulfilled", ArchivalFulfilled |-> "fulfilled", UnlockSent |-> "unlocked"]

Event == [order: OrderId, status: DOMAIN StageOf] \cup {[ack |-> TRUE]}

Command ==
  [command: {"Subscription", "GetCreated"}]
    \cup [command: {"GetFulfilled"}, unlockAuthority: Range(UnlockAuthorities)]

Socket == [state: {"connecting", "open", "closing", "dropped"}, commands: Seq(Command),
           subscribed: BOOLEAN, inbox: Seq(Event)]

NewSocket == [state |-> "connecting", commands |-> <<>>, subscribed |-> FALSE, inbox |-> <<>>]

Init ==
  /\ orders = [o \in OrderId |-> "none"]
  /\ up = TRUE
  /\ faults = 0
  /\ socket = NewSocket
  /\ previous = None
  /\ timer = PingTimeout
  /\ handed = [o \in OrderId |-> "none"]

-----------------------------------------------------------------------------
(* The client.                                                              *)

(* heartbeat: the timer starts again.                                       *)
Heartbeat == timer' = PingTimeout

(* What becomes of a socket that is terminated.                             *)
Terminated_Fault(s) == s

Terminated(s) == IF s.state = "open" THEN [s EXCEPT !.state = "closing"] ELSE None

(* initWs, whose heartbeat covers a connection that is never opened.  A     *)
(* timer that is not started again (-1) never fires.                        *)
InitWs_Fault ==
  /\ socket' = NewSocket
  /\ timer' = -1

InitWs ==
  /\ socket' = NewSocket
  /\ Heartbeat

(* The callback of the timer.                                               *)
Stale ==
  /\ timer = 0
  /\ previous # None => previous.state # "closing"
  /\ previous' = Terminated(socket)
  /\ InitWs
  /\ UNCHANGED <<orders, up, faults, handed>>

GetFulfilled ==
  [i \in DOMAIN UnlockAuthorities |->
     [command |-> "GetFulfilled", unlockAuthority |-> UnlockAuthorities[i]]]

(* What is sent when a socket opens: first of all the subscription.         *)
Commands_Fault ==
  <<[command |-> "GetCreated"]>> \o GetFulfilled \o <<[command |-> "Subscription"]>>

Commands ==
  <<[command |-> "Subscription"], [command |-> "GetCreated"]>> \o GetFulfilled

SocketOpen ==
  /\ up
  /\ socket.state = "connecting"
  /\ previous # None => previous.state # "closing"
  /\ socket' = [socket EXCEPT !.state = "open", !.commands = Commands]
  /\ Heartbeat
  /\ UNCHANGED <<orders, up, faults, previous, handed>>

Ping ==
  /\ up
  /\ socket.state = "open"
  /\ Heartbeat
  /\ UNCHANGED <<orders, up, faults, socket, previous, handed>>

(* A ping the terminated socket had received, for the timer of the next.    *)
LatePing ==
  /\ previous # None
  /\ Heartbeat
  /\ UNCHANGED <<orders, up, faults, socket, previous, handed>>

(* handleEvent: what is not about an order is dropped.                      *)
HandleEvent(event) ==
  handed' = IF event \in [order: OrderId, status: DOMAIN StageOf]
            THEN [handed EXCEPT ![event.order] = StageOf[event.status]] ELSE handed

Message ==
  /\ up
  /\ socket.state = "open"
  /\ socket.inbox # <<>>
  /\ HandleEvent(Head(socket.inbox))
  /\ socket' = [socket EXCEPT !.inbox = Tail(@)]
  /\ UNCHANGED <<orders, up, faults, previous, timer>>

LateMessage ==
  /\ previous # None
  /\ previous.inbox # <<>>
  /\ HandleEvent(Head(previous.inbox))
  /\ previous' = [previous EXCEPT !.inbox = Tail(@)]
  /\ UNCHANGED <<orders, up, faults, socket, timer>>

(* What was not emitted by then is lost.                                    *)
PreviousCloses ==
  /\ previous # None
  /\ previous' = None
  /\ UNCHANGED <<orders, up, faults, socket, timer, handed>>

(* Before the timer runs out, a server that is up has been heard.           *)
Tick ==
  /\ timer > 0
  /\ up /\ socket.state \in {"connecting", "open"} => timer > 1
  /\ timer' = timer - 1
  /\ UNCHANGED <<orders, up, faults, socket, previous, handed>>

-----------------------------------------------------------------------------
(* The server.                                                              *)

Answer(command) ==
  LET found(stage, takers) == {o \in OrderId : orders[o] = stage /\ Taker[o] \in takers}
      events(os, status) == SetToSeq({[order |-> o, status |-> status] : o \in os})
  IN CASE command.command = "Subscription" -> <<[ack |-> TRUE]>>
       [] command.command = "GetCreated" ->
            events({o \in OrderId : orders[o] = "created"}, "ArchivalCreated")
       [] command.command = "GetFulfilled" ->
            events(found("fulfilled", {command.unlockAuthority}), "ArchivalFulfilled")

Serve ==
  /\ up
  /\ socket.state = "open"
  /\ socket.commands # <<>>
  /\ LET command == Head(socket.commands)
     IN socket' = [socket EXCEPT !.commands = Tail(@),
                     !.inbox = @ \o Answer(command),
                     !.subscribed = @ \/ command.command = "Subscription"]
  /\ UNCHANGED <<orders, up, faults, previous, timer, handed>>

(* A subscriber is told, on every connection it left open.                  *)
Told(s, event) ==
  IF s.subscribed /\ s.state = "open"
  THEN [s EXCEPT !.inbox = Append(@, event)] ELSE s

Moves(o, from, status) ==
  /\ orders[o] = from
  /\ orders' = [orders EXCEPT ![o] = StageOf[status]]
  /\ socket' = Told(socket, [order |-> o, status |-> status])
  /\ previous' = IF previous = None THEN None ELSE Told(previous, [order |-> o, status |-> status])
  /\ UNCHANGED <<up, faults, timer, handed>>

OrderMoves(o) ==
  \/ Moves(o, "none", "Created")
  \/ Moves(o, "created", "Cancelled")
  \/ Moves(o, "created", "Fulfilled")
  \/ Moves(o, "fulfilled", "UnlockSent")

GoesSilent ==
  /\ up
  /\ faults < MaxFaults
  /\ up' = FALSE
  /\ faults' = faults + 1
  /\ UNCHANGED <<orders, socket, previous, timer, handed>>

ComesBack ==
  /\ ~up
  /\ up' = TRUE
  /\ UNCHANGED <<orders, faults, socket, previous, timer, handed>>

Drops ==
  /\ faults < MaxFaults
  /\ socket.state \in {"connecting", "open"}
  /\ faults' = faults + 1
  /\ socket' = [NewSocket EXCEPT !.state = "dropped"]
  /\ UNCHANGED <<orders, up, previous, timer, handed>>

Client == Stale \/ SocketOpen \/ Message \/ LateMessage \/ PreviousCloses
Next ==
  \/ Client \/ Ping \/ LatePing \/ Tick \/ Serve
  \/ \E o \in OrderId : OrderMoves(o)
  \/ GoesSilent \/ ComesBack \/ Drops

(* Timers, the library and a server that is up go on.                       *)
Spec ==
  /\ Init /\ [][Next]_vars
  /\ WF_vars(Stale) /\ WF_vars(SocketOpen) /\ WF_vars(Message) /\ WF_vars(PreviousCloses)
  /\ WF_vars(Tick) /\ WF_vars(Serve) /\ WF_vars(ComesBack)

-----------------------------------------------------------------------------
(* Properties.                                                              *)

TypeOK ==
  /\ orders \in [OrderId -> Stage]
  /\ up \in BOOLEAN
  /\ faults \in 0..MaxFaults
  /\ socket \in Socket
  /\ previous \in Socket \cup {None}
  /\ timer \in 0..PingTimeout
  /\ handed \in [OrderId -> Stage]

Rank == [none |-> 0, created |-> 1, cancelled |-> 2, fulfilled |-> 2, unlocked |-> 3]

(* The processor is never told of an earlier stage of an order after a      *)
(* later one, whatever connections the events and the replays came by: an   *)
(* order it has closed is not opened again (ws.order.feed.ts:127, :206).    *)
NeverBackwards == [][\A o \in OrderId : Rank[handed[o]] <= Rank[handed'[o]]]_vars

(* When a connection has nothing left to deliver, the processor knows every *)
(* order to be taken, and every one to be unlocked by an authority of ours: *)
(* no order falls between the replay and the subscription, or into the time *)
(* without a connection (ws.order.feed.ts:171-203).                         *)
InSync ==
  (socket.state = "open" /\ socket.subscribed /\ socket.commands = <<>> /\ socket.inbox = <<>>)
  => \A o \in OrderId :
       /\ orders[o] = "created" => handed[o] = "created"
       /\ orders[o] = "fulfilled" /\ Taker[o] \in Range(UnlockAuthorities)
            => handed[o] = "fulfilled"

(* However often the server goes silent or drops the connection, an order   *)
(* that is to be taken, or unlocked by us, is handed to the processor in    *)
(* the end (ws.order.feed.ts:121-129, :219).                                *)
OrdersHanded ==
  \A o \in OrderId :
    /\ orders[o] = "created" ~> handed[o] = "created" \/ orders[o] # "created"
    /\ Taker[o] \in Range(UnlockAuthorities) =>
         (orders[o] = "fulfilled" ~> handed[o] = "fulfilled" \/ orders[o] # "fulfilled")
=============================================================================
