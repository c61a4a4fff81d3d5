----------------------------- MODULE TaskSocket -----------------------------
(***************************************************************************)
(* The WebSocket between one game client and the server: socketClient's    *)
(* connecting, reconnecting and resubscribing, and the server's handshake, *)
(* subscriptions and heartbeat.  A connection has two ends; the network    *)
(* may cut it, in which case the client's end learns of it and the         *)
(* server's may have to find out, or lose it silently, in which case the   *)
(* client's end may never learn of it.  The client has logged in once and  *)
(* keeps the token of that login.                                          *)
(***************************************************************************)
EXTENDS Naturals, Sequences, FiniteSets, SequencesExt

CONSTANTS
  Tasks,               \* tasks the client may subscribe to
  wsMaxSubscriptions,  \* configuration: subscriptions of a connection
  MaxConnects,         \* bound: connect() calls; main.ts makes one
  MaxTogether,         \* bound: connect() calls, cuts and subscriptions, together;
                       \* one more where connect() finds no WebSocket to be had
  MaxConnections,      \* bound: connections with an end left
  MaxQueue,            \* bound: messages under way to the server
  MaxCuts              \* bound: connections cut or lost by the network, or not
                       \* constructed, and restarts of the server, together

ASSUME BoundsAssumption ==
  /\ wsMaxSubscriptions \in Nat \ {0}
  /\ MaxConnects \in Nat /\ MaxTogether \in Nat
  /\ MaxConnections \in Nat /\ MaxQueue \in Nat
  /\ MaxCuts \in Nat

VARIABLES
  shouldConnect,     \* client
  ws,                \* client: the connection of this.ws, 0 when null
  subscriptions,     \* client
  reconnectTimer,    \* client: it is armed
  session,           \* server: "valid", the client's token is known and not
                     \* expired; "lasting", it is, and will be: no restart, a
                     \* connected client answers pings in time, and no
                     \* connection is lost silently; or "gone"
  conn,              \* the connections
  connects, cuts     \* bounded counters

client == <<shouldConnect, ws, subscriptions, reconnectTimer, connects>>
vars == <<client, session, conn, cuts>>

Connections == 1 .. MaxConnections
\* client: its readyState, "closing" until its close event is dispatched;
\* server: whether it is in the clients map; refused: tasks answered with
\* "subscription limit reached"; alive: no ping is unanswered; up: the
\* messages under way to the server.
NoConnection == [client |-> "none", server |-> "none", subs |-> {}, refused |-> {},
                 alive |-> TRUE, up |-> <<>>]

Init ==
  /\ shouldConnect = FALSE /\ ws = 0 /\ subscriptions = {}
  /\ reconnectTimer = FALSE
  /\ session \in {"valid", "lasting"}
  /\ conn = [c \in Connections |-> NoConnection]
  /\ connects = 0 /\ cuts = 0

\* An end that is gone; the connection is forgotten with its last end.
Left(r) == IF r.client = "none" /\ r.server = "none" THEN NoConnection ELSE r
ClientEnd(r, state) == Left([r EXCEPT !.client = state, !.up = <<>>])
ServerGone(r) ==
  Left([r EXCEPT !.server = "none", !.up = <<>>,
                 !.client = IF @ \in {"connecting", "open"} THEN "closing" ELSE @])

-----------------------------------------------------------------------------
(***************************************************************************)
(* socketClient                                                            *)
(***************************************************************************)
Usable(c) == c # 0 /\ conn[c].client \in {"connecting", "open"}

\* What MaxTogether bounds.
Spent == connects + cuts + Cardinality(subscriptions)

\* The delay grows with the attempts; here the timer may fire at any time.
scheduleReconnect(armed) == reconnectTimer' = (armed \/ shouldConnect')

\* A usable connection is kept; otherwise one is made, or the constructor
\* throws and the timer is armed.  armed: whether the timer is on the call.
openSocket(armed) ==
  \/ Usable(ws) /\ reconnectTimer' = armed /\ UNCHANGED <<ws, conn, cuts>>
  \/ /\ ~Usable(ws)
     /\ \E c \in Connections : /\ conn[c] = NoConnection
                              /\ ws' = c
                              /\ conn' = [conn EXCEPT ![c].client = "connecting"]
     /\ reconnectTimer' = armed /\ UNCHANGED cuts
  \/ /\ ~Usable(ws) /\ cuts < MaxCuts /\ Spent < MaxTogether
     /\ cuts' = cuts + 1
     /\ scheduleReconnect(armed)
     /\ UNCHANGED <<ws, conn>>

connect ==
  /\ connects < MaxConnects /\ Spent < MaxTogether
  /\ connects' = connects + 1
  /\ shouldConnect' = TRUE
  /\ openSocket(reconnectTimer)
  /\ UNCHANGED <<subscriptions, session>>

\* sendRaw on connection c: nothing unless it is open.
Sent(c, messages) ==
  [conn EXCEPT ![c].up = IF conn[c].server = "open" THEN @ \o messages ELSE @]

CanSend == ws # 0 /\ conn[ws].client = "open"

\* A defect: what was subscribed before is not sent again.
OpenedForgetting(c) ==
  /\ conn[c].client = "connecting" /\ conn[c].server = "open"
  /\ conn' = [conn EXCEPT ![c].client = "open"]
  /\ UNCHANGED <<shouldConnect, ws, subscriptions, reconnectTimer, connects, session, cuts>>

\* The open event of c: every subscription is sent, on this.ws, in the order
\* of the Set, which may be any.
Opened(c) ==
  /\ conn[c].client = "connecting" /\ conn[c].server = "open"
  /\ \E order \in SetToSeqs(subscriptions) :
       LET again == [n \in DOMAIN order |-> [type |-> "subscribe", task |-> order[n]]]
       IN conn' = [d \in Connections |->
                     [conn[d] EXCEPT
                        !.client = IF d = c THEN "open" ELSE @,
                        !.up = IF d = ws /\ (d = c \/ conn[d].client = "open")
                                   /\ conn[d].server = "open"
                               THEN @ \o again ELSE @]]
  /\ UNCHANGED <<shouldConnect, ws, subscriptions, reconnectTimer, connects, session, cuts>>

\* A defect: no reconnect after a close while connected.
ClosedOnce(c) ==
  /\ conn[c].client = "closing"
  /\ ws' = 0
  /\ conn' = [conn EXCEPT ![c] = ClientEnd(@, "none")]
  /\ UNCHANGED reconnectTimer
  /\ UNCHANGED <<shouldConnect, subscriptions, connects, session, cuts>>

\* The close event of c, whatever this.ws is by then.
Closed(c) ==
  /\ conn[c].client = "closing"
  /\ ws' = 0
  /\ conn' = [conn EXCEPT ![c] = ClientEnd(@, "none")]
  /\ UNCHANGED <<shouldConnect, subscriptions, connects, session, cuts>>
  /\ scheduleReconnect(reconnectTimer)

ReconnectTimer ==
  /\ reconnectTimer
  /\ UNCHANGED <<shouldConnect, subscriptions, connects, session>>
  /\ openSocket(FALSE)

Send(type, t) ==
  IF CanSend
  THEN /\ Len(conn[ws].up) < MaxQueue
       /\ conn' = Sent(ws, <<[type |-> type, task |-> t]>>)
  ELSE UNCHANGED conn

subscribe(t) ==
  /\ t \in subscriptions \/ Spent < MaxTogether
  /\ subscriptions' = subscriptions \cup {t}
  /\ Send("subscribe", t)
  /\ UNCHANGED <<shouldConnect, ws, reconnectTimer, connects, session, cuts>>

unsubscribe(t) ==
  /\ subscriptions' = subscriptions \ {t}
  /\ Send("unsubscribe", t)
  /\ UNCHANGED <<shouldConnect, ws, reconnectTimer, connects, session, cuts>>

\* A defect: the reconnect timer is left armed.
CloseKeepingTimer ==
  /\ shouldConnect' = FALSE /\ reconnectTimer' = reconnectTimer /\ ws' = 0
  /\ conn' = IF ws = 0 THEN conn
             ELSE [conn EXCEPT ![ws] = ClientEnd(@, "closing")]
  /\ UNCHANGED <<subscriptions, connects, session, cuts>>

close ==
  /\ shouldConnect' = FALSE /\ reconnectTimer' = FALSE /\ ws' = 0
  /\ conn' = IF ws = 0 THEN conn
             ELSE [conn EXCEPT ![ws] = ClientEnd(@, "closing")]
  /\ UNCHANGED <<subscriptions, connects, session, cuts>>

-----------------------------------------------------------------------------
(***************************************************************************)
(* The server                                                              *)
(***************************************************************************)

\* The upgrade: a known session gets a connection.
Upgrade(c) ==
  /\ conn[c].client = "connecting" /\ conn[c].server = "none"
  /\ conn' = IF session # "gone" THEN [conn EXCEPT ![c].server = "open", ![c].alive = TRUE]
             ELSE [conn EXCEPT ![c].client = "closing"]
  /\ UNCHANGED <<client, session, cuts>>

\* A defect: the limit is compared after the subscription was added.
HandledUncapped(r, m) ==
  CASE m.type = "unsubscribe" ->
         [r EXCEPT !.subs = @ \ {m.task}, !.refused = @ \ {m.task}]
    [] m.type = "subscribe" /\ Cardinality(r.subs) > wsMaxSubscriptions ->
         [r EXCEPT !.refused = @ \cup {m.task}]
    [] OTHER ->
         [r EXCEPT !.subs = @ \cup {m.task}, !.refused = @ \ {m.task}]

\* The message handler: at the limit a subscription is refused, with an
\* error naming the task, even one the connection has.
Handled(r, m) ==
  CASE m.type = "unsubscribe" ->
         [r EXCEPT !.subs = @ \ {m.task}, !.refused = @ \ {m.task}]
    [] m.type = "subscribe" /\ Cardinality(r.subs) >= wsMaxSubscriptions ->
         [r EXCEPT !.refused = @ \cup {m.task}]
    [] OTHER ->
         [r EXCEPT !.subs = @ \cup {m.task}, !.refused = @ \ {m.task}]

Receive(c) ==
  /\ conn[c].server = "open" /\ conn[c].up # <<>>
  /\ LET rest == [conn[c] EXCEPT !.up = Tail(@)]
     IN conn' = [conn EXCEPT ![c] = Handled(rest, Head(conn[c].up))]
  /\ UNCHANGED <<client, session, cuts>>

\* A ping is answered by the client's runtime.
Pong(c) ==
  /\ conn[c].server = "open" /\ conn[c].client = "open" /\ ~conn[c].alive
  /\ conn' = [conn EXCEPT ![c].alive = TRUE]
  /\ UNCHANGED <<client, session, cuts>>

\* A defect: a connection is not marked when it is pinged.
BeatUnmarked(r) == IF ~r.alive THEN ServerGone(r) ELSE r

\* One connection's turn of the heartbeat.
Beat(r) == IF ~r.alive THEN ServerGone(r) ELSE [r EXCEPT !.alive = FALSE]

Heartbeat ==
  /\ \E c \in Connections : conn[c].server = "open"
  /\ session = "lasting" => \A c \in Connections :
       conn[c].server = "open" /\ conn[c].client \in {"connecting", "open"} => conn[c].alive
  /\ conn' = [c \in Connections |-> IF conn[c].server = "open" THEN Beat(conn[c]) ELSE conn[c]]
  /\ UNCHANGED <<client, session, cuts>>

-----------------------------------------------------------------------------
(***************************************************************************)
(* The network, time and restarts                                          *)
(***************************************************************************)

\* The network cuts a connection or fails to make one.
Drop(c) ==
  /\ Usable(c) /\ cuts < MaxCuts /\ Spent < MaxTogether
  /\ cuts' = cuts + 1
  /\ conn' = [conn EXCEPT ![c] = ClientEnd(@, "closing")]
  /\ UNCHANGED <<client, session>>

\* The network loses a connection and tells nobody.  What the server still
\* had under way is lost, and its end is forgotten at once: in the code the
\* heartbeat does that, and until then nothing reaches it.
Lose(c) ==
  /\ session # "lasting" /\ conn[c].client = "open" /\ conn[c].server = "open"
  /\ cuts < MaxCuts /\ Spent < MaxTogether
  /\ cuts' = cuts + 1
  /\ conn' = [conn EXCEPT ![c].server = "none", ![c].up = <<>>]
  /\ UNCHANGED <<client, session>>

\* The client's runtime gives up a connection that was lost.
ClientNotices(c) ==
  /\ conn[c].client = "open" /\ conn[c].server = "none"
  /\ conn' = [conn EXCEPT ![c].client = "closing"]
  /\ UNCHANGED <<client, session, cuts>>

\* The server's end learns that the client's is gone (ws.on('close')).
ServerNotices(c) ==
  /\ conn[c].server = "open" /\ conn[c].client \in {"none", "closing"}
  /\ conn' = [conn EXCEPT ![c] = ServerGone(@)]
  /\ UNCHANGED <<client, session, cuts>>

\* The session's hour is over; connections that exist are not looked at.
Expire ==
  /\ session = "valid"
  /\ session' = "gone"
  /\ UNCHANGED <<client, conn, cuts>>

\* Sessions live in the memory of the process.
Restart ==
  /\ session # "lasting" /\ cuts < MaxCuts /\ Spent < MaxTogether
  /\ cuts' = cuts + 1
  /\ session' = "gone"
  /\ conn' = [c \in Connections |-> ServerGone(conn[c])]
  /\ UNCHANGED client

-----------------------------------------------------------------------------
Next ==
  \/ connect \/ close \/ ReconnectTimer
  \/ \E t \in Tasks : subscribe(t) \/ unsubscribe(t)
  \/ \E c \in Connections : Opened(c) \/ Closed(c) \/ Upgrade(c) \/ Receive(c) \/ Pong(c)
  \/ \E c \in Connections : Drop(c) \/ Lose(c) \/ ClientNotices(c) \/ ServerNotices(c)
  \/ Heartbeat \/ Expire \/ Restart

\* Browser events are dispatched, timers fire and a reachable server answers.
\* Whether a connection that was cut or lost is noticed at the other end, and
\* what the player does, is left open.
Fairness ==
  /\ WF_vars(ReconnectTimer) /\ WF_vars(Heartbeat)
  /\ \A c \in Connections :
       WF_vars(Opened(c)) /\ WF_vars(Closed(c)) /\ WF_vars(Upgrade(c)) /\ WF_vars(Receive(c))
       /\ WF_vars(Pong(c))

Spec == Init /\ [][Next]_vars /\ Fairness

-----------------------------------------------------------------------------
(***************************************************************************)
(* Properties                                                              *)
(***************************************************************************)

\* What connection r will hold of task t once the server has handled what is
\* under way: the last message about t decides.
WillHold(r, t) ==
  LET about == {n \in DOMAIN r.up : r.up[n].task = t} IN
  \/ about = {} /\ t \in r.subs \cup r.refused
  \/ \E n \in about : r.up[n].type = "subscribe" /\ \A other \in about : other <= n

\* Once the server has handled what is under way on the client's open
\* connection, every task the client is subscribed to is subscribed there or
\* was refused with an error, and no other one is: through reconnects, and
\* through subscribing before the connection is open.  No connection has
\* more subscriptions than the configuration allows.
ServerFollowsClient ==
  /\ CanSend /\ conn[ws].server = "open" =>
       \A t \in Tasks : WillHold(conn[ws], t) <=> t \in subscriptions
  /\ \A c \in Connections : Cardinality(conn[c].subs) <= wsMaxSubscriptions

\* A client that has called connect() once has no connection but the one it
\* holds and wants: through drops, terminations and reconnects there is never
\* a second one that would deliver every event twice, and after close()
\* neither an old socket's close event nor a timer brings one back.
OneConnection ==
  connects <= 1 => \A c \in Connections : Usable(c) => c = ws /\ shouldConnect

Online == CanSend /\ conn[ws].server = "open"

\* As long as its session lasts, a client that wants a connection gets one,
\* whatever cuts the one it has.
BackOnline == (session = "lasting" /\ shouldConnect) ~> Online \/ ~shouldConnect

\* "If the WebSocket drops, it reconnects by itself and resubscribes"
\* (ARCHITECTURE.md): the same whatever becomes of the session.
AlwaysBackOnline == shouldConnect ~> Online \/ ~shouldConnect

\* A connection whose client is gone does not stay in the server's map.
DeadConnectionsAreReaped ==
  \A c \in Connections :
    conn[c].server = "open" /\ conn[c].client = "none" ~> conn[c].server = "none"

=============================================================================
