---------------------------- MODULE WebSocketHub ----------------------------
(***************************************************************************)
(* The hub of internal/events/websocket.go and its clients' read and write *)
(* pumps.                                                                  *)
(*                                                                         *)
(* The hub's loop receives from the unbuffered subscribe and unsubscribe   *)
(* channels; a pump that ends hands its client to unsubscribe and closes   *)
(* the connection.  The hub closes a client's send channel; writing to a   *)
(* closed channel, or closing it again, panics.                            *)
(***************************************************************************)
EXTENDS Naturals

CONSTANTS
    Clients, Topics,
    SendBuffer   \* capacity of a client's send channel (256 in the code)

ASSUME HubConfig == SendBuffer \in Nat \ {0}

TopicAll == "all"

VARIABLES
    clients,        \* h.clients
    send,           \* messages waiting in client.send
    sendClosed,     \* clients whose send channel is closed
    subscriptions,  \* client.subscriptions
    open,           \* clients whose connection is open
    reader, writer, \* step of each client's pumps
    owed,           \* clients with events queued and not yet written (history)
    hubPanic        \* the hub's goroutine died

hubVars == <<clients, send, sendClosed, subscriptions, open, reader, writer, owed, hubPanic>>

HubInit ==
    /\ clients = {} /\ sendClosed = {} /\ open = {}
    /\ send = [c \in Clients |-> 0]
    /\ subscriptions = [c \in Clients |-> {}]
    /\ reader = [c \in Clients |-> "none"]
    /\ writer = [c \in Clients |-> "none"]
    /\ owed = {}
    /\ hubPanic = FALSE

\* A non-blocking send: a full buffer drops the message.
Queued(n) == IF n < SendBuffer THEN n + 1 ELSE n

-----------------------------------------------------------------------------
(* HandleWebSocket and the hub's loop *)

\* Upgrade, h.subscribe <- client, received by Run; then the pumps start.
HandleWebSocket(c) ==
    /\ reader[c] = "none" /\ ~hubPanic
    /\ clients' = clients \union {c}
    /\ open' = open \union {c}
    /\ reader' = [reader EXCEPT ![c] = "read"]
    /\ writer' = [writer EXCEPT ![c] = "select"]
    /\ UNCHANGED <<send, sendClosed, subscriptions, owed, hubPanic>>

\* Faulty variant: the client stays in the map.
UnsubscribeKeeps(c) ==
    /\ ~hubPanic
    /\ clients' = clients
    /\ sendClosed' = IF c \in clients THEN sendClosed \union {c} ELSE sendClosed
    /\ hubPanic' = (c \in clients /\ c \in sendClosed)

\* Run receives c from unsubscribe: forget it and close its channel, once.
Unsubscribe(c) ==
    /\ ~hubPanic
    /\ clients' = clients \ {c}
    /\ sendClosed' = IF c \in clients THEN sendClosed \union {c} ELSE sendClosed
    /\ hubPanic' = (c \in clients /\ c \in sendClosed)

\* The deferred c.hub.unsubscribe <- c and c.conn.Close() of either pump.
ReadUnsubscribe(c) ==
    /\ reader[c] = "unsubscribe"
    /\ Unsubscribe(c)
    /\ reader' = [reader EXCEPT ![c] = "close"]
    /\ UNCHANGED <<send, subscriptions, open, writer, owed>>

WriteUnsubscribe(c) ==
    /\ writer[c] = "unsubscribe"
    /\ Unsubscribe(c)
    /\ writer' = [writer EXCEPT ![c] = "close"]
    /\ UNCHANGED <<send, subscriptions, open, reader, owed>>

ReadClose(c) ==
    /\ reader[c] = "close"
    /\ open' = open \ {c}
    /\ reader' = [reader EXCEPT ![c] = "ended"]
    /\ UNCHANGED <<clients, send, sendClosed, subscriptions, writer, owed, hubPanic>>

\* Faulty variant: the connection is left open.
WriteCloseForgotten(c) ==
    /\ writer[c] = "close"
    /\ writer' = [writer EXCEPT ![c] = "ended"]
    /\ UNCHANGED <<clients, send, sendClosed, subscriptions, open, reader, owed, hubPanic>>

WriteClose(c) ==
    /\ writer[c] = "close"
    /\ open' = open \ {c}
    /\ writer' = [writer EXCEPT ![c] = "ended"]
    /\ UNCHANGED <<clients, send, sendClosed, subscriptions, reader, owed, hubPanic>>

-----------------------------------------------------------------------------
(* readPump *)

\* ReadMessage fails: the connection is closed, broken or silent for 60 seconds.
ReadFails(c) ==
    /\ reader[c] = "read"
    /\ reader' = [reader EXCEPT ![c] = "unsubscribe"]
    /\ UNCHANGED <<clients, send, sendClosed, subscriptions, open, writer, owed, hubPanic>>

\* handleMessage updates the subscriptions under the client's lock.
HandleSubscribe(c, t) ==
    /\ reader[c] = "read" /\ c \in open
    /\ subscriptions' = [subscriptions EXCEPT ![c] = @ \union {t}]
    /\ reader' = [reader EXCEPT ![c] = "reply"]
    /\ UNCHANGED <<clients, send, sendClosed, open, writer, owed, hubPanic>>

HandleUnsubscribe(c, t) ==
    /\ reader[c] = "read" /\ c \in open
    /\ subscriptions' = [subscriptions EXCEPT ![c] = @ \ {t}]
    /\ reader' = [reader EXCEPT ![c] = "reply"]
    /\ UNCHANGED <<clients, send, sendClosed, open, writer, owed, hubPanic>>

\* A ping is answered like a subscription; an invalid or unknown message is not.
HandlePing(c) ==
    /\ reader[c] = "read" /\ c \in open
    /\ reader' = [reader EXCEPT ![c] = "reply"]
    /\ UNCHANGED <<clients, send, sendClosed, subscriptions, open, writer, owed, hubPanic>>

\* sendJSON holds no lock: the hub may have closed the channel meanwhile.  The
\* panic is recovered by readPump's deferred function, which ends the pump.
SendJSON(c) ==
    /\ reader[c] = "reply"
    /\ IF c \in sendClosed
         THEN reader' = [reader EXCEPT ![c] = "unsubscribe"] /\ UNCHANGED send
         ELSE /\ reader' = [reader EXCEPT ![c] = "read"]
              /\ send' = [send EXCEPT ![c] = Queued(@)]
    /\ UNCHANGED <<clients, sendClosed, subscriptions, open, writer, owed, hubPanic>>

-----------------------------------------------------------------------------
(* writePump *)

\* Faulty variant: waits for a full batch.
WriteBatchFull(c) ==
    /\ writer[c] = "select" /\ send[c] = SendBuffer
    /\ send' = [send EXCEPT ![c] = 0]
    /\ \E ok \in BOOLEAN :
          /\ ok => c \in open
          /\ owed' = IF ok THEN owed \ {c} ELSE owed
          /\ writer' = [writer EXCEPT ![c] = IF ok THEN "select" ELSE "unsubscribe"]
    /\ UNCHANGED <<clients, sendClosed, subscriptions, open, reader, hubPanic>>

\* A batch of everything queued is written; a failed write ends the pump.
WriteBatch(c) ==
    /\ writer[c] = "select" /\ send[c] > 0
    /\ send' = [send EXCEPT ![c] = 0]
    /\ \E ok \in BOOLEAN :
          /\ ok => c \in open
          /\ owed' = IF ok THEN owed \ {c} ELSE owed
          /\ writer' = [writer EXCEPT ![c] = IF ok THEN "select" ELSE "unsubscribe"]
    /\ UNCHANGED <<clients, sendClosed, subscriptions, open, reader, hubPanic>>

\* The channel is closed and drained, or the ping cannot be written.
WriteEnds(c) ==
    /\ writer[c] = "select"
    /\ (c \in sendClosed /\ send[c] = 0) \/ c \notin open
    /\ writer' = [writer EXCEPT ![c] = "unsubscribe"]
    /\ UNCHANGED <<clients, send, sendClosed, subscriptions, open, reader, owed, hubPanic>>

-----------------------------------------------------------------------------
(* BroadcastEvent and BroadcastEventToTopic *)

\* Under the hub's read lock, to every client subscribed to the topic or to all;
\* a full buffer drops the event.
BroadcastEvent(t) ==
    /\ LET to == {c \in clients : {t, TopicAll} \intersect subscriptions[c] # {}}
       IN  /\ to # {}
           /\ send' = [c \in Clients |-> IF c \in to THEN Queued(send[c]) ELSE send[c]]
           /\ owed' = owed \union {c \in to : send[c] < SendBuffer}
    /\ UNCHANGED <<clients, sendClosed, subscriptions, open, reader, writer, hubPanic>>

Read(c) == ReadFails(c) \/ HandlePing(c) \/ SendJSON(c) \/ ReadUnsubscribe(c) \/ ReadClose(c)

Write(c) == WriteBatch(c) \/ WriteEnds(c) \/ WriteUnsubscribe(c) \/ WriteClose(c)

HubNext ==
    \/ \E c \in Clients :
          \/ HandleWebSocket(c) \/ Read(c) \/ Write(c)
          \/ \E t \in Topics : HandleSubscribe(c, t) \/ HandleUnsubscribe(c, t)
    \/ \E t \in Topics : BroadcastEvent(t)

HubSpec == HubInit /\ [][HubNext]_hubVars

\* Pumps that can move do; a closed connection makes ReadMessage return.
FairHubSpec ==
    /\ HubSpec
    /\ \A c \in Clients :
          /\ WF_hubVars(SendJSON(c)) /\ WF_hubVars(ReadUnsubscribe(c)) /\ WF_hubVars(ReadClose(c))
          /\ WF_hubVars(c \notin open /\ ReadFails(c))
          /\ WF_hubVars(Write(c))

-----------------------------------------------------------------------------
(* Properties *)

\* Every variable stays in its range: a send channel never holds more than its
\* buffer, whatever hub, broadcasts and replies put into it.
HubTyped ==
    /\ clients \subseteq Clients /\ sendClosed \subseteq Clients /\ open \subseteq Clients
    /\ send \in [Clients -> 0..SendBuffer]
    /\ subscriptions \in [Clients -> SUBSET Topics]
    /\ reader \in [Clients -> {"none", "read", "reply", "unsubscribe", "close", "ended"}]
    /\ writer \in [Clients -> {"none", "select", "unsubscribe", "close", "ended"}]
    /\ owed \subseteq Clients
    /\ hubPanic \in BOOLEAN

\* Both pumps of a client unsubscribe it, in either order, and the reader may
\* have panicked: the hub still closes each send channel at most once and its
\* goroutine, which has no recover, survives.
HubSurvives == ~hubPanic

\* A client in the hub's map has an open channel, so neither Run's broadcast nor
\* BroadcastEvent, which send without a recover, can hit a closed one.
MembersCanReceive == clients \intersect sendClosed = {}

\* The hub is safe from its clients: its goroutine survives, it never sends on a
\* closed channel, and no channel holds more than its buffer.
HubSafety == HubTyped /\ HubSurvives /\ MembersCanReceive

\* When either pump of a client ends, for whatever reason, the other one ends
\* too, the connection is closed and the hub has forgotten the client.
DisconnectIsComplete ==
    \A c \in Clients :
        (reader[c] = "unsubscribe" \/ writer[c] = "unsubscribe") ~>
            (reader[c] = "ended" /\ writer[c] = "ended" /\ c \notin clients /\ c \notin open)

\* An event that BroadcastEvent queued for a client is written to its connection,
\* unless the connection ends: nothing stays behind in the channel when the
\* writer batches, and a client the hub forgets is drained before it is closed.
EventsReachClients ==
    \A c \in Clients : c \in owed ~> c \notin owed \/ c \notin open
=============================================================================
