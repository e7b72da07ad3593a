---------------------------- MODULE SessionStream ----------------------------
(***************************************************************************)
(* The event stream of a runtime session: RuntimeSessionStreamBroker, the  *)
(* worker that publishes to it, and the two kinds of HTTP handlers that    *)
(* read from it.  A UI handler sends what its queue receives and holds one *)
(* of the server's SSE slots; an external handler is resumable: it replays *)
(* the bounded history from the client's Last-Event-ID, and every item of  *)
(* its queue only wakes it up to read the history again.                   *)
(*                                                                         *)
(* One action is one use of the broker's lock or of the workspace state.   *)
(* A handler learns that its client has left when it writes to it.  The    *)
(* payloads are left out: an event is its id and what its name means.      *)
(*                                                                         *)
(* Definitions named Faulty... are seeded faults of the definition that    *)
(* follows them; nothing else uses them.                                   *)
(***************************************************************************)
EXTENDS Naturals, Sequences, FiniteSets, SequencesExt, Filtering

CONSTANTS
    StreamSessions,    \* session ids
    UiClients,         \* clients of /workbench/runtime/<id>/stream
    ExternalClients,   \* clients of /api/external/v1/executions/<id>/events
    Watched,           \* the session a client asks for
    HistoryLimit,      \* history_limit
    ClosedLimit,       \* closed_session_history_limit
    MaxSubscribers,    \* max_sse_subscribers
    MaxEvents,         \* bound on the events of a session before it ends
    AbortedSessions    \* the sessions somebody aborts while they run

StreamClients == UiClients \cup ExternalClients

ASSUME WatchedAssumption == Watched \in [StreamClients -> StreamSessions]
ASSUME StreamLimits ==
    /\ HistoryLimit \in Nat \ {0} /\ ClosedLimit \in Nat \ {0}
    /\ MaxSubscribers \in Nat /\ MaxEvents \in [StreamSessions -> Nat]
    /\ AbortedSessions \subseteq StreamSessions
ASSUME ClientsAssumption == UiClients \cap ExternalClients = {}

VARIABLES
    ended,       \* sessions whose document has a terminal status
    stage,       \* how far the worker of a session is with its last words
    log,         \* _event_history_by_session_id
    issued,      \* _next_event_id_by_session_id
    latest,      \* sessions with a snapshot in _latest_snapshot_by_session_id
    closedIds,   \* _closed_session_ids, oldest first
    subscribed,  \* clients whose handler is in _subscribers_by_session_id
    queue,       \* the Queue of a client's handler
    handler,     \* where the handler of a client stands ("idle": none)
    client,      \* "watching", "served", "expired" or "left"
    cursor,      \* the last event id an external client holds
    delivered,   \* the events an external client received
    slots        \* _sse_slots

brokerVars == <<log, issued, latest, closedIds>>
clientVars == <<subscribed, queue, handler, client, cursor, delivered, slots>>
streamVars == <<ended, stage, log, issued, latest, closedIds, subscribed, queue,
                handler, client, cursor, delivered, slots>>

StreamEvents == [id : Nat, name : {"snapshot", "event", "terminal"}]
Items == {"snapshot", "event", "terminal", "stop"}
Stages == {"running", "recorded", "shown", "announced", "closed"}
Closed == {closedIds[i] : i \in DOMAIN closedIds}

\* start_runtime_session published the first snapshot of every session.  A
\* client that has already left is one that never comes.
StreamInit ==
    /\ ended = {}
    /\ stage = [s \in StreamSessions |-> "running"]
    /\ log = [s \in StreamSessions |-> <<[id |-> 1, name |-> "snapshot"]>>]
    /\ issued = [s \in StreamSessions |-> 1]
    /\ latest = StreamSessions
    /\ closedIds = <<>>
    /\ subscribed = {}
    /\ queue = [c \in StreamClients |-> <<>>]
    /\ handler = [c \in StreamClients |-> "idle"]
    /\ client \in [StreamClients -> {"watching", "left"}]
    /\ cursor = [c \in StreamClients |-> 0]
    /\ delivered = [c \in StreamClients |-> <<>>]
    /\ slots = MaxSubscribers

-----------------------------------------------------------------------------
(* The broker.                                                             *)

\* A deque with maxlen keeps its last elements.
Bounded(h) == IF Len(h) > HistoryLimit THEN Tail(h) ELSE h

PutTo(s, item) ==
    queue' = [c \in StreamClients |->
                IF c \in subscribed /\ Watched[c] = s THEN Append(queue[c], item)
                                                      ELSE queue[c]]

\* publish_snapshot, publish_event: nothing is published on a closed session.
Publish(s, name) ==
    IF s \in Closed
    THEN UNCHANGED <<log, issued, latest, queue>>
    ELSE /\ issued' = [issued EXCEPT ![s] = @ + 1]
         /\ log' = [log EXCEPT ![s] =
                      Bounded(Append(@, [id |-> issued[s] + 1, name |-> name]))]
         /\ PutTo(s, name)
         /\ latest' = latest \cup (IF name = "snapshot" THEN {s} ELSE {})

\* close_session: stop the subscribers, remember the id, forget the oldest.
Close(s) ==
    LET ids == IF s \in Closed THEN closedIds ELSE Append(closedIds, s)
        gone == IF Len(ids) > ClosedLimit THEN {Head(ids)} ELSE {}
    IN  /\ PutTo(s, "stop")
        /\ subscribed' = {c \in subscribed : Watched[c] # s}
        /\ closedIds' = IF gone = {} THEN ids ELSE Tail(ids)
        /\ latest' = latest \ gone
        /\ log' = [x \in StreamSessions |-> IF x \in gone THEN <<>> ELSE log[x]]
        /\ issued' = [x \in StreamSessions |-> IF x \in gone THEN 0 ELSE issued[x]]

\* get_events_since(after) raises execution.event_cursor_expired.
FaultyExpired(s, after) == log[s] # <<>> /\ after + 2 < log[s][1].id

Expired(s, after) == log[s] # <<>> /\ after < log[s][1].id - 1

\* What it returns; a handler stops writing at the first terminal event.
Since(s, after) == Kept(log[s], {e \in ToSet(log[s]) : e.id > after})
UpToTerminal(h) ==
    LET last == {i \in DOMAIN h : h[i].name = "terminal"}
    IN  IF last = {} THEN h ELSE SubSeq(h, 1, CHOOSE i \in last : \A j \in last : i <= j)

-----------------------------------------------------------------------------
(* The worker of a session, and the API thread that aborts it.             *)

Step(s, from, to) == stage[s] = from /\ stage' = [stage EXCEPT ![s] = to]
QuietClients == UNCHANGED <<handler, client, cursor, delivered, slots>>

Progress(s, name) ==
    /\ stage[s] = "running" /\ issued[s] < MaxEvents[s]
    /\ Publish(s, name)
    /\ QuietClients /\ UNCHANGED <<ended, stage, closedIds, subscribed>>

Record(s) ==
    /\ Step(s, "running", "recorded")
    /\ ended' = ended \cup {s}
    /\ UNCHANGED <<brokerVars, clientVars>>

ShowOutcome(s) ==
    /\ Step(s, "recorded", "shown")
    /\ Publish(s, "snapshot")
    /\ QuietClients /\ UNCHANGED <<ended, closedIds, subscribed>>

Announce(s) ==
    /\ Step(s, "shown", "announced")
    /\ Publish(s, "terminal")
    /\ QuietClients /\ UNCHANGED <<ended, closedIds, subscribed>>

CloseStream(s) ==
    /\ Step(s, "announced", "closed")
    /\ Close(s)
    /\ QuietClients /\ UNCHANGED ended

\* abort_runtime_session found the worker registered and publishes
\* runtime.aborting, whatever the worker published since.
LateEvent(s) ==
    /\ s \in AbortedSessions /\ issued[s] < MaxEvents[s] + 3
    /\ Publish(s, "event")
    /\ QuietClients /\ UNCHANGED <<ended, stage, closedIds, subscribed>>

-----------------------------------------------------------------------------
(* The handlers.                                                           *)

Quiet == UNCHANGED <<ended, stage, log, issued, latest, closedIds>>

\* BUG PATTERN: every handler gives back a slot, also one that took none.
FaultyReturn(c, state) ==
    /\ handler' = [handler EXCEPT ![c] = "idle"]
    /\ client' = [client EXCEPT ![c] = IF @ = "left" THEN @ ELSE state]
    /\ subscribed' = subscribed \ {c}
    /\ queue' = [queue EXCEPT ![c] = <<>>]
    /\ slots' = slots + 1

\* The handler returns: the generator's finally unsubscribes, the slot of a
\* UI handler is released.
Return(c, state) ==
    /\ handler' = [handler EXCEPT ![c] = "idle"]
    /\ client' = [client EXCEPT ![c] = IF @ = "left" THEN @ ELSE state]
    /\ subscribed' = subscribed \ {c}
    /\ queue' = [queue EXCEPT ![c] = <<>>]
    /\ slots' = IF c \in UiClients THEN slots + 1 ELSE slots

Leave(c) ==
    /\ client[c] = "watching"
    /\ client' = [client EXCEPT ![c] = "left"]
    /\ Quiet /\ UNCHANGED <<subscribed, queue, handler, cursor, delivered, slots>>

\* _write_runtime_stream takes a slot, or answers sse.connection_limit_reached.
UiOpen(c) ==
    /\ handler[c] = "idle" /\ client[c] = "watching" /\ slots > 0
    /\ slots' = slots - 1
    /\ handler' = [handler EXCEPT ![c] = "opened"]
    /\ Quiet /\ UNCHANGED <<subscribed, queue, client, cursor, delivered>>

\* The first snapshot; a terminal one is followed by its terminal event.
UiFirst(c) ==
    /\ handler[c] = "opened"
    /\ IF client[c] = "left" \/ Watched[c] \in ended
       THEN Return(c, "served")
       ELSE /\ handler' = [handler EXCEPT ![c] = "looked"]
            /\ UNCHANGED <<subscribed, queue, client, slots>>
    /\ Quiet /\ UNCHANGED <<cursor, delivered>>

\* RuntimeSessionStreamBroker.subscribe, called by either handler.
Subscribe(c) ==
    LET s == Watched[c]
    IN  /\ handler[c] = "looked"
        /\ handler' = [handler EXCEPT ![c] = "streaming"]
        /\ queue' = [queue EXCEPT ![c] =
                       (IF s \in latest THEN <<"snapshot">> ELSE <<>>)
                       \o (IF s \in Closed THEN <<"stop">> ELSE <<>>)]
        /\ subscribed' = IF s \in Closed THEN subscribed ELSE subscribed \cup {c}
        /\ Quiet /\ UNCHANGED <<client, cursor, delivered, slots>>

FaultyUiAfterStop(c) == Return(c, client[c])

\* The iterator stopped without a terminal event: the state has the outcome.
UiAfterStop(c) == Return(c, IF Watched[c] \in ended THEN "served" ELSE client[c])

UiTake(c) ==
    /\ handler[c] = "streaming" /\ queue[c] # <<>>
    /\ LET item == Head(queue[c])
       IN  IF item = "stop" THEN UiAfterStop(c)
           ELSE IF client[c] = "left" \/ item = "terminal" THEN Return(c, "served")
           ELSE /\ queue' = [queue EXCEPT ![c] = Tail(@)]
                /\ UNCHANGED <<subscribed, handler, client, slots>>
    /\ Quiet /\ UNCHANGED <<cursor, delivered>>

\* Write the events after the cursor.  The handler goes on at `next`, unless
\* it wrote the terminal event, its client left, or `next` is "idle".
Flush(c, next) ==
    LET events == UpToTerminal(Since(Watched[c], cursor[c]))
        final == events # <<>> /\ Last(events).name = "terminal"
        lost == client[c] = "left" /\ events # <<>>
    IN  /\ IF lost \/ final \/ next = "idle"
           THEN Return(c, IF final THEN "served" ELSE client[c])
           ELSE /\ handler' = [handler EXCEPT ![c] = next]
                /\ queue' = [queue EXCEPT ![c] = IF @ = <<>> THEN @ ELSE Tail(@)]
                /\ UNCHANGED <<subscribed, client, slots>>
        /\ IF lost
           THEN UNCHANGED <<cursor, delivered>>
           ELSE /\ delivered' = [delivered EXCEPT ![c] = @ \o events]
                /\ cursor' = [cursor EXCEPT ![c] = IF events = <<>> THEN @ ELSE Last(events).id]

\* The replay: a cursor older than the history is refused with its bounds.
ExternalReplay(c) ==
    /\ handler[c] = "idle" /\ client[c] = "watching"
    /\ IF Expired(Watched[c], cursor[c])
       THEN /\ client' = [client EXCEPT ![c] = "expired"]
            /\ UNCHANGED <<subscribed, queue, handler, cursor, delivered, slots>>
       ELSE Flush(c, "replayed")
    /\ Quiet

\* A flush after the headers were sent: an expired cursor breaks the stream.
FlushOrBreak(c, next) ==
    IF Expired(Watched[c], cursor[c])
    THEN Return(c, client[c]) /\ UNCHANGED <<cursor, delivered>>
    ELSE Flush(c, next)

\* The state tells whether there is anything to wait for.
ExternalLook(c) ==
    /\ handler[c] = "replayed"
    /\ IF Watched[c] \in ended
       THEN FlushOrBreak(c, "idle")
       ELSE /\ handler' = [handler EXCEPT ![c] = "looked"]
            /\ UNCHANGED <<subscribed, queue, client, cursor, delivered, slots>>
    /\ Quiet

ExternalTake(c) ==
    /\ handler[c] = "streaming" /\ queue[c] # <<>>
    /\ FlushOrBreak(c, IF Head(queue[c]) = "stop" THEN "idle" ELSE "streaming")
    /\ Quiet

\* A heartbeat finds that the client left.  UI streams have none.
Heartbeat(c) ==
    /\ handler[c] = "streaming" /\ queue[c] = <<>> /\ client[c] = "left"
    /\ Return(c, "left")
    /\ Quiet /\ UNCHANGED <<cursor, delivered>>

-----------------------------------------------------------------------------
Worker(s) == Record(s) \/ ShowOutcome(s) \/ Announce(s) \/ CloseStream(s)
UiHandler(c) == UiFirst(c) \/ Subscribe(c) \/ UiTake(c)
ExternalHandler(c) == ExternalLook(c) \/ Subscribe(c) \/ ExternalTake(c) \/ Heartbeat(c)

StreamNext ==
    \/ \E s \in StreamSessions :
         \/ Worker(s) \/ LateEvent(s)
         \/ \E name \in {"snapshot", "event"} : Progress(s, name)
    \/ \E c \in StreamClients : Leave(c)
    \/ \E c \in UiClients : UiOpen(c) \/ UiHandler(c)
    \/ \E c \in ExternalClients : ExternalReplay(c) \/ ExternalHandler(c)

StreamSpec == StreamInit /\ [][StreamNext]_streamVars

\* Every execution ends and its worker finishes; handler threads run; an
\* external client whose stream ended asks again with its Last-Event-ID.
StreamFair ==
    /\ \A s \in StreamSessions : WF_streamVars(Worker(s))
    /\ \A c \in UiClients : WF_streamVars(UiHandler(c))
    /\ \A c \in ExternalClients :
         WF_streamVars(ExternalHandler(c)) /\ WF_streamVars(ExternalReplay(c))

-----------------------------------------------------------------------------
StreamTypeOK ==
    /\ ended \subseteq StreamSessions
    /\ stage \in [StreamSessions -> Stages]
    /\ log \in [StreamSessions -> Seq(StreamEvents)]
    /\ issued \in [StreamSessions -> Nat]
    /\ latest \subseteq StreamSessions
    /\ closedIds \in Seq(StreamSessions)
    /\ subscribed \subseteq StreamClients
    /\ queue \in [StreamClients -> Seq(Items)]
    /\ handler \in [StreamClients -> {"idle", "opened", "looked", "replayed", "streaming"}]
    /\ client \in [StreamClients -> {"watching", "served", "expired", "left"}]
    /\ cursor \in [StreamClients -> Nat]
    /\ delivered \in [StreamClients -> Seq(StreamEvents)]
    /\ slots \in 0 .. MaxSubscribers

\* Whatever it lost, missed or retried, an external client holds a gapless
\* run of the session's events that ends with its cursor, and nothing after
\* the terminal event, even when an abort still publishes behind it.
ReplayIsGapless ==
    \A c \in ExternalClients :
      LET d == delivered[c]
      IN  /\ \A i \in 1 .. Len(d) - 1 :
               d[i + 1].id = d[i].id + 1 /\ d[i].name # "terminal"
          /\ d # <<>> => cursor[c] = d[Len(d)].id

\* A stream that is open ends: its client is served the terminal event, or
\* learns that its cursor expired, or leaves; the handler thread returns and
\* gives its slot back.  The one way out is a session the broker forgot, to
\* which a handler that subscribes late listens for ever.
StreamIsServed ==
    \A c \in StreamClients :
      (handler[c] # "idle" \/ (c \in ExternalClients /\ client[c] = "watching"))
        ~> \/ handler[c] = "idle" /\ client[c] # "watching"
           \/ stage[Watched[c]] = "closed" /\ Watched[c] \notin Closed
=============================================================================
