--------------------------- MODULE WorkbenchEvents ---------------------------
(***************************************************************************)
(* The workbench's event bus and the UI that follows it: requests of other *)
(* clients change the graph or the resources and then announce it on       *)
(* WorkbenchEventStreamBroker; the UI reads the bus over a connection that *)
(* may break, resumes at its last event id, falls back to a snapshot, and  *)
(* fetches again what an event says has changed.  The user edits, saves    *)
(* and reloads the main graph meanwhile.                                   *)
(*                                                                         *)
(* A document is its revision.  A request is two actions of the UI with    *)
(* the server's answer between them.  The server is not restarted, and no  *)
(* fetch fails for good.                                                   *)
(***************************************************************************)
EXTENDS Naturals, Sequences, SequencesExt, Filtering

CONSTANTS
    HistoryRoom,    \* history_limit of the broker
    MaxChanges      \* bound on the changes of both topics

Topics == {"graph", "resources"}

ASSUME RoomAssumption == HistoryRoom \in Nat \ {0} /\ MaxChanges \in Nat

VARIABLES
    version,    \* the server's revision of each topic
    unsaid,     \* changes whose event is still to be published
    history,    \* _history
    lastId,     \* _next_event_id
    link,       \* the UI's connection: "down", "captured", "shown" or "up"
    captured,   \* what subscribe() copied before it built the snapshot
    shown,      \* the graph revision of that snapshot
    inbox,      \* the subscriber's queue
    lastSeen,   \* workbenchEventLastId (0: null)
    view,       \* the UI's revision of each topic
    dirty,      \* isDirty of the graph
    conflict,   \* remoteRevision of the flagged conflict (0: none)
    job,        \* what the event handler awaits: "none", a topic or "snapshot"
    reply,      \* the answer to it (0: not yet)
    asked,    \* what the user's own request awaits: "none", "save", "reload"
    answer,     \* the answer to it (0: not yet)
    loading,    \* loadState is 'loading': no finished load since one was begun
    overrun,    \* history: topics of which events fell out of the history unseen
    ignored,    \* history: newest revision of a snapshot ignored while loading
    overtaken   \* history: an answer to the user replaced something newer

serverVars == <<version, unsaid, history, lastId>>
linkVars == <<link, captured, shown, inbox>>
userVars == <<asked, answer, loading, ignored, overtaken>>
eventVars == <<version, unsaid, history, lastId, link, captured, shown, inbox,
               lastSeen, view, dirty, conflict, job, reply, asked, answer,
               loading, overrun, ignored, overtaken>>

EventsInit ==
    /\ version = [k \in Topics |-> 1] /\ view = version
    /\ unsaid = [k \in Topics |-> 0]
    /\ history = <<>> /\ lastId = 0
    /\ link = "down" /\ captured = [base |-> 0, events |-> <<>>] /\ shown = 0
    /\ inbox = <<>> /\ lastSeen = 0
    /\ dirty = FALSE /\ conflict = 0
    /\ job = "none" /\ reply = 0
    /\ asked = "none" /\ answer = 0
    /\ loading = FALSE /\ overrun = {} /\ ignored = 0 /\ overtaken = FALSE

-----------------------------------------------------------------------------
(* The server.                                                             *)

Changed(k) ==
    /\ version["graph"] + version["resources"] < MaxChanges + 2
    /\ version' = [version EXCEPT ![k] = @ + 1]
    /\ unsaid' = [unsaid EXCEPT ![k] = @ + 1]

\* Another client saves the graph or changes the resources.
Change(k) ==
    /\ Changed(k)
    /\ UNCHANGED <<history, lastId, linkVars, lastSeen, view, dirty, conflict,
                   job, reply, userVars, overrun>>

\* publish(): a deque with maxlen forgets its oldest event.  The revision is
\* read for the event, not taken from the change.
Say(k) ==
    LET event == [id |-> lastId + 1, topic |-> k, revision |-> version[k]]
        all == Append(history, event)
    IN  /\ unsaid[k] > 0
        /\ unsaid' = [unsaid EXCEPT ![k] = @ - 1]
        /\ lastId' = lastId + 1
        /\ history' = IF Len(all) > HistoryRoom THEN Tail(all) ELSE all
        /\ inbox' = IF link = "up" THEN Append(inbox, event) ELSE inbox
        /\ UNCHANGED <<version, link, captured, shown, lastSeen, view, dirty,
                       conflict, job, reply, userVars, overrun>>

After(id) == Kept(history, {e \in ToSet(history) : e.id > id})

\* subscribe() without a cursor, first half: the events so far are copied ...
Capture ==
    /\ link = "down" /\ job = "none" /\ lastSeen = 0
    /\ link' = "captured"
    /\ captured' = [base |-> lastId, events |-> history]
    /\ UNCHANGED <<serverVars, shown, inbox, lastSeen, view, dirty, conflict,
                   job, reply, userVars, overrun>>

\* ... then the snapshot is built without the broker's lock ...
TakeSnapshot ==
    /\ link = "captured"
    /\ link' = "shown" /\ shown' = version["graph"]
    /\ UNCHANGED <<serverVars, captured, inbox, lastSeen, view, dirty, conflict,
                   job, reply, userVars, overrun>>

FaultyNewer == <<>>

\* ... and the events published meanwhile follow it,
Newer == After(captured.base)

\* second half: the subscriber gets both and is registered.
Register ==
    /\ link = "shown"
    /\ link' = "up"
    /\ inbox' = captured.events
                \o <<[id |-> captured.base, topic |-> "snapshot", revision |-> shown]>>
                \o Newer
    /\ captured' = [base |-> 0, events |-> <<>>] /\ shown' = 0
    /\ overrun' = IF history # <<>> /\ history[1].id > captured.base + 1 THEN Topics
                  ELSE IF captured.base > Len(captured.events)
                  THEN overrun \cup {"resources"} ELSE overrun
    /\ UNCHANGED <<serverVars, lastSeen, view, dirty, conflict, job, reply, userVars>>

\* _assert_cursor_available_locked
ExpiredCursor == history # <<>> /\ lastSeen < history[1].id - 1

\* The UI resumes at its last event; 409 makes it forget the cursor and
\* fetch the snapshot, which does not show the resources.
Resume ==
    /\ link = "down" /\ job = "none" /\ lastSeen > 0
    /\ IF ExpiredCursor
       THEN /\ lastSeen' = 0 /\ job' = "snapshot"
            /\ overrun' = overrun \cup {"resources"}
            /\ UNCHANGED <<link, inbox>>
       ELSE /\ link' = "up" /\ inbox' = After(lastSeen)
            /\ UNCHANGED <<lastSeen, job, overrun>>
    /\ UNCHANGED <<serverVars, captured, shown, view, dirty, conflict, reply, userVars>>

\* The snapshot is still on its way and the events before it do not tell all.
SnapshotDue ==
    history # <<>> /\ history[1].id > 1 /\ \E i \in DOMAIN inbox : inbox[i].topic = "snapshot"

\* The connection breaks; an answer that is awaited still comes.  The UI
\* resumes at the last event it saw, also when that came before the snapshot.
Break ==
    /\ link = "up"
    /\ link' = "down" /\ inbox' = <<>>
    /\ overrun' = IF SnapshotDue THEN overrun \cup {"graph"} ELSE overrun
    /\ UNCHANGED <<serverVars, captured, shown, lastSeen, view, dirty, conflict,
                   job, reply, userVars>>

\* The stream ends in good order: the UI fetches the snapshot, then resumes.
End ==
    /\ link = "up" /\ job = "none"
    /\ link' = "down" /\ inbox' = <<>> /\ job' = "snapshot"
    /\ UNCHANGED <<serverVars, captured, shown, lastSeen, view, dirty, conflict,
                   reply, userVars, overrun>>

-----------------------------------------------------------------------------
(* The UI's event handler.                                                 *)

\* markExternalGraphConflict keeps the newest remote revision.
Mark(revision) == conflict' = IF revision > conflict THEN revision ELSE conflict

\* reconcileSnapshot: another revision is fetched, or is a conflict; while the
\* graph is being loaded (isLoaded is false) the snapshot is ignored.
Reconcile(revision) ==
    /\ IF loading \/ revision = view["graph"] THEN job' = "none" /\ UNCHANGED conflict
       ELSE IF dirty THEN job' = "none" /\ Mark(revision)
       ELSE job' = "graph" /\ UNCHANGED conflict
    /\ ignored' = IF loading /\ revision > ignored THEN revision ELSE ignored

\* handleWorkbenchEvent, one event at a time.
Receive ==
    /\ link = "up" /\ job = "none" /\ inbox # <<>>
    /\ inbox' = Tail(inbox)
    /\ LET e == Head(inbox)
       IN  /\ lastSeen' = IF e.id > 0 THEN e.id ELSE lastSeen
           /\ CASE e.topic = "snapshot" -> Reconcile(e.revision)
                [] e.topic = "graph" ->
                     /\ IF dirty THEN Mark(e.revision) /\ UNCHANGED job
                                 ELSE job' = "graph" /\ UNCHANGED conflict
                     /\ UNCHANGED ignored
                [] e.topic = "resources" -> job' = "resources" /\ UNCHANGED <<conflict, ignored>>
    /\ loading' = (loading \/ job' = "graph")
    /\ UNCHANGED <<serverVars, link, captured, shown, view, dirty, reply, asked, answer,
                   overrun, overtaken>>

\* The server answers the handler's fetch.
Fetch ==
    /\ job # "none" /\ reply = 0
    /\ reply' = version[IF job = "snapshot" THEN "graph" ELSE job]
    /\ UNCHANGED <<serverVars, linkVars, lastSeen, view, dirty, conflict, job, userVars, overrun>>

\* The answer arrives: loadGraph replaces whatever was edited meanwhile, and the
\* graph counts as loaded although a load of the user's may still be under way.
Apply ==
    /\ reply > 0
    /\ reply' = 0
    /\ CASE job = "snapshot" ->
              /\ Reconcile(reply) /\ UNCHANGED <<view, dirty>>
              /\ loading' = (loading \/ job' = "graph")
         [] job = "graph" ->
              /\ view' = [view EXCEPT !["graph"] = reply]
              /\ dirty' = FALSE /\ conflict' = 0 /\ job' = "none" /\ loading' = FALSE
              /\ UNCHANGED ignored
         [] job = "resources" ->
              /\ view' = [view EXCEPT !["resources"] = reply]
              /\ job' = "none" /\ UNCHANGED <<dirty, conflict, loading, ignored>>
    /\ UNCHANGED <<serverVars, linkVars, lastSeen, asked, answer, overrun, overtaken>>

-----------------------------------------------------------------------------
(* The user.                                                               *)

Edit ==
    /\ ~dirty
    /\ dirty' = TRUE
    /\ UNCHANGED <<serverVars, linkVars, lastSeen, view, conflict, job, reply, userVars, overrun>>

Ask(kind) ==
    /\ asked = "none"
    /\ kind = "save" => dirty
    /\ asked' = kind
    /\ loading' = (loading \/ kind = "reload")
    /\ UNCHANGED <<serverVars, linkVars, lastSeen, view, dirty, conflict, job,
                   reply, answer, overrun, ignored, overtaken>>

\* putGraphDocument insists on its revision only when a conflict is flagged;
\* otherwise the save prefers the current graph.
ServeSave ==
    /\ asked = "save" /\ answer = 0
    /\ IF conflict > 0 /\ view["graph"] # version["graph"]
       THEN asked' = "refused" /\ answer' = version["graph"] /\ UNCHANGED <<version, unsaid>>
       ELSE Changed("graph") /\ answer' = version["graph"] + 1 /\ UNCHANGED asked
    /\ UNCHANGED <<history, lastId, linkVars, lastSeen, view, dirty, conflict,
                   job, reply, loading, overrun, ignored, overtaken>>

ServeReload ==
    /\ asked = "reload" /\ answer = 0
    /\ answer' = version["graph"]
    /\ UNCHANGED <<serverVars, linkVars, lastSeen, view, dirty, conflict, job,
                   reply, asked, loading, overrun, ignored, overtaken>>

\* The answer is taken as it is: it also clears a conflict flagged since with
\* a newer graph, and replaces a newer graph fetched or shown since.
AnswerArrives ==
    /\ answer > 0
    /\ asked' = "none" /\ answer' = 0
    /\ loading' = (loading /\ asked # "reload")
    /\ IF asked = "refused"
       THEN Mark(answer) /\ UNCHANGED <<view, dirty, ignored, overtaken>>
       ELSE /\ view' = [view EXCEPT !["graph"] = answer]
            /\ dirty' = FALSE /\ conflict' = 0 /\ ignored' = 0
            /\ overtaken' = \/ overtaken
                            \/ conflict > answer \/ view["graph"] > answer \/ ignored > answer
    /\ UNCHANGED <<serverVars, linkVars, lastSeen, job, reply, overrun>>

-----------------------------------------------------------------------------
Connection == Capture \/ TakeSnapshot \/ Register \/ Resume
Handler == Fetch \/ Apply
Server == \E k \in Topics : Say(k)
User == Edit \/ (\E kind \in {"save", "reload"} : Ask(kind))

EventsNext ==
    \/ \E k \in Topics : Change(k)
    \/ Server \/ Connection \/ Break \/ End \/ Receive \/ Handler
    \/ User \/ ServeSave \/ ServeReload \/ AnswerArrives

EventsSpec == EventsInit /\ [][EventsNext]_eventVars

\* Requests are answered and announced, the UI reconnects after half a
\* second, and now and then a connection lasts until an event is handled.
EventsFair ==
    /\ WF_eventVars(Server) /\ WF_eventVars(Connection) /\ WF_eventVars(Handler)
    /\ WF_eventVars(ServeSave \/ ServeReload) /\ WF_eventVars(AnswerArrives)
    /\ SF_eventVars(Receive)

-----------------------------------------------------------------------------
BusEvents == [id : Nat, topic : Topics \cup {"snapshot"}, revision : Nat]

EventsTypeOK ==
    /\ version \in [Topics -> Nat] /\ view \in [Topics -> Nat]
    /\ unsaid \in [Topics -> Nat]
    /\ history \in Seq(BusEvents) /\ lastId \in Nat
    /\ link \in {"down", "captured", "shown", "up"}
    /\ captured \in [base : Nat, events : Seq(BusEvents)] /\ shown \in Nat
    /\ inbox \in Seq(BusEvents) /\ lastSeen \in Nat
    /\ dirty \in BOOLEAN /\ conflict \in Nat
    /\ job \in Topics \cup {"none", "snapshot"} /\ reply \in Nat
    /\ asked \in {"none", "save", "reload", "refused"} /\ answer \in Nat
    /\ loading \in BOOLEAN /\ overrun \subseteq Topics /\ ignored \in Nat
    /\ overtaken \in BOOLEAN

\* Once nobody changes anything any more, the UI shows what the server has,
\* or tells the user of the conflict, whatever connections broke meanwhile.
\* The ways out are the code's: events that fell out of the history while a
\* snapshot was built or before it was delivered, resource events older than
\* the history when the UI came without a cursor or with an expired one, and
\* an answer to the user that arrives after what told of a newer change: its
\* event, or a snapshot that was ignored because the answer was still awaited.
UiConverges ==
    \A k \in Topics :
      <>[]( \/ view[k] = version[k]
            \/ k = "graph" /\ (conflict > 0 \/ overtaken)
            \/ k \in overrun )
=============================================================================
