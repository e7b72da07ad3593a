---------------------------- MODULE DebugHistory ----------------------------
(* The history files of debug sessions. debug_session_history.py with     *)
(* event_storage/session_store.py, segment.py and frame.py; the callers   *)
(* are in compilation_workbench_service.py, 21856-21910 and 22067-22075.  *)
(*                                                                        *)
(* A session's document grows by events in the workspace state, and each  *)
(* version is then handed to the history store outside that critical      *)
(* section. The store appends the events beyond a cursor to a segment of  *)
(* checked frames, or rewrites the segment when the document does not     *)
(* extend the cursor. Event ids are positions, so a document is its       *)
(* length. Keyframes go to a second segment in the same way and are left  *)
(* out, as is a segment whose header is cut short.                        *)
EXTENDS Integers, Sequences, FiniteSets, Filtering

CONSTANTS
    DebugSessions,  \* debug sessions
    Writers,        \* threads: the debug worker and control requests
    Nobody,         \* the lock of the history root is free
    TornFrame,      \* what a write that was cut short leaves at the end
    NoCursor,       \* nothing is known of the segment in this process
    Retention,      \* history_retention_limit
    MaxDebugEvents, \* bound: events of a session
    MaxFaults       \* bound: failed writes and crashes

ASSUME HistoryAssumption ==
    /\ Retention \in Nat \ {0} /\ MaxDebugEvents \in Nat /\ MaxFaults \in Nat
    /\ DebugSessions # {} /\ Nobody \notin Writers
    /\ TornFrame \notin Nat /\ NoCursor \notin Nat

VARIABLES
    docs,     \* events of each session's document in the workspace state
    writer,   \* where each thread is and the version it carries
    lock,     \* the RLock of the history root
    segment,  \* the frames of events.seg
    listed,   \* index.json, newest first
    manifest, \* the sessions whose manifest.json exists
    cursors,   \* _cursors: the length that was persisted
    whole,    \* history: the last version that was persisted without a fault
    spoiled,  \* history: sessions whose rewrite failed and left an old cursor
    faults

histVars == <<docs, writer, lock, segment, listed, manifest, cursors, whole, spoiled, faults>>

HistoryPlaces == {"idle", "waiting", "manifest", "reset", "recover", "append", "index", "trim"}
IdleWriter(s) == [at |-> "idle", session |-> s, size |-> 0, pos |-> 0, gone |-> {}]
AnySession == CHOOSE s \in DebugSessions : TRUE

HistoryInit ==
    /\ docs = [s \in DebugSessions |-> 0]
    /\ writer = [w \in Writers |-> IdleWriter(AnySession)]
    /\ lock = Nobody
    /\ segment = [s \in DebugSessions |-> <<>>]
    /\ listed = <<>>
    /\ manifest = {}
    /\ cursors = [s \in DebugSessions |-> NoCursor]
    /\ whole = [s \in DebugSessions |-> 0]
    /\ spoiled = {}
    /\ faults = 0

\* scan_frames: the frames before the first one that is cut short.
Readable(tail) ==
    LET torn == {i \in DOMAIN tail : tail[i] = TornFrame}
    IN  IF torn = {} THEN tail
        ELSE SubSeq(tail, 1, (CHOOSE i \in torn : \A j \in torn : i <= j) - 1)

\* BUG PATTERN: the frames are taken as they are.
FaultyRecovered(tail) == tail

\* recover_tail: the next frame follows the last intact one.
Recovered(tail) == Readable(tail)

\* _upsert_summary: the sessions beyond the limit, and those that stay.
Trimmed(list) == {list[i] : i \in Retention + 1 .. Len(list)}
Retained(list) == SubSeq(list, 1, IF Len(list) < Retention THEN Len(list) ELSE Retention)

\* _persist_events_and_keyframes: append, or rewrite.
Extends(size, at) == at # NoCursor /\ size >= at

HistAt(w, place) == writer[w].at = place
Proceed(w, place) == writer' = [writer EXCEPT ![w].at = place]

\* _append_debug_session_event and _replace_debug_session_document: the
\* document changes, with a new event or without, and its version is handed on.
ChangeDocument(w, s) ==
    /\ HistAt(w, "idle")
    /\ \E size \in {docs[s], docs[s] + 1} :
          /\ size \in 1 .. MaxDebugEvents
          /\ docs' = [docs EXCEPT ![s] = size]
          /\ writer' = [writer EXCEPT ![w] =
                          [at |-> "waiting", session |-> s, size |-> size, pos |-> 0, gone |-> {}]]
    /\ UNCHANGED <<lock, segment, listed, manifest, cursors, whole, spoiled, faults>>

TakeLock(w) ==
    /\ HistAt(w, "waiting") /\ lock = Nobody
    /\ lock' = w
    /\ Proceed(w, "manifest")
    /\ UNCHANGED <<docs, segment, listed, manifest, cursors, whole, spoiled, faults>>

\* write_metadata, a file that is replaced in one step; then the cursor is read.
WriteMetadata(w) ==
    LET s == writer[w].session
    IN  /\ HistAt(w, "manifest")
        /\ manifest' = manifest \cup {s}
        /\ whole' = [whole EXCEPT ![s] = 0]
        /\ writer' = [writer EXCEPT
             ![w].at = IF Extends(writer[w].size, cursors[s]) THEN "recover" ELSE "reset",
             ![w].pos = IF Extends(writer[w].size, cursors[s]) THEN cursors[s] ELSE 0]
        /\ UNCHANGED <<docs, lock, segment, listed, cursors, spoiled, faults>>

ResetSegment(w) ==
    /\ HistAt(w, "reset")
    /\ segment' = [segment EXCEPT ![writer[w].session] = <<>>]
    /\ spoiled' = spoiled \ {writer[w].session}
    /\ Proceed(w, "recover")
    /\ UNCHANGED <<docs, lock, listed, manifest, cursors, whole, faults>>

\* append_events begins by truncating what an earlier write left.
RecoverTail(w) ==
    LET s == writer[w].session
    IN  /\ HistAt(w, "recover")
        /\ segment' = IF writer[w].pos < writer[w].size
                      THEN [segment EXCEPT ![s] = Recovered(segment[s])]
                      ELSE segment
        /\ Proceed(w, "append")
        /\ UNCHANGED <<docs, lock, listed, manifest, cursors, whole, spoiled, faults>>

\* Segment.append: one frame, flushed.
AppendFrame(w) ==
    LET s == writer[w].session
    IN  /\ HistAt(w, "append") /\ writer[w].pos < writer[w].size
        /\ segment' = [segment EXCEPT ![s] = Append(@, writer[w].pos + 1)]
        /\ writer' = [writer EXCEPT ![w].pos = @ + 1]
        /\ UNCHANGED <<docs, lock, listed, manifest, cursors, whole, spoiled, faults>>

SetCursor(w) ==
    LET s == writer[w].session
    IN  /\ HistAt(w, "append") /\ writer[w].pos = writer[w].size
        /\ cursors' = [cursors EXCEPT ![s] = writer[w].size]
        /\ whole' = [whole EXCEPT ![s] = writer[w].size]
        /\ Proceed(w, "index")
        /\ UNCHANGED <<docs, lock, segment, listed, manifest, spoiled, faults>>

\* _upsert_summary saves the index in one step, then deletes what it dropped.
Newest(s, list) == <<s>> \o Kept(list, DebugSessions \ {s})

UpsertSummary(w) ==
    LET list == Newest(writer[w].session, listed)
    IN  /\ HistAt(w, "index")
        /\ listed' = Retained(list)
        /\ writer' = [writer EXCEPT ![w].at = "trim", ![w].gone = Trimmed(list)]
        /\ UNCHANGED <<docs, lock, segment, manifest, cursors, whole, spoiled, faults>>

\* The directories of the dropped sessions and their cursors; the lock is free.
DeleteTrimmed(w) ==
    LET gone == writer[w].gone
    IN  /\ HistAt(w, "trim")
        /\ segment' = [s \in DebugSessions |-> IF s \in gone THEN <<>> ELSE segment[s]]
        /\ manifest' = manifest \ gone
        /\ cursors' = [s \in DebugSessions |-> IF s \in gone THEN NoCursor ELSE cursors[s]]
        /\ whole' = [s \in DebugSessions |-> IF s \in gone THEN 0 ELSE whole[s]]
        /\ lock' = Nobody
        /\ writer' = [writer EXCEPT ![w] = IdleWriter(AnySession)]
        /\ UNCHANGED <<docs, listed, spoiled, faults>>

\* What a write of the next frame leaves behind when it does not return.
Cut(w) ==
    LET s == writer[w].session
    IN  {segment[s], Append(segment[s], TornFrame), Append(segment[s], writer[w].pos + 1)}

MidFrame(w) == HistAt(w, "append") /\ writer[w].pos < writer[w].size

\* The disk refuses a frame: persist_session_document raises, the cursor stays.
WriteFails(w) ==
    /\ faults < MaxFaults /\ MidFrame(w)
    /\ faults' = faults + 1
    /\ \E tail \in Cut(w) : segment' = [segment EXCEPT ![writer[w].session] = tail]
    /\ LET s == writer[w].session
       IN  spoiled' = IF cursors[s] = NoCursor \/ Extends(writer[w].size, cursors[s])
                      THEN spoiled ELSE spoiled \cup {s}
    /\ lock' = Nobody
    /\ writer' = [writer EXCEPT ![w] = IdleWriter(AnySession)]
    /\ UNCHANGED <<docs, listed, manifest, cursors, whole>>

\* The process ends: cursors, lock and threads are gone, the files stay.
HistoryCrash ==
    /\ faults < MaxFaults /\ lock # Nobody
    /\ faults' = faults + 1
    /\ segment' \in {segment} \cup
         UNION {{[segment EXCEPT ![writer[w].session] = tail] : tail \in Cut(w)}
                : w \in {v \in Writers : MidFrame(v)}}
    /\ cursors' = [s \in DebugSessions |-> NoCursor]
    /\ lock' = Nobody
    /\ writer' = [w \in Writers |-> IdleWriter(AnySession)]
    /\ UNCHANGED <<docs, listed, manifest, whole, spoiled>>

HistoryNext ==
    \/ HistoryCrash
    \/ \E w \in Writers :
         \/ \E s \in DebugSessions : ChangeDocument(w, s)
         \/ TakeLock(w) \/ WriteMetadata(w) \/ ResetSegment(w) \/ RecoverTail(w)
         \/ AppendFrame(w) \/ SetCursor(w) \/ UpsertSummary(w) \/ DeleteTrimmed(w)
         \/ WriteFails(w)

HistorySpec == HistoryInit /\ [][HistoryNext]_histVars

(* ---------------------------------------------------------------- *)
(* Properties.                                                      *)

HistoryTypeOK ==
    /\ docs \in [DebugSessions -> 0 .. MaxDebugEvents]
    /\ writer \in [Writers -> [at : HistoryPlaces, session : DebugSessions,
                               size : 0 .. MaxDebugEvents, pos : 0 .. MaxDebugEvents,
                               gone : SUBSET DebugSessions]]
    /\ lock \in Writers \cup {Nobody}
    /\ segment \in [DebugSessions -> Seq(1 .. MaxDebugEvents \cup {TornFrame})]
    /\ listed \in Seq(DebugSessions)
    /\ manifest \in SUBSET DebugSessions
    /\ cursors \in [DebugSessions -> 0 .. MaxDebugEvents \cup {NoCursor}]
    /\ whole \in [DebugSessions -> 0 .. MaxDebugEvents]
    /\ spoiled \in SUBSET DebugSessions
    /\ faults \in 0 .. MaxFaults

\* Every frame follows, somewhere, the one before it in the document.
NoGap(tail) ==
    \A i \in DOMAIN tail : tail[i] = 1 \/ \E j \in 1 .. i - 1 : tail[j] = tail[i] - 1

\* What can be read of a session is a beginning of its document, without gaps,
\* after any crash and any failed write of an append; and once a version was
\* persisted, all its events can be read. (Some may be read twice: a failed
\* write leaves the cursor before the frames it did append.) A rewrite that
\* fails in a process that goes on is excepted: the cursor still tells of the
\* frames that the rewrite deleted. And a session the index lists can be loaded:
\* its directory is complete before it is listed and outlives its entry, also
\* across crashes. (The reverse does not hold: a crash before DeleteTrimmed
\* leaves a directory nothing deletes.)
HistoryIsWhole ==
    /\ \A s \in DebugSessions \ spoiled :
          LET tail == Readable(segment[s])
          IN  NoGap(tail) /\ 1 .. whole[s] \subseteq {tail[i] : i \in DOMAIN tail}
    /\ \A i \in DOMAIN listed : listed[i] \in manifest
=============================================================================
