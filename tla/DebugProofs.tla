---------------------------- MODULE DebugProofs ----------------------------
(*************************************************************************)
(* Proofs about debug sessions and their history, for any plans, clients *)
(* and bounds: what is persisted of a session can be read, a step runs   *)
(* one node, and a session goes through the nodes of a simple plan in    *)
(* the order of a run.                                                   *)
(*                                                                       *)
(* The facts about lists are in WorkbenchProofs, and so are the proofs   *)
(* about the components that the last section joins with these two.      *)
(*************************************************************************)
EXTENDS MCWorkbench, WorkbenchProofs

---------------------------------------------------------------------------
(* DebugHistory: what is persisted can be read, whatever is cut short.   *)

EventIds == 1 .. MaxDebugEvents
Tails == Seq(EventIds \cup {TornFrame})
Frames(tail) == {tail[i] : i \in DOMAIN tail}

\* What can be read has no gaps and goes at least up to event n.
Good(tail, n) == NoGap(Readable(tail)) /\ 1 .. n \subseteq Frames(Readable(tail))

AtWorkOn(w, s) == writer[w].at \in {"recover", "append"} /\ writer[w].session = s
Rewriting(w, s) == AtWorkOn(w, s) /\ ~Extends(writer[w].size, cursors[s])

\* The threads: only the holder of the lock is beyond it.
InTurn ==
    \A w \in Writers :
        /\ writer[w].at \notin {"idle", "waiting"} => lock = w
        /\ writer[w].at \in {"reset", "recover", "append"} =>
              /\ whole[writer[w].session] = 0 /\ writer[w].pos <= writer[w].size
        /\ writer[w].at = "reset" =>
              writer[w].pos = 0 /\ ~Extends(writer[w].size, cursors[writer[w].session])
        /\ writer[w].at \in {"reset", "recover", "append", "index", "trim"} =>
              writer[w].session \in manifest
        /\ writer[w].at = "trim" =>
              \A i \in 1 .. Len(listed) : listed[i] \notin writer[w].gone

\* The files: what is readable goes up to what was persisted, to the cursor
\* and to where a thread appends.
Sound(s) ==
    /\ Good(segment[s], whole[s])
    /\ \A w \in Writers : AtWorkOn(w, s) =>
          /\ Good(segment[s], writer[w].pos)
          /\ writer[w].at = "append" /\ writer[w].pos < writer[w].size =>
                segment[s] \in Seq(EventIds)
    /\ cursors[s] # NoCursor =>
          Good(segment[s], cursors[s]) \/ \E w \in Writers : Rewriting(w, s)

Indexed ==
    /\ \A i \in 1 .. Len(listed) : listed[i] \in manifest
    /\ \A i, j \in 1 .. Len(listed) : listed[i] = listed[j] => i = j

Historic ==
    /\ HistoryTypeOK
    /\ InTurn
    /\ Indexed
    /\ \A s \in DebugSessions \ spoiled : Sound(s)

LEMMA IntactIsReadable ==
    ASSUME NEW t \in Seq(EventIds)
    PROVE  Readable(t) = t
<1>1. \A i \in DOMAIN t : t[i] # TornFrame
  BY HistoryAssumption DEF EventIds
<1> QED
  BY <1>1 DEF Readable

\* Before the first frame that is cut short all are intact.
LEMMA ReadableIsIntact ==
    ASSUME NEW t \in Tails
    PROVE  Readable(t) \in Seq(EventIds)
<1> DEFINE torn == {i \in DOMAIN t : t[i] = TornFrame}
<1>0. Len(t) \in Nat /\ DOMAIN t = 1 .. Len(t) /\ \A i \in 1 .. Len(t) : t[i] \in EventIds \cup {TornFrame}
  BY DEF Tails
<1>1. CASE torn = {}
  <2>1. Readable(t) = t
    BY <1>1 DEF Readable
  <2>2. \A i \in 1 .. Len(t) : t[i] \in EventIds
    BY <1>0, <1>1
  <2>3. t = [i \in 1 .. Len(t) |-> t[i]]
    BY DEF Tails
  <2> QED
    BY <1>0, <2>1, <2>2, <2>3
<1>2. CASE torn # {}
  <2>1. \E i \in torn : \A j \in torn : i <= j
    <3>1. torn \subseteq Nat
      BY <1>0
    <3> QED
      BY <1>2, <3>1, Least
  <2> DEFINE n == CHOOSE i \in torn : \A j \in torn : i <= j
  <2>2. n \in torn /\ \A j \in torn : n <= j
    BY <2>1
  <2>3. Readable(t) = SubSeq(t, 1, n - 1)
    BY <1>2 DEF Readable
  <2> HIDE DEF n
  <2>4. n \in 1 .. Len(t) /\ n - 1 \in Nat
    BY <1>0, <2>2
  <2>5. \A i \in 1 .. n - 1 : t[i] \in EventIds
    <3> SUFFICES ASSUME NEW i \in 1 .. n - 1 PROVE t[i] \in EventIds
      OBVIOUS
    <3>1. i \in 1 .. Len(t) /\ ~(n <= i)
      BY <1>0, <2>4
    <3>2. i \notin torn
      BY <2>2, <3>1
    <3> QED
      BY <1>0, <3>1, <3>2
  <2>6. SubSeq(t, 1, n - 1) = [i \in 1 .. n - 1 |-> t[i]]
    BY <1>0, <2>4 DEF Tails
  <2> QED
    BY <2>3, <2>4, <2>5, <2>6
<1> QED
  BY <1>1, <1>2

LEMMA TornIsUnread ==
    ASSUME NEW t \in Seq(EventIds)
    PROVE  Append(t, TornFrame) \in Tails /\ Readable(Append(t, TornFrame)) = t
<1> DEFINE n == Append(t, TornFrame)
           torn == {i \in DOMAIN n : n[i] = TornFrame}
           first == CHOOSE i \in torn : \A j \in torn : i <= j
<1>1. t \in Tails /\ TornFrame \in EventIds \cup {TornFrame} /\ Len(t) \in Nat
  <2>1. t = [i \in 1 .. Len(t) |-> t[i]] /\ \A i \in 1 .. Len(t) : t[i] \in EventIds \cup {TornFrame}
    OBVIOUS
  <2>2. Len(t) \in Nat
    OBVIOUS
  <2> QED
    BY <2>1, <2>2 DEF Tails
<1>2. n \in Tails /\ Len(n) = Len(t) + 1 /\ n[Len(t) + 1] = TornFrame
      /\ \A i \in 1 .. Len(t) : n[i] = t[i]
  BY <1>1 DEF Tails
<1> HIDE DEF n
<1>3. DOMAIN n = 1 .. Len(t) + 1
  BY <1>1, <1>2 DEF Tails
<1>4. \A i \in 1 .. Len(t) : t[i] # TornFrame
  BY HistoryAssumption DEF EventIds
<1>5. torn = {Len(t) + 1}
  BY <1>1, <1>2, <1>3, <1>4
<1>6. first = Len(t) + 1
  BY <1>1, <1>5
<1> HIDE DEF first
<1>7. Readable(n) = SubSeq(n, 1, first - 1)
  BY <1>5 DEF Readable, first
<1>8. SubSeq(n, 1, Len(t)) = t
  <2>1. SubSeq(n, 1, Len(t)) \in Seq(EventIds \cup {TornFrame}) /\ Len(SubSeq(n, 1, Len(t))) = Len(t)
        /\ \A i \in 1 .. Len(t) : SubSeq(n, 1, Len(t))[i] = n[i]
    BY <1>1, <1>2 DEF Tails
  <2> QED
    BY <1>1, <1>2, <2>1 DEF Tails
<1> QED
  BY <1>1, <1>2, <1>6, <1>7, <1>8 DEF n

LEMMA NextFrameIsGood ==
    ASSUME NEW t \in Seq(EventIds), NEW n \in Nat, n + 1 \in EventIds, Good(t, n)
    PROVE  /\ Append(t, n + 1) \in Seq(EventIds)
           /\ Good(Append(t, n + 1), n + 1)
           /\ \A m \in Nat : Good(t, m) => Good(Append(t, n + 1), m)
<1> DEFINE a == Append(t, n + 1)
<1>1. a \in Seq(EventIds) /\ Len(a) = Len(t) + 1 /\ a[Len(t) + 1] = n + 1 /\ Len(t) \in Nat
      /\ (\A i \in 1 .. Len(t) : a[i] = t[i]) /\ DOMAIN t = 1 .. Len(t)
      /\ DOMAIN a = 1 .. Len(t) + 1
  OBVIOUS
<1> HIDE DEF a
<1>2. Readable(t) = t /\ Readable(a) = a
  BY <1>1, IntactIsReadable
<1>3. NoGap(t) /\ 1 .. n \subseteq Frames(t)
  BY <1>2 DEF Good
<1>4. NoGap(a)
  <2> SUFFICES ASSUME NEW i \in DOMAIN a PROVE a[i] = 1 \/ \E j \in 1 .. i - 1 : a[j] = a[i] - 1
    BY DEF NoGap
  <2>1. CASE i \in 1 .. Len(t)
    <3>1. t[i] = 1 \/ \E j \in 1 .. i - 1 : t[j] = t[i] - 1
      BY <1>1, <1>3, <2>1 DEF NoGap
    <3>2. \A j \in 1 .. i - 1 : j \in 1 .. Len(t)
      BY <1>1, <2>1
    <3> QED
      BY <1>1, <2>1, <3>1, <3>2
  <2>2. CASE i = Len(t) + 1
    <3>1. CASE n = 0
      BY <1>1, <2>2, <3>1
    <3>2. CASE n # 0
      <4>1. n \in Frames(t)
        BY <1>3, <3>2
      <4>2. PICK j \in 1 .. Len(t) : t[j] = n
        BY <1>1, <4>1 DEF Frames
      <4>3. j \in 1 .. i - 1 /\ a[j] = a[i] - 1
        BY <1>1, <2>2, <4>2
      <4> QED
        BY <4>3
    <3> QED
      BY <3>1, <3>2
  <2> QED
    BY <1>1, <2>1, <2>2
<1>5. Frames(t) \subseteq Frames(a) /\ n + 1 \in Frames(a)
  <2>1. \A i \in 1 .. Len(t) : i \in DOMAIN a /\ t[i] = a[i]
    BY <1>1
  <2>2. Len(t) + 1 \in DOMAIN a
    BY <1>1
  <2> QED
    BY <1>1, <2>1, <2>2 DEF Frames
<1>6. 1 .. n + 1 \subseteq Frames(a)
  BY <1>3, <1>5
<1> QED
  BY <1>1, <1>2, <1>4, <1>5, <1>6 DEF Good, a

LEMMA RecoveredIsGood ==
    ASSUME NEW t \in Tails
    PROVE  /\ Readable(t) \in Seq(EventIds)
           /\ \A n : Good(t, n) => Good(Readable(t), n)
BY ReadableIsIntact, IntactIsReadable DEF Good

LEMMA EmptyIsGood == <<>> \in Seq(EventIds) /\ Good(<<>>, 0)
<1>1. <<>> \in Seq(EventIds) /\ DOMAIN <<>> = {}
  OBVIOUS
<1>2. Readable(<<>>) = <<>>
  BY <1>1, IntactIsReadable
<1> QED
  BY <1>1, <1>2 DEF Good, NoGap

\* The index after a session was put in front.
LEMMA NewestIndex ==
    ASSUME NEW list \in Seq(DebugSessions), NEW s \in DebugSessions,
           \A i, j \in 1 .. Len(list) : list[i] = list[j] => i = j
    PROVE  LET n == Newest(s, list)
           IN  /\ n \in Seq(DebugSessions)
               /\ \A i, j \in 1 .. Len(n) : n[i] = n[j] => i = j
               /\ \A i \in 1 .. Len(n) : n[i] = s \/ \E j \in 1 .. Len(list) : n[i] = list[j]
<1> DEFINE K == DebugSessions \ {s}
           r == Kept(list, K)
           n == <<s>> \o r
<1> HIDE DEF K
<1>1. /\ r \in Seq(DebugSessions) /\ Len(r) \in Nat
      /\ \A k \in 1 .. Len(r) : r[k] \in K /\ \E i \in 1 .. Len(list) : list[i] = r[k]
  BY KeptElements
<1>2. PICK g : Embeds(g, r, list, K, Len(list))
  BY KeptEmbeds
<1> HIDE DEF r
<1>3. ASSUME NEW i \in 1 .. Len(r), NEW j \in 1 .. Len(r), r[i] = r[j]
      PROVE  i = j
  <2>1. /\ g[i] \in 1 .. Len(list) /\ g[j] \in 1 .. Len(list)
        /\ r[i] = list[g[i]] /\ r[j] = list[g[j]]
        /\ i < j => g[i] < g[j]
        /\ j < i => g[j] < g[i]
    BY <1>2 DEF Embeds
  <2>2. g[i] = g[j]
    BY <1>3, <2>1
  <2>3. g[i] \in Int /\ g[j] \in Int
    BY <2>1
  <2> QED
    BY <1>1, <2>1, <2>2, <2>3
<1>4. /\ n \in Seq(DebugSessions) /\ Len(n) = Len(r) + 1 /\ n[1] = s
      /\ \A i \in 1 .. Len(r) : n[i + 1] = r[i]
  BY <1>1
<1> HIDE DEF n
<1>5. ASSUME NEW i \in 1 .. Len(n), i # 1
      PROVE  /\ i - 1 \in 1 .. Len(r) /\ n[i] = r[i - 1] /\ n[i] # s
             /\ \E j \in 1 .. Len(list) : n[i] = list[j]
  <2>1. i - 1 \in 1 .. Len(r)
    BY <1>1, <1>4, <1>5
  <2>2. n[(i - 1) + 1] = r[i - 1] /\ (i - 1) + 1 = i
    BY <1>4, <2>1
  <2>3. r[i - 1] # s
    BY <1>1, <2>1 DEF K
  <2> QED
    BY <1>1, <2>1, <2>2, <2>3
<1>6. ASSUME NEW i \in 1 .. Len(n), NEW j \in 1 .. Len(n), n[i] = n[j]
      PROVE  i = j
  <2>1. CASE i = 1 \/ j = 1
    BY <1>4, <1>5, <1>6, <2>1
  <2>2. CASE i # 1 /\ j # 1
    <3>1. i - 1 = j - 1
      BY <1>3, <1>5, <1>6, <2>2
    <3> QED
      BY <1>1, <1>4, <3>1
  <2> QED
    BY <2>1, <2>2
<1>7. \A i \in 1 .. Len(n) : n[i] = s \/ \E j \in 1 .. Len(list) : n[i] = list[j]
  BY <1>4, <1>5
<1> QED
  BY <1>4, <1>6, <1>7 DEF Newest, n, r, K

LEMMA RetainedIndex ==
    ASSUME NEW list \in Seq(DebugSessions),
           \A i, j \in 1 .. Len(list) : list[i] = list[j] => i = j
    PROVE  /\ Retained(list) \in Seq(DebugSessions)
           /\ \A i \in 1 .. Len(Retained(list)) : i \in 1 .. Len(list) /\ Retained(list)[i] = list[i]
           /\ \A i \in 1 .. Len(Retained(list)) : Retained(list)[i] \notin Trimmed(list)
           /\ Trimmed(list) \subseteq DebugSessions
<1> DEFINE n == IF Len(list) < Retention THEN Len(list) ELSE Retention
           r == SubSeq(list, 1, n)
<1>1. Len(list) \in Nat /\ n \in 0 .. Len(list) /\ n <= Retention /\ Retention \in Nat
  BY HistoryAssumption
<1> HIDE DEF n
<1>2. r \in Seq(DebugSessions) /\ Len(r) = n /\ \A i \in 1 .. n : r[i] = list[i] /\ i \in 1 .. Len(list)
  BY <1>1
<1>3. \A i \in 1 .. n : r[i] \notin Trimmed(list)
  <2> SUFFICES ASSUME NEW i \in 1 .. n, r[i] \in Trimmed(list) PROVE FALSE
    OBVIOUS
  <2>1. PICK j \in Retention + 1 .. Len(list) : list[j] = list[i]
    BY <1>2 DEF Trimmed
  <2>2. j \in 1 .. Len(list) /\ i \in 1 .. Len(list) /\ i # j
    BY <1>1
  <2> QED
    BY <2>1, <2>2
<1>4. Trimmed(list) \subseteq DebugSessions
  BY <1>1 DEF Trimmed
<1> QED
  BY <1>2, <1>3, <1>4 DEF Retained, n

-----------------------------------------------------------------------------
(* What changes for one thread and one session.                            *)

LEMMA WriterType ==
    ASSUME HistoryTypeOK, NEW w \in Writers
    PROVE  /\ writer[w].at \in HistoryPlaces /\ writer[w].session \in DebugSessions
           /\ writer[w].size \in 0 .. MaxDebugEvents /\ writer[w].pos \in 0 .. MaxDebugEvents
           /\ writer[w].gone \in SUBSET DebugSessions
           /\ segment[writer[w].session] \in Tails
  BY DEF HistoryTypeOK, Tails, EventIds

LEMMA HistoryStarts == HistoryInit => Historic
<1> SUFFICES ASSUME HistoryInit PROVE Historic
  OBVIOUS
<1>1. AnySession \in DebugSessions
  BY HistoryAssumption DEF AnySession
<1>2. /\ docs = [s \in DebugSessions |-> 0]
      /\ writer = [w \in Writers |-> IdleWriter(AnySession)]
      /\ lock = Nobody /\ segment = [s \in DebugSessions |-> <<>>] /\ listed = <<>>
      /\ manifest = {} /\ cursors = [s \in DebugSessions |-> NoCursor]
      /\ whole = [s \in DebugSessions |-> 0] /\ spoiled = {} /\ faults = 0
  BY DEF HistoryInit
<1>3. HistoryTypeOK
  <2>1. 0 \in 0 .. MaxDebugEvents /\ 0 \in 0 .. MaxFaults
    BY HistoryAssumption
  <2>2. writer \in [Writers -> [at : HistoryPlaces, session : DebugSessions,
                               size : 0 .. MaxDebugEvents, pos : 0 .. MaxDebugEvents,
                               gone : SUBSET DebugSessions]]
    BY <1>1, <1>2, <2>1 DEF IdleWriter, HistoryPlaces
  <2>3. segment \in [DebugSessions -> Seq(1 .. MaxDebugEvents \cup {TornFrame})]
    <3>1. <<>> \in Seq(1 .. MaxDebugEvents \cup {TornFrame})
      OBVIOUS
    <3> QED
      BY <1>2, <3>1
  <2>4. listed \in Seq(DebugSessions)
    BY <1>2
  <2> QED
    BY <1>2, <2>1, <2>2, <2>3, <2>4 DEF HistoryTypeOK
<1>4. \A w \in Writers : writer[w].at = "idle"
  BY <1>2 DEF IdleWriter
<1>5. InTurn
  BY <1>4 DEF InTurn
<1>6. Indexed
  BY <1>2 DEF Indexed
<1>7. \A s \in DebugSessions : Sound(s)
  BY <1>2, <1>4, EmptyIsGood DEF Sound, AtWorkOn
<1> QED
  BY <1>3, <1>5, <1>6, <1>7 DEF Historic

Threads == [at : HistoryPlaces, session : DebugSessions, size : 0 .. MaxDebugEvents,
            pos : 0 .. MaxDebugEvents, gone : SUBSET DebugSessions]

\* The holder of the lock is the only thread beyond it.
LEMMA OneHolder ==
    ASSUME InTurn, NEW w \in Writers, writer[w].at \notin {"idle", "waiting"},
           NEW v \in Writers, v # w
    PROVE  lock = w /\ writer[v].at \in {"idle", "waiting"}
BY DEF InTurn

\* A session that nobody works on, before or after.
LEMMA SoundStays ==
    ASSUME NEW x, Sound(x), segment'[x] = segment[x], cursors'[x] = cursors[x],
           whole'[x] = whole[x] \/ whole'[x] = 0,
           \A v \in Writers : ~AtWorkOn(v, x), \A v \in Writers : ~AtWorkOn(v, x)'
    PROVE  Sound(x)'
<1>1. Good(segment[x], 0)
  BY DEF Sound, Good
<1> QED
  BY <1>1 DEF Sound, Rewriting, AtWorkOn

\* One thread moves; the others are where they were.
LEMMA OneMoves ==
    ASSUME HistoryTypeOK, NEW w \in Writers, NEW r \in Threads, writer' = [writer EXCEPT ![w] = r]
    PROVE  /\ writer' \in [Writers -> Threads] /\ writer'[w] = r
           /\ \A v \in Writers \ {w} : writer'[v] = writer[v]
BY DEF HistoryTypeOK, Threads

LEMMA ChangeDocumentKeeps ==
    ASSUME Historic, NEW w \in Writers, NEW s \in DebugSessions, ChangeDocument(w, s)
    PROVE  Historic'
<1>1. PICK size \in 1 .. MaxDebugEvents :
        /\ docs' = [docs EXCEPT ![s] = size]
        /\ writer' = [writer EXCEPT ![w] =
              [at |-> "waiting", session |-> s, size |-> size, pos |-> 0, gone |-> {}]]
  BY DEF ChangeDocument
<1> DEFINE r == [at |-> "waiting", session |-> s, size |-> size, pos |-> 0, gone |-> {}]
<1>2. r \in Threads /\ r.at = "waiting"
  BY HistoryAssumption DEF Threads, HistoryPlaces
<1> HIDE DEF r
<1>3. /\ writer' \in [Writers -> Threads] /\ writer'[w] = r
      /\ \A v \in Writers \ {w} : writer'[v] = writer[v]
  <2>1. writer' = [writer EXCEPT ![w] = r]
    BY <1>1 DEF r
  <2> QED
    BY <1>2, <2>1, OneMoves DEF Historic
<1>4. writer[w].at = "idle" /\ UNCHANGED <<lock, segment, listed, manifest, cursors, whole, spoiled, faults>>
  BY DEF ChangeDocument, HistAt
<1>5. HistoryTypeOK'
  <2>1. docs' \in [DebugSessions -> 0 .. MaxDebugEvents]
    BY <1>1 DEF Historic, HistoryTypeOK
  <2> QED
    BY <1>3, <1>4, <2>1 DEF Historic, HistoryTypeOK, Threads
<1>6. InTurn'
  BY <1>2, <1>3, <1>4 DEF Historic, InTurn
<1>7. Indexed'
  BY <1>4 DEF Historic, Indexed
<1>8. ASSUME NEW x \in DebugSessions \ spoiled PROVE Sound(x)'
  <2>1. Sound(x)
    BY DEF Historic
  <2>2. \A v \in Writers : AtWorkOn(v, x)' <=> AtWorkOn(v, x)
    BY <1>2, <1>3, <1>4 DEF AtWorkOn
  <2>3. \A v \in Writers : AtWorkOn(v, x) => writer'[v] = writer[v]
    BY <1>3, <1>4 DEF AtWorkOn
  <2> QED
    BY <1>4, <2>1, <2>2, <2>3 DEF Sound, Rewriting
<1> QED
  BY <1>4, <1>5, <1>6, <1>7, <1>8 DEF Historic

LEMMA TakeLockKeeps == ASSUME Historic, NEW w \in Writers, TakeLock(w) PROVE Historic'
<1> DEFINE r == [writer[w] EXCEPT !.at = "manifest"]
<1>1. /\ writer[w].at = "waiting" /\ lock = Nobody /\ lock' = w
      /\ writer' = [writer EXCEPT ![w] = r]
      /\ UNCHANGED <<docs, segment, listed, manifest, cursors, whole, spoiled, faults>>
  BY DEF TakeLock, HistAt, Proceed
<1>2. r \in Threads /\ r.at = "manifest"
  BY DEF Historic, HistoryTypeOK, Threads, HistoryPlaces
<1> HIDE DEF r
<1>3. /\ writer' \in [Writers -> Threads] /\ writer'[w] = r
      /\ \A v \in Writers \ {w} : writer'[v] = writer[v]
  BY <1>1, <1>2, OneMoves DEF Historic
<1>4. HistoryTypeOK'
  BY <1>1, <1>3 DEF Historic, HistoryTypeOK, Threads
<1>5. \A v \in Writers : writer[v].at \in {"idle", "waiting"}
  BY <1>1, HistoryAssumption DEF Historic, InTurn
<1>6. InTurn'
  BY <1>1, <1>2, <1>3, <1>5 DEF InTurn
<1>7. Indexed'
  BY <1>1 DEF Historic, Indexed
<1>8. ASSUME NEW x \in DebugSessions \ spoiled PROVE Sound(x)'
  <2>1. Sound(x)
    BY DEF Historic
  <2>2. \A v \in Writers : ~AtWorkOn(v, x) /\ ~AtWorkOn(v, x)'
    BY <1>2, <1>3, <1>5 DEF AtWorkOn
  <2> QED
    BY <1>1, <2>1, <2>2, SoundStays
<1> QED
  BY <1>1, <1>4, <1>6, <1>7, <1>8 DEF Historic

LEMMA WriteMetadataKeeps == ASSUME Historic, NEW w \in Writers, WriteMetadata(w) PROVE Historic'
<1> DEFINE s == writer[w].session
           on == Extends(writer[w].size, cursors[s])
           at == IF on THEN "recover" ELSE "reset"
           pos == IF on THEN cursors[s] ELSE 0
           r == [writer[w] EXCEPT !.at = at, !.pos = pos]
<1>1. /\ writer[w].at = "manifest" /\ manifest' = manifest \cup {s}
      /\ whole' = [whole EXCEPT ![s] = 0]
      /\ writer' = [writer EXCEPT ![w] = r]
      /\ UNCHANGED <<docs, lock, segment, listed, cursors, spoiled, faults>>
  BY DEF WriteMetadata, HistAt
<1>2. /\ HistoryTypeOK /\ InTurn /\ Indexed /\ s \in DebugSessions /\ writer[w] \in Threads
      /\ writer[w].size \in 0 .. MaxDebugEvents
      /\ cursors[s] \in 0 .. MaxDebugEvents \cup {NoCursor} /\ MaxDebugEvents \in Nat
  BY HistoryAssumption DEF Historic, HistoryTypeOK, Threads
<1>3. on => cursors[s] \in 0 .. MaxDebugEvents /\ cursors[s] <= writer[w].size
            /\ cursors[s] # NoCursor
  BY <1>2 DEF Extends
<1>4. 0 \in 0 .. MaxDebugEvents
  BY HistoryAssumption
<1> HIDE DEF on
<1>5. /\ r \in Threads /\ r.session = s /\ r.size = writer[w].size
      /\ r.at = IF on THEN "recover" ELSE "reset"
      /\ r.pos = IF on THEN cursors[s] ELSE 0
      /\ r.pos <= r.size
  <2>1. at \in HistoryPlaces /\ pos \in 0 .. MaxDebugEvents /\ pos <= writer[w].size
    BY <1>2, <1>3, <1>4 DEF HistoryPlaces
  <2> HIDE DEF at, pos
  <2>2. r \in Threads /\ r.session = s /\ r.size = writer[w].size /\ r.at = at /\ r.pos = pos
    BY <1>2, <2>1 DEF Threads
  <2> QED
    BY <2>1, <2>2 DEF at, pos
<1> HIDE DEF r
<1>6. /\ writer' \in [Writers -> Threads] /\ writer'[w] = r
      /\ \A v \in Writers \ {w} : writer'[v] = writer[v]
  BY <1>1, <1>2, <1>5, OneMoves
<1>7. \A v \in Writers \ {w} : lock = w /\ writer[v].at \in {"idle", "waiting"}
  BY <1>1, <1>2, OneHolder
<1>8. lock = w
  BY <1>1, <1>2 DEF InTurn
<1>9. HistoryTypeOK'
  BY <1>1, <1>2, <1>4, <1>6 DEF HistoryTypeOK, Threads
<1>10. InTurn'
  <2>1. whole'[s] = 0 /\ s \in manifest'
    BY <1>1, <1>2 DEF HistoryTypeOK
  <2>2. r.at = "reset" => r.pos = 0 /\ ~Extends(r.size, cursors'[s])
    BY <1>1, <1>5 DEF on
  <2> QED
    BY <1>1, <1>5, <1>6, <1>7, <1>8, <2>1, <2>2 DEF InTurn
<1>11. Indexed'
  BY <1>1, <1>2 DEF Indexed
<1>12. ASSUME NEW x \in DebugSessions \ spoiled PROVE Sound(x)'
  <2>1. Sound(x) /\ \A v \in Writers : ~AtWorkOn(v, x)
    BY <1>1, <1>7 DEF Historic, AtWorkOn
  <2>2. CASE x # s \/ ~on
    <3>1. \A v \in Writers : ~AtWorkOn(v, x)'
      BY <1>5, <1>6, <1>7, <2>2 DEF AtWorkOn
    <3>2. whole'[x] = whole[x] \/ whole'[x] = 0
      BY <1>1, <1>2 DEF HistoryTypeOK
    <3> QED
      BY <1>1, <2>1, <3>1, <3>2, SoundStays
  <2>3. CASE x = s /\ on
    <3>1. Good(segment[x], cursors[x])
      BY <1>3, <2>1, <2>3 DEF Sound, Rewriting
    <3>2. whole'[x] = 0 /\ Good(segment[x], 0)
      BY <1>1, <1>2, <2>3, <3>1 DEF HistoryTypeOK, Good
    <3>3. \A v \in Writers : AtWorkOn(v, x)' => v = w
      BY <1>6, <1>7 DEF AtWorkOn
    <3>4. r.pos = cursors[x] /\ r.at = "recover"
      BY <1>5, <2>3
    <3> QED
      BY <1>1, <1>6, <3>1, <3>2, <3>3, <3>4 DEF Sound
  <2> QED
    BY <2>2, <2>3
<1> QED
  BY <1>1, <1>9, <1>10, <1>11, <1>12 DEF Historic

LEMMA ResetSegmentKeeps == ASSUME Historic, NEW w \in Writers, ResetSegment(w) PROVE Historic'
<1> DEFINE s == writer[w].session
           r == [writer[w] EXCEPT !.at = "recover"]
<1>1. /\ writer[w].at = "reset" /\ segment' = [segment EXCEPT ![s] = <<>>]
      /\ spoiled' = spoiled \ {s} /\ writer' = [writer EXCEPT ![w] = r]
      /\ UNCHANGED <<docs, lock, listed, manifest, cursors, whole, faults>>
  BY DEF ResetSegment, HistAt, Proceed
<1>2. /\ HistoryTypeOK /\ InTurn /\ Indexed /\ s \in DebugSessions /\ writer[w] \in Threads
      /\ whole[s] = 0 /\ writer[w].pos = 0 /\ ~Extends(writer[w].size, cursors[s])
  BY <1>1 DEF Historic, HistoryTypeOK, Threads, InTurn
<1>3. /\ r \in Threads /\ r.session = s /\ r.size = writer[w].size /\ r.at = "recover"
      /\ r.pos = writer[w].pos
  BY <1>2 DEF Threads, HistoryPlaces
<1> HIDE DEF r
<1>4. /\ writer' \in [Writers -> Threads] /\ writer'[w] = r
      /\ \A v \in Writers \ {w} : writer'[v] = writer[v]
  BY <1>1, <1>2, <1>3, OneMoves
<1>5. \A v \in Writers \ {w} : lock = w /\ writer[v].at \in {"idle", "waiting"}
  BY <1>1, <1>2, OneHolder
<1>6. HistoryTypeOK'
  <2>1. segment' \in [DebugSessions -> Seq(1 .. MaxDebugEvents \cup {TornFrame})]
    <3>1. <<>> \in Seq(1 .. MaxDebugEvents \cup {TornFrame})
      OBVIOUS
    <3> QED
      BY <1>1, <1>2, <3>1 DEF HistoryTypeOK
  <2> QED
    BY <1>1, <1>2, <1>4, <2>1 DEF HistoryTypeOK, Threads
<1>7. InTurn'
  BY <1>1, <1>2, <1>3, <1>4, <1>5 DEF InTurn
<1>8. Indexed'
  BY <1>1, <1>2 DEF Indexed
<1>9. ASSUME NEW x \in DebugSessions \ spoiled' PROVE Sound(x)'
  <2>1. CASE x # s
    <3>1. Sound(x) /\ segment'[x] = segment[x]
      BY <1>1, <1>2, <2>1 DEF Historic, HistoryTypeOK
    <3>2. \A v \in Writers : ~AtWorkOn(v, x) /\ ~AtWorkOn(v, x)'
      BY <1>1, <1>3, <1>4, <1>5, <2>1 DEF AtWorkOn
    <3> QED
      BY <1>1, <3>1, <3>2, SoundStays
  <2>2. CASE x = s
    <3>1. segment'[x] = <<>> /\ whole'[x] = 0
      BY <1>1, <1>2, <2>2 DEF HistoryTypeOK
    <3>2. \A v \in Writers : AtWorkOn(v, x)' => v = w
      BY <1>4, <1>5 DEF AtWorkOn
    <3>3. Rewriting(w, x)'
      BY <1>1, <1>2, <1>3, <1>4, <2>2 DEF Rewriting, AtWorkOn
    <3>4. writer'[w].pos = 0
      BY <1>2, <1>3, <1>4
    <3> QED
      BY <3>1, <3>2, <3>3, <3>4, EmptyIsGood DEF Sound
  <2> QED
    BY <2>1, <2>2
<1> QED
  BY <1>1, <1>6, <1>7, <1>8, <1>9 DEF Historic

LEMMA RecoverTailKeeps == ASSUME Historic, NEW w \in Writers, RecoverTail(w) PROVE Historic'
<1> DEFINE s == writer[w].session
           r == [writer[w] EXCEPT !.at = "append"]
<1>1. /\ writer[w].at = "recover" /\ writer' = [writer EXCEPT ![w] = r]
      /\ segment' = IF writer[w].pos < writer[w].size
                    THEN [segment EXCEPT ![s] = Readable(segment[s])]
                    ELSE segment
      /\ UNCHANGED <<docs, lock, listed, manifest, cursors, whole, spoiled, faults>>
  BY DEF RecoverTail, HistAt, Proceed, Recovered
<1>2. /\ HistoryTypeOK /\ InTurn /\ Indexed /\ s \in DebugSessions /\ writer[w] \in Threads
      /\ segment[s] \in Tails
  BY <1>1, WriterType DEF Historic, HistoryTypeOK, Threads
<1>3. /\ r \in Threads /\ r.session = s /\ r.size = writer[w].size /\ r.at = "append"
      /\ r.pos = writer[w].pos
  BY <1>2 DEF Threads, HistoryPlaces
<1> HIDE DEF r
<1>4. /\ writer' \in [Writers -> Threads] /\ writer'[w] = r
      /\ \A v \in Writers \ {w} : writer'[v] = writer[v]
  BY <1>1, <1>2, <1>3, OneMoves
<1>5. \A v \in Writers \ {w} : lock = w /\ writer[v].at \in {"idle", "waiting"}
  BY <1>1, <1>2, OneHolder
<1>6. /\ Readable(segment[s]) \in Seq(EventIds) /\ Readable(segment[s]) \in Tails
      /\ \A n : Good(segment[s], n) => Good(Readable(segment[s]), n)
  <2>1. \A u \in Seq(EventIds) : u \in Tails
    <3> SUFFICES ASSUME NEW u \in Seq(EventIds) PROVE u \in Tails
      OBVIOUS
    <3>1. u = [i \in 1 .. Len(u) |-> u[i]] /\ Len(u) \in Nat
          /\ \A i \in 1 .. Len(u) : u[i] \in EventIds \cup {TornFrame}
      OBVIOUS
    <3> QED
      BY <3>1 DEF Tails
  <2> QED
    BY <1>2, <2>1, RecoveredIsGood
<1>7. /\ segment' \in [DebugSessions -> Tails]
      /\ \A x \in DebugSessions \ {s} : segment'[x] = segment[x]
      /\ \A n : Good(segment[s], n) => Good(segment'[s], n)
      /\ writer[w].pos < writer[w].size => segment'[s] \in Seq(EventIds)
  <2>1. segment \in [DebugSessions -> Tails]
    BY <1>2 DEF HistoryTypeOK, Tails, EventIds
  <2>2. CASE writer[w].pos < writer[w].size
    <3>1. segment' = [segment EXCEPT ![s] = Readable(segment[s])]
      BY <1>1, <2>2
    <3> QED
      BY <1>2, <1>6, <2>1, <3>1
  <2>3. CASE ~(writer[w].pos < writer[w].size)
    <3>1. segment' = segment
      BY <1>1, <2>3
    <3> QED
      BY <2>1, <2>3, <3>1
  <2> QED
    BY <2>2, <2>3
<1>8. HistoryTypeOK'
  BY <1>1, <1>2, <1>4, <1>7 DEF HistoryTypeOK, Threads, Tails, EventIds
<1>9. InTurn'
  BY <1>1, <1>2, <1>3, <1>4, <1>5 DEF InTurn
<1>10. Indexed'
  BY <1>1, <1>2 DEF Indexed
<1>11. ASSUME NEW x \in DebugSessions \ spoiled PROVE Sound(x)'
  <2>1. Sound(x)
    BY DEF Historic
  <2>2. CASE x # s
    <3>1. \A v \in Writers : ~AtWorkOn(v, x) /\ ~AtWorkOn(v, x)'
      BY <1>1, <1>3, <1>4, <1>5, <2>2 DEF AtWorkOn
    <3> QED
      BY <1>1, <1>7, <2>1, <2>2, <3>1, SoundStays
  <2>3. CASE x = s
    <3>1. AtWorkOn(w, s) /\ AtWorkOn(w, s)'
      BY <1>1, <1>3, <1>4 DEF AtWorkOn
    <3>2. \A v \in Writers : AtWorkOn(v, x) \/ AtWorkOn(v, x)' => v = w
      BY <1>4, <1>5 DEF AtWorkOn
    <3>3. Rewriting(w, s)' <=> Rewriting(w, s)
      BY <1>1, <1>3, <1>4, <3>1 DEF Rewriting
    <3>4. Good(segment[s], whole[s]) /\ Good(segment[s], writer[w].pos)
      BY <2>1, <2>3, <3>1 DEF Sound
    <3>5. cursors[s] # NoCursor => Good(segment[s], cursors[s]) \/ Rewriting(w, s)
      BY <2>1, <2>3, <3>2 DEF Sound, Rewriting
    <3> QED
      BY <1>1, <1>3, <1>4, <1>7, <2>3, <3>2, <3>3, <3>4, <3>5 DEF Sound
  <2> QED
    BY <2>2, <2>3
<1> QED
  BY <1>1, <1>8, <1>9, <1>10, <1>11 DEF Historic

\* A frame that is written behind intact ones.
LEMMA AppendFrameKeeps == ASSUME Historic, NEW w \in Writers, AppendFrame(w) PROVE Historic'
<1> DEFINE s == writer[w].session
           n == writer[w].pos
           r == [writer[w] EXCEPT !.pos = n + 1]
           a == Append(segment[s], n + 1)
<1>1. /\ writer[w].at = "append" /\ n < writer[w].size
      /\ writer' = [writer EXCEPT ![w] = r]
      /\ segment' = [segment EXCEPT ![s] = a]
      /\ UNCHANGED <<docs, lock, listed, manifest, cursors, whole, spoiled, faults>>
  BY DEF AppendFrame, HistAt
<1>2. /\ HistoryTypeOK /\ InTurn /\ Indexed /\ s \in DebugSessions /\ writer[w] \in Threads
      /\ segment[s] \in Tails /\ writer[w].size \in 0 .. MaxDebugEvents /\ n \in 0 .. MaxDebugEvents
  BY <1>1, WriterType DEF Historic, HistoryTypeOK, Threads
<1>3. n \in Nat /\ n + 1 \in EventIds /\ n + 1 \in 0 .. MaxDebugEvents /\ n + 1 <= writer[w].size
  BY <1>1, <1>2, HistoryAssumption DEF EventIds
<1>4. /\ r \in Threads /\ r.session = s /\ r.size = writer[w].size /\ r.at = "append"
      /\ r.pos = n + 1
  BY <1>1, <1>2, <1>3 DEF Threads, HistoryPlaces
<1> HIDE DEF r
<1>5. /\ writer' \in [Writers -> Threads] /\ writer'[w] = r
      /\ \A v \in Writers \ {w} : writer'[v] = writer[v]
  BY <1>1, <1>2, <1>4, OneMoves
<1>6. \A v \in Writers \ {w} : lock = w /\ writer[v].at \in {"idle", "waiting"}
  BY <1>1, <1>2, OneHolder
<1>7. a \in Tails
  BY <1>2, <1>3 DEF Tails
<1> HIDE DEF a
<1>8. /\ segment' \in [DebugSessions -> Tails] /\ segment'[s] = a
      /\ \A x \in DebugSessions \ {s} : segment'[x] = segment[x]
  BY <1>1, <1>2, <1>7 DEF HistoryTypeOK, Tails, EventIds
<1>9. HistoryTypeOK'
  BY <1>1, <1>2, <1>5, <1>8 DEF HistoryTypeOK, Threads, Tails, EventIds
<1>10. InTurn'
  BY <1>1, <1>2, <1>3, <1>4, <1>5, <1>6 DEF InTurn
<1>11. Indexed'
  BY <1>1, <1>2 DEF Indexed
<1>12. ASSUME NEW x \in DebugSessions \ spoiled PROVE Sound(x)'
  <2>1. Sound(x)
    BY DEF Historic
  <2>2. CASE x # s
    <3>1. \A v \in Writers : ~AtWorkOn(v, x) /\ ~AtWorkOn(v, x)'
      BY <1>1, <1>4, <1>5, <1>6, <2>2 DEF AtWorkOn
    <3> QED
      BY <1>1, <1>8, <2>1, <2>2, <3>1, SoundStays
  <2>3. CASE x = s
    <3>1. AtWorkOn(w, s) /\ AtWorkOn(w, s)'
      BY <1>1, <1>4, <1>5 DEF AtWorkOn
    <3>2. \A v \in Writers : AtWorkOn(v, x) \/ AtWorkOn(v, x)' => v = w
      BY <1>5, <1>6 DEF AtWorkOn
    <3>3. Rewriting(w, s)' <=> Rewriting(w, s)
      BY <1>1, <1>4, <1>5, <3>1 DEF Rewriting
    <3>4. Good(segment[s], whole[s]) /\ Good(segment[s], n) /\ segment[s] \in Seq(EventIds)
      BY <1>1, <2>1, <2>3, <3>1 DEF Sound
    <3>5. cursors[s] # NoCursor => Good(segment[s], cursors[s]) \/ Rewriting(w, s)
      BY <2>1, <2>3, <3>2 DEF Sound, Rewriting
    <3>6. /\ a \in Seq(EventIds) /\ Good(a, n + 1)
          /\ \A m \in Nat : Good(segment[s], m) => Good(a, m)
      BY <1>3, <3>4, NextFrameIsGood DEF a
    <3>7. whole[s] \in Nat /\ (cursors[s] # NoCursor => cursors[s] \in Nat)
      BY <1>2 DEF HistoryTypeOK
    <3> QED
      BY <1>1, <1>4, <1>5, <1>8, <2>3, <3>2, <3>3, <3>4, <3>5, <3>6, <3>7 DEF Sound
  <2> QED
    BY <2>2, <2>3
<1> QED
  BY <1>1, <1>9, <1>10, <1>11, <1>12 DEF Historic

LEMMA SetCursorKeeps == ASSUME Historic, NEW w \in Writers, SetCursor(w) PROVE Historic'
<1> DEFINE s == writer[w].session
           r == [writer[w] EXCEPT !.at = "index"]
<1>1. /\ writer[w].at = "append" /\ writer[w].pos = writer[w].size
      /\ cursors' = [cursors EXCEPT ![s] = writer[w].size]
      /\ whole' = [whole EXCEPT ![s] = writer[w].size]
      /\ writer' = [writer EXCEPT ![w] = r]
      /\ UNCHANGED <<docs, lock, segment, listed, manifest, spoiled, faults>>
  BY DEF SetCursor, HistAt, Proceed
<1>2. /\ HistoryTypeOK /\ InTurn /\ Indexed /\ s \in DebugSessions /\ writer[w] \in Threads
      /\ writer[w].size \in 0 .. MaxDebugEvents
  BY <1>1, WriterType DEF Historic, HistoryTypeOK, Threads
<1>3. r \in Threads /\ r.session = s /\ r.at = "index"
  BY <1>2 DEF Threads, HistoryPlaces
<1> HIDE DEF r
<1>4. /\ writer' \in [Writers -> Threads] /\ writer'[w] = r
      /\ \A v \in Writers \ {w} : writer'[v] = writer[v]
  BY <1>1, <1>2, <1>3, OneMoves
<1>5. \A v \in Writers \ {w} : lock = w /\ writer[v].at \in {"idle", "waiting"}
  BY <1>1, <1>2, OneHolder
<1>6. HistoryTypeOK'
  BY <1>1, <1>2, <1>4 DEF HistoryTypeOK, Threads
<1>7. InTurn'
  BY <1>1, <1>2, <1>3, <1>4, <1>5 DEF InTurn
<1>8. Indexed'
  BY <1>1, <1>2 DEF Indexed
<1>9. ASSUME NEW x \in DebugSessions \ spoiled PROVE Sound(x)'
  <2>1. Sound(x) /\ \A v \in Writers : ~AtWorkOn(v, x)'
    BY <1>3, <1>4, <1>5 DEF Historic, AtWorkOn
  <2>2. CASE x # s
    <3>1. \A v \in Writers : ~AtWorkOn(v, x)
      BY <1>5, <2>2 DEF AtWorkOn
    <3>2. cursors'[x] = cursors[x] /\ whole'[x] = whole[x]
      BY <1>1, <1>2, <2>2 DEF HistoryTypeOK
    <3> QED
      BY <1>1, <2>1, <3>1, <3>2, SoundStays
  <2>3. CASE x = s
    <3>1. Good(segment[s], writer[w].size)
      BY <1>1, <2>1, <2>3 DEF Sound, AtWorkOn
    <3>2. cursors'[s] = writer[w].size /\ whole'[s] = writer[w].size
      BY <1>1, <1>2 DEF HistoryTypeOK
    <3> QED
      BY <1>1, <2>1, <2>3, <3>1, <3>2 DEF Sound
  <2> QED
    BY <2>2, <2>3
<1> QED
  BY <1>1, <1>6, <1>7, <1>8, <1>9 DEF Historic

LEMMA UpsertSummaryKeeps == ASSUME Historic, NEW w \in Writers, UpsertSummary(w) PROVE Historic'
<1> DEFINE s == writer[w].session
           list == Newest(s, listed)
           gone == Trimmed(list)
           r == [writer[w] EXCEPT !.at = "trim", !.gone = gone]
<1>1. /\ writer[w].at = "index" /\ listed' = Retained(list)
      /\ writer' = [writer EXCEPT ![w] = r]
      /\ UNCHANGED <<docs, lock, segment, manifest, cursors, whole, spoiled, faults>>
  BY DEF UpsertSummary, HistAt
<1>2. /\ HistoryTypeOK /\ InTurn /\ Indexed /\ s \in DebugSessions /\ writer[w] \in Threads
      /\ s \in manifest /\ listed \in Seq(DebugSessions)
      /\ \A i, j \in 1 .. Len(listed) : listed[i] = listed[j] => i = j
      /\ \A i \in 1 .. Len(listed) : listed[i] \in manifest
  BY <1>1 DEF Historic, HistoryTypeOK, Threads, InTurn, Indexed
<1>3. /\ list \in Seq(DebugSessions)
      /\ \A i, j \in 1 .. Len(list) : list[i] = list[j] => i = j
      /\ \A i \in 1 .. Len(list) : list[i] = s \/ \E j \in 1 .. Len(listed) : list[i] = listed[j]
  BY <1>2, NewestIndex
<1> HIDE DEF list
<1>4. /\ listed' \in Seq(DebugSessions)
      /\ \A i \in 1 .. Len(listed') : i \in 1 .. Len(list) /\ listed'[i] = list[i]
      /\ \A i \in 1 .. Len(listed') : listed'[i] \notin gone
      /\ gone \subseteq DebugSessions
  BY <1>1, <1>3, RetainedIndex
<1> HIDE DEF gone
<1>5. r \in Threads /\ r.session = s /\ r.at = "trim" /\ r.gone = gone
  BY <1>2, <1>4 DEF Threads, HistoryPlaces
<1> HIDE DEF r
<1>6. /\ writer' \in [Writers -> Threads] /\ writer'[w] = r
      /\ \A v \in Writers \ {w} : writer'[v] = writer[v]
  BY <1>1, <1>2, <1>5, OneMoves
<1>7. \A v \in Writers \ {w} : lock = w /\ writer[v].at \in {"idle", "waiting"}
  BY <1>1, <1>2, OneHolder
<1>8. HistoryTypeOK'
  BY <1>1, <1>2, <1>4, <1>6 DEF HistoryTypeOK, Threads
<1>9. InTurn'
  <2>1. lock = w
    BY <1>1, <1>2 DEF InTurn
  <2> QED
    BY <1>1, <1>2, <1>4, <1>5, <1>6, <1>7, <2>1 DEF InTurn
<1>10. Indexed'
  <2>1. \A i \in 1 .. Len(list) : list[i] \in manifest
    BY <1>2, <1>3
  <2> QED
    BY <1>1, <1>3, <1>4, <2>1 DEF Indexed
<1>11. ASSUME NEW x \in DebugSessions \ spoiled PROVE Sound(x)'
  <2>1. Sound(x) /\ \A v \in Writers : ~AtWorkOn(v, x) /\ ~AtWorkOn(v, x)'
    BY <1>1, <1>5, <1>6, <1>7 DEF Historic, AtWorkOn
  <2> QED
    BY <1>1, <2>1, SoundStays
<1> QED
  BY <1>1, <1>8, <1>9, <1>10, <1>11 DEF Historic

LEMMA IdleThread == IdleWriter(AnySession) \in Threads /\ IdleWriter(AnySession).at = "idle"
<1>1. AnySession \in DebugSessions
  BY HistoryAssumption DEF AnySession
<1>2. 0 \in 0 .. MaxDebugEvents
  BY HistoryAssumption
<1> QED
  BY <1>1, <1>2 DEF IdleWriter, Threads, HistoryPlaces

LEMMA DeleteTrimmedKeeps == ASSUME Historic, NEW w \in Writers, DeleteTrimmed(w) PROVE Historic'
<1> DEFINE gone == writer[w].gone
           r == IdleWriter(AnySession)
<1>1. /\ writer[w].at = "trim"
      /\ segment' = [s \in DebugSessions |-> IF s \in gone THEN <<>> ELSE segment[s]]
      /\ manifest' = manifest \ gone
      /\ cursors' = [s \in DebugSessions |-> IF s \in gone THEN NoCursor ELSE cursors[s]]
      /\ whole' = [s \in DebugSessions |-> IF s \in gone THEN 0 ELSE whole[s]]
      /\ lock' = Nobody /\ writer' = [writer EXCEPT ![w] = r]
      /\ UNCHANGED <<docs, listed, spoiled, faults>>
  BY DEF DeleteTrimmed, HistAt
<1>2. /\ HistoryTypeOK /\ InTurn /\ Indexed
      /\ \A i \in 1 .. Len(listed) : listed[i] \notin gone
  BY <1>1 DEF Historic, InTurn
<1>3. r \in Threads /\ r.at = "idle"
  BY IdleThread
<1> HIDE DEF r, gone
<1>4. /\ writer' \in [Writers -> Threads] /\ writer'[w] = r
      /\ \A v \in Writers \ {w} : writer'[v] = writer[v]
  BY <1>1, <1>2, <1>3, OneMoves
<1>5. \A v \in Writers \ {w} : lock = w /\ writer[v].at \in {"idle", "waiting"}
  BY <1>1, <1>2, OneHolder
<1>6. HistoryTypeOK'
  <2>1. <<>> \in Seq(1 .. MaxDebugEvents \cup {TornFrame})
    OBVIOUS
  <2>2. segment' \in [DebugSessions -> Seq(1 .. MaxDebugEvents \cup {TornFrame})]
    BY <1>1, <1>2, <2>1 DEF HistoryTypeOK
  <2>3. cursors' \in [DebugSessions -> 0 .. MaxDebugEvents \cup {NoCursor}]
    BY <1>1, <1>2 DEF HistoryTypeOK
  <2>4. whole' \in [DebugSessions -> 0 .. MaxDebugEvents]
    <3>1. 0 \in 0 .. MaxDebugEvents
      BY HistoryAssumption
    <3> QED
      BY <1>1, <1>2, <3>1 DEF HistoryTypeOK
  <2> QED
    BY <1>1, <1>2, <1>4, <2>2, <2>3, <2>4 DEF HistoryTypeOK, Threads
<1>7. InTurn'
  BY <1>3, <1>4, <1>5 DEF InTurn
<1>8. Indexed'
  BY <1>1, <1>2 DEF Indexed
<1>9. ASSUME NEW x \in DebugSessions \ spoiled PROVE Sound(x)'
  <2>1. Sound(x) /\ \A v \in Writers : ~AtWorkOn(v, x) /\ ~AtWorkOn(v, x)'
    BY <1>1, <1>3, <1>4, <1>5 DEF Historic, AtWorkOn
  <2>2. CASE x \in gone
    <3>1. segment'[x] = <<>> /\ whole'[x] = 0 /\ cursors'[x] = NoCursor
      BY <1>1, <2>2
    <3> QED
      BY <2>1, <3>1, EmptyIsGood DEF Sound
  <2>3. CASE x \notin gone
    <3>1. segment'[x] = segment[x] /\ whole'[x] = whole[x] /\ cursors'[x] = cursors[x]
      BY <1>1, <2>3
    <3> QED
      BY <2>1, <3>1, SoundStays
  <2> QED
    BY <2>2, <2>3
<1> QED
  BY <1>1, <1>6, <1>7, <1>8, <1>9 DEF Historic

\* Whatever a write leaves that does not return, the frames before it stand.
LEMMA CutKeeps ==
    ASSUME Historic, NEW w \in Writers, MidFrame(w), NEW tail \in Cut(w)
    PROVE  /\ tail \in Tails
           /\ writer[w].session \in DebugSessions \ spoiled =>
                 \A m \in Nat : Good(segment[writer[w].session], m) => Good(tail, m)
<1> DEFINE s == writer[w].session
           n == writer[w].pos
<1>1. /\ writer[w].at = "append" /\ n < writer[w].size
      /\ tail \in {segment[s], Append(segment[s], TornFrame), Append(segment[s], n + 1)}
  BY DEF MidFrame, HistAt, Cut
<1>2. /\ HistoryTypeOK /\ s \in DebugSessions /\ writer[w].size \in 0 .. MaxDebugEvents
      /\ n \in 0 .. MaxDebugEvents /\ segment[s] \in Tails
  BY WriterType DEF Historic
<1>3. n \in Nat /\ n + 1 \in EventIds
  BY <1>1, <1>2, HistoryAssumption DEF EventIds
<1>4. /\ Append(segment[s], TornFrame) \in Tails
      /\ Append(segment[s], n + 1) \in Tails
  BY <1>2, <1>3 DEF Tails
<1>5. ASSUME s \in DebugSessions \ spoiled, NEW m \in Nat, Good(segment[s], m)
      PROVE  Good(tail, m)
  <2>1. Good(segment[s], n) /\ segment[s] \in Seq(EventIds)
    <3>1. Sound(s) /\ AtWorkOn(w, s)
      BY <1>1, <1>5 DEF Historic, AtWorkOn
    <3> QED
      BY <1>1, <3>1 DEF Sound
  <2>2. Good(Append(segment[s], n + 1), m)
    BY <1>3, <1>5, <2>1, NextFrameIsGood
  <2>3. Good(Append(segment[s], TornFrame), m)
    BY <1>5, <2>1, TornIsUnread, IntactIsReadable DEF Good
  <2> QED
    BY <1>1, <1>5, <2>2, <2>3
<1> QED
  BY <1>1, <1>2, <1>4, <1>5

LEMMA WriteFailsKeeps == ASSUME Historic, NEW w \in Writers, WriteFails(w) PROVE Historic'
<1> DEFINE s == writer[w].session
           r == IdleWriter(AnySession)
<1>1. /\ MidFrame(w) /\ writer[w].at = "append" /\ faults < MaxFaults /\ faults' = faults + 1
      /\ lock' = Nobody /\ writer' = [writer EXCEPT ![w] = r]
      /\ spoiled' = IF cursors[s] = NoCursor \/ Extends(writer[w].size, cursors[s])
                    THEN spoiled ELSE spoiled \cup {s}
      /\ UNCHANGED <<docs, listed, manifest, cursors, whole>>
  BY DEF WriteFails, MidFrame, HistAt
<1>2. PICK tail \in Cut(w) : segment' = [segment EXCEPT ![s] = tail]
  BY DEF WriteFails
<1>3. HistoryTypeOK /\ InTurn /\ Indexed /\ s \in DebugSessions
  BY WriterType DEF Historic
<1>4. /\ tail \in Tails
      /\ s \in DebugSessions \ spoiled => \A m \in Nat : Good(segment[s], m) => Good(tail, m)
  BY <1>1, CutKeeps
<1>5. r \in Threads /\ r.at = "idle"
  BY IdleThread
<1> HIDE DEF r
<1>6. /\ writer' \in [Writers -> Threads] /\ writer'[w] = r
      /\ \A v \in Writers \ {w} : writer'[v] = writer[v]
  BY <1>1, <1>3, <1>5, OneMoves
<1>7. \A v \in Writers \ {w} : lock = w /\ writer[v].at \in {"idle", "waiting"}
  BY <1>1, <1>3, OneHolder
<1>8. /\ segment' \in [DebugSessions -> Tails] /\ segment'[s] = tail
      /\ \A x \in DebugSessions \ {s} : segment'[x] = segment[x]
  BY <1>2, <1>3, <1>4 DEF HistoryTypeOK, Tails, EventIds
<1>9. HistoryTypeOK'
  <2>1. faults' \in 0 .. MaxFaults
    BY <1>1, <1>3, HistoryAssumption DEF HistoryTypeOK
  <2>2. spoiled' \in SUBSET DebugSessions
    BY <1>1, <1>3 DEF HistoryTypeOK
  <2> QED
    BY <1>1, <1>3, <1>6, <1>8, <2>1, <2>2 DEF HistoryTypeOK, Threads, Tails, EventIds
<1>10. InTurn'
  BY <1>5, <1>6, <1>7 DEF InTurn
<1>11. Indexed'
  BY <1>1, <1>3 DEF Indexed
<1>12. ASSUME NEW x \in DebugSessions \ spoiled' PROVE Sound(x)'
  <2>1. x \in DebugSessions \ spoiled /\ Sound(x)
    BY <1>1 DEF Historic
  <2>2. \A v \in Writers : ~AtWorkOn(v, x)'
    BY <1>5, <1>6, <1>7 DEF AtWorkOn
  <2>3. CASE x # s
    <3>1. \A v \in Writers : ~AtWorkOn(v, x)
      BY <1>7, <2>3 DEF AtWorkOn
    <3> QED
      BY <1>1, <1>8, <2>1, <2>2, <2>3, <3>1, SoundStays
  <2>4. CASE x = s
    <3>1. cursors[s] = NoCursor \/ Extends(writer[w].size, cursors[s])
      BY <1>1, <2>4
    <3>2. \A v \in Writers : Rewriting(v, s) => v = w
      BY <1>7 DEF Rewriting, AtWorkOn
    <3>3. cursors[s] # NoCursor => Good(segment[s], cursors[s])
      BY <2>1, <2>4, <3>1, <3>2 DEF Sound, Rewriting
    <3>4. whole[s] \in Nat /\ (cursors[s] # NoCursor => cursors[s] \in Nat)
      BY <1>3 DEF HistoryTypeOK
    <3>5. Good(tail, whole[s]) /\ (cursors[s] # NoCursor => Good(tail, cursors[s]))
      BY <1>4, <2>1, <2>4, <3>3, <3>4 DEF Sound
    <3> QED
      BY <1>1, <1>8, <2>2, <2>4, <3>5 DEF Sound
  <2> QED
    BY <2>3, <2>4
<1> QED
  BY <1>9, <1>10, <1>11, <1>12 DEF Historic

\* The files as the process left them: one write may be cut short.
LEMMA CrashKeeps == ASSUME Historic, HistoryCrash PROVE Historic'
<1>1. /\ faults < MaxFaults /\ faults' = faults + 1 /\ lock' = Nobody
      /\ cursors' = [s \in DebugSessions |-> NoCursor]
      /\ writer' = [w \in Writers |-> IdleWriter(AnySession)]
      /\ UNCHANGED <<docs, listed, manifest, whole, spoiled>>
  BY DEF HistoryCrash
<1>2. HistoryTypeOK /\ InTurn /\ Indexed
  BY DEF Historic
<1>3. /\ segment' \in [DebugSessions -> Tails]
      /\ \A x \in DebugSessions \ spoiled : Good(segment'[x], whole[x])
  <2>1. /\ segment \in [DebugSessions -> Tails]
        /\ \A x \in DebugSessions \ spoiled : Good(segment[x], whole[x]) /\ whole[x] \in Nat
    BY <1>2 DEF Historic, Sound, HistoryTypeOK, Tails, EventIds
  <2>2. CASE segment' = segment
    BY <2>1, <2>2
  <2>3. CASE segment' # segment
    <3> PICK w \in Writers : MidFrame(w)
          /\ \E tail \in Cut(w) : segment' = [segment EXCEPT ![writer[w].session] = tail]
      BY <2>3 DEF HistoryCrash
    <3> PICK tail \in Cut(w) : segment' = [segment EXCEPT ![writer[w].session] = tail]
      OBVIOUS
    <3>1. MidFrame(w) /\ segment' = [segment EXCEPT ![writer[w].session] = tail]
      OBVIOUS
    <3>2. writer[w].session \in DebugSessions
      BY <1>2, WriterType
    <3>3. /\ tail \in Tails
          /\ writer[w].session \in DebugSessions \ spoiled =>
               \A m \in Nat : Good(segment[writer[w].session], m) => Good(tail, m)
      BY <3>1, CutKeeps
    <3> QED
      BY <2>1, <3>1, <3>2, <3>3
  <2> QED
    BY <2>2, <2>3
<1>4. writer' \in [Writers -> Threads] /\ \A v \in Writers : writer'[v].at = "idle"
  BY <1>1, IdleThread
<1>5. HistoryTypeOK'
  <2>1. faults' \in 0 .. MaxFaults
    BY <1>1, <1>2, HistoryAssumption DEF HistoryTypeOK
  <2> QED
    BY <1>1, <1>2, <1>3, <1>4, <2>1 DEF HistoryTypeOK, Threads, Tails, EventIds
<1>6. InTurn'
  BY <1>4 DEF InTurn
<1>7. Indexed'
  BY <1>1, <1>2 DEF Indexed
<1>8. \A x \in DebugSessions \ spoiled' : Sound(x)'
  BY <1>1, <1>3, <1>4 DEF Sound, AtWorkOn
<1> QED
  BY <1>5, <1>6, <1>7, <1>8 DEF Historic

LEMMA HistoryStays == ASSUME Historic, [HistoryNext]_histVars PROVE Historic'
<1>1. CASE HistoryCrash
  BY <1>1, CrashKeeps
<1>2. ASSUME NEW w \in Writers, NEW s \in DebugSessions, ChangeDocument(w, s) PROVE Historic'
  BY <1>2, ChangeDocumentKeeps
<1>3. ASSUME NEW w \in Writers, TakeLock(w) PROVE Historic'
  BY <1>3, TakeLockKeeps
<1>4. ASSUME NEW w \in Writers, WriteMetadata(w) PROVE Historic'
  BY <1>4, WriteMetadataKeeps
<1>5. ASSUME NEW w \in Writers, ResetSegment(w) PROVE Historic'
  BY <1>5, ResetSegmentKeeps
<1>6. ASSUME NEW w \in Writers, RecoverTail(w) PROVE Historic'
  BY <1>6, RecoverTailKeeps
<1>7. ASSUME NEW w \in Writers, AppendFrame(w) PROVE Historic'
  BY <1>7, AppendFrameKeeps
<1>8. ASSUME NEW w \in Writers, SetCursor(w) PROVE Historic'
  BY <1>8, SetCursorKeeps
<1>9. ASSUME NEW w \in Writers, UpsertSummary(w) PROVE Historic'
  BY <1>9, UpsertSummaryKeeps
<1>10. ASSUME NEW w \in Writers, DeleteTrimmed(w) PROVE Historic'
  BY <1>10, DeleteTrimmedKeeps
<1>11. ASSUME NEW w \in Writers, WriteFails(w) PROVE Historic'
  BY <1>11, WriteFailsKeeps
<1>12. CASE UNCHANGED histVars
  <2>1. UNCHANGED <<docs, writer, lock, segment, listed, manifest, cursors, whole, spoiled, faults>>
    BY <1>12 DEF histVars
  <2>2. HistoryTypeOK'
    BY <2>1 DEF Historic, HistoryTypeOK
  <2>3. InTurn' /\ Indexed'
    BY <2>1 DEF Historic, InTurn, Indexed
  <2>4. \A x \in DebugSessions \ spoiled : Sound(x)'
    BY <2>1 DEF Historic, Sound, AtWorkOn, Rewriting
  <2> QED
    BY <2>1, <2>2, <2>3, <2>4 DEF Historic
<1> QED
  BY <1>1, <1>2, <1>3, <1>4, <1>5, <1>6, <1>7, <1>8, <1>9, <1>10, <1>11, <1>12 DEF HistoryNext

\* What can be read of a debug session is a beginning of its document without
\* gaps, and has all events of the last version that was persisted, whatever
\* crashes and failed writes cut short; a session of the index can be loaded.
\* (debug_session_history.py, event_storage/segment.py)
THEOREM HistoryStaysWhole == HistorySpec => []HistoryIsWhole
<1>1. HistoryInit => Historic
  BY HistoryStarts
<1>2. Historic /\ [HistoryNext]_histVars => Historic'
  BY HistoryStays
<1>3. Historic => HistoryIsWhole
  <2> SUFFICES ASSUME Historic PROVE HistoryIsWhole
    OBVIOUS
  <2>1. \A s \in DebugSessions \ spoiled : Good(segment[s], whole[s])
    BY DEF Historic, Sound
  <2>2. listed \in Seq(DebugSessions) /\ \A i \in 1 .. Len(listed) : listed[i] \in manifest
    BY DEF Historic, HistoryTypeOK, Indexed
  <2>3. \A i \in DOMAIN listed : listed[i] \in manifest
    BY <2>2
  <2> QED
    BY <2>1, <2>3 DEF HistoryIsWhole, Good, Frames
<1> QED
  BY <1>1, <1>2, <1>3, PTL DEF HistorySpec

\* The history keeps the shapes the code relies on, for any number of threads.
THEOREM HistoryTypeSafe == HistorySpec => []HistoryTypeOK
<1>1. HistoryInit => Historic
  BY HistoryStarts
<1>2. Historic /\ [HistoryNext]_histVars => Historic'
  BY HistoryStays
<1>3. Historic => HistoryTypeOK
  BY DEF Historic
<1> QED
  BY <1>1, <1>2, <1>3, PTL DEF HistorySpec

---------------------------------------------------------------------------
(* DebugSession: a step runs one node.                                   *)

\* A thread that was asked to abort, or whose state was forgotten, stores no
\* other outcome.
Doomed == abortFlag \/ ~remembered

\* A due step has completed nothing yet.
Fresh == doc.mode = "step" => stepped = 0

\* The thread works on what the document says, and nobody may go on.
AtWork ==
    /\ control.pc = "idle" /\ doc.status # "paused"
    /\ doc.mode = mine.doc.mode /\ Fresh

DocFields == {"status", "mode", "at", "queue", "done", "arrived", "fromQueue", "cursor", "skip",
              "leave", "raised", "pausedAt", "hit", "inside"}

Shaped ==
    /\ doc = [f \in DocFields |-> doc[f]]
    /\ mine.doc = [f \in DocFields |-> mine.doc[f]]
    /\ mine = [f \in {"doc", "s", "at", "count"} |-> mine[f]]
    /\ mine.count \in Nat
    /\ control = [f \in {"pc", "what", "seen"} |-> control[f]]
    /\ control.seen = [f \in DocFields |-> control.seen[f]]
    /\ abortFlag \in BOOLEAN /\ remembered \in BOOLEAN /\ resume \in BOOLEAN /\ stepped \in Nat

Stepping ==
    /\ doc.mode = "step" => stepped <= 1
    /\ thread \in {"begin", "visit"} /\ mine.doc.mode = "step" => stepped <= 1
    /\ thread = "node" \/ (thread = "visit" /\ mine.at.node # Nowhere) => AtWork
    /\ thread = "begin" /\ ~Doomed => AtWork
    /\ thread = "starting" /\ ~Doomed => Fresh
    /\ ~Doomed /\ thread # "waiting" =>
          control.pc = "idle" /\ doc.status # "paused" /\ ~resume
    /\ ~Doomed /\ thread = "waiting" /\ (resume \/ control.pc = "written") =>
          doc.status # "paused" /\ Fresh
    /\ ~Doomed /\ resume => control.pc = "idle"
    /\ control.pc = "written" => stepped = 0
    /\ thread = "unstarted" => stepped = 0

Guided == Shaped /\ Stepping

\* What the changes of a document leave alone.
Doc(d) == d = [f \in DocFields |-> d[f]]

LEMMA Documents ==
    ASSUME NEW d, Doc(d)
    PROVE  /\ \A at, s : /\ Doc(Snapshot(d, at, s)) /\ Snapshot(d, at, s).mode = d.mode
                         /\ Snapshot(d, at, s).status = d.status
           /\ \A where : /\ Doc(Pausing(d, where)) /\ Pausing(d, where).mode = d.mode
                        /\ Pausing(d, where).status = "paused"
           /\ \A status : /\ Doc(Ending(d, status)) /\ Ending(d, status).mode = d.mode
                          /\ Ending(d, status).status = status
           /\ Doc(Running(d)) /\ Running(d).mode = d.mode /\ Running(d).status = "running"
           /\ \A what : /\ Doc(Patched(d, what)) /\ Patched(d, what).status \in {"running", "stepping"}
           /\ \A x : /\ Doc([d EXCEPT !.skip = x]) /\ [d EXCEPT !.skip = x].mode = d.mode
           /\ \A status : /\ Doc([d EXCEPT !.status = status]) /\ [d EXCEPT !.status = status].mode = d.mode
<1> USE DEF Doc, DocFields
<1>1. ASSUME NEW at, NEW s PROVE Doc(Snapshot(d, at, s)) /\ Snapshot(d, at, s).mode = d.mode
                         /\ Snapshot(d, at, s).status = d.status
  BY DEF Snapshot
<1>2. ASSUME NEW where PROVE Doc(Pausing(d, where)) /\ Pausing(d, where).mode = d.mode
                        /\ Pausing(d, where).status = "paused"
  BY DEF Pausing
<1>3. ASSUME NEW status PROVE Doc(Ending(d, status)) /\ Ending(d, status).mode = d.mode
                          /\ Ending(d, status).status = status
  BY DEF Ending
<1>4. Doc(Running(d)) /\ Running(d).mode = d.mode /\ Running(d).status = "running"
  BY DEF Running
<1>5. ASSUME NEW what PROVE Doc(Patched(d, what)) /\ Patched(d, what).status \in {"running", "stepping"}
  BY DEF Patched
<1>6. ASSUME NEW x PROVE Doc([d EXCEPT !.skip = x]) /\ [d EXCEPT !.skip = x].mode = d.mode
  OBVIOUS
<1>7. ASSUME NEW status PROVE Doc([d EXCEPT !.status = status]) /\ [d EXCEPT !.status = status].mode = d.mode
  OBVIOUS
<1> QED
  BY <1>1, <1>2, <1>3, <1>4, <1>5, <1>6, <1>7

\* A store writes the copy, or fails the worker.
LEMMA StoreWrites ==
    ASSUME Shaped, NEW d, Doc(d), NEW next, Store(d, next)
    PROVE  /\ Doc(doc')
           /\ remembered => doc' = d /\ thread' = next
           /\ ~remembered => doc'.mode = doc.mode /\ thread' = "releasing"
<1>1. CASE remembered
  BY <1>1 DEF Store
<1>2. CASE ~remembered
  <2>1. FailWorker
    BY <1>2 DEF Store
  <2> QED
    BY <1>2, <2>1, Documents DEF FailWorker, Shaped, Doc
<1> QED
  BY <1>1, <1>2

\* handle_manual_debug_control_requests
LEMMA RequestedWrites ==
    ASSUME Shaped, NEW d, Doc(d), NEW at, NEW showing, NEW s, NEW fromQueue, NEW marker, NEW otherwise,
           Requested(d, at, showing, s, fromQueue, marker, otherwise)
    PROVE  \/ /\ abortFlag /\ Doc(doc') /\ thread' = "releasing"
              /\ doc'.mode \in {d.mode, doc.mode}
           \/ /\ ~abortFlag /\ remembered /\ Doc(doc') /\ thread' = "waiting"
              /\ doc'.mode = d.mode /\ doc'.status = "paused"
           \/ /\ ~remembered /\ Doc(doc') /\ thread' = "releasing" /\ doc'.mode = doc.mode
           \/ otherwise /\ ~abortFlag
<1> DEFINE a == Snapshot(Ending(d, "aborted"), at, s)
           p == Snapshot([Pausing(d, d.at.node) EXCEPT !.inside = Nowhere,
                              !.fromQueue = fromQueue, !.cursor = marker], showing, s)
<1>1. Doc(a) /\ a.mode = d.mode
  BY Documents
<1>2. Doc(p) /\ p.mode = d.mode /\ p.status = "paused"
  <2> DEFINE q == Pausing(d, d.at.node)
             r == [q EXCEPT !.inside = Nowhere, !.fromQueue = fromQueue, !.cursor = marker]
  <2>1. Doc(q) /\ q.mode = d.mode /\ q.status = "paused"
    BY Documents
  <2> HIDE DEF q
  <2>2. Doc(r) /\ r.mode = d.mode /\ r.status = "paused"
    BY <2>1 DEF Doc, DocFields
  <2> HIDE DEF r
  <2>3. Doc(Snapshot(r, showing, s)) /\ Snapshot(r, showing, s).mode = r.mode
        /\ Snapshot(r, showing, s).status = r.status
    BY <2>2, Documents
  <2> QED
    BY <2>2, <2>3 DEF q, r
<1>3. CASE abortFlag
  <2>1. Store(a, "releasing")
    BY <1>3 DEF Requested
  <2> HIDE DEF a
  <2> QED
    BY <1>1, <1>3, <2>1, StoreWrites
<1>4. CASE ~abortFlag /\ pauseFlag
  <2>1. Store(p, "waiting")
    BY <1>4 DEF Requested
  <2> HIDE DEF p
  <2> QED
    BY <1>2, <1>4, <2>1, StoreWrites DEF Shaped
<1>5. CASE ~abortFlag /\ ~pauseFlag
  BY <1>5 DEF Requested
<1> QED
  BY <1>3, <1>4, <1>5

LEMMA ResumptionShape ==
    ASSUME NEW d, Doc(d)
    PROVE  /\ Resumption(d) = [f \in {"doc", "s", "at", "count"} |-> Resumption(d)[f]]
           /\ Doc(Resumption(d).doc) /\ Resumption(d).doc.mode = d.mode
           /\ Resumption(d).doc.status = d.status /\ Resumption(d).count = 0
<1> DEFINE popped == [d EXCEPT !.fromQueue = FALSE]
<1>1. Doc(popped) /\ popped.mode = d.mode /\ popped.status = d.status
  BY DEF Doc, DocFields
<1> DEFINE moved == [popped EXCEPT !.cursor = NoToken]
<1>2. Doc(moved) /\ moved.mode = d.mode /\ moved.status = d.status
  BY <1>1 DEF Doc, DocFields
<1>3. \E x, y, z : Resumption(d) = [doc |-> moved, at |-> x, s |-> y, count |-> 0]
                \/ Resumption(d) = [doc |-> popped, at |-> x, s |-> y, count |-> 0]
  <2> HIDE DEF popped, moved
  <2> QED
    BY Zenon DEF Resumption, popped, moved
<1> HIDE DEF popped, moved
<1> QED
  BY <1>1, <1>2, <1>3

LEMMA GuidedStarts == DebugInit => Guided
<1> SUFFICES ASSUME DebugInit PROVE Guided
  OBVIOUS
<1>1. Doc(FirstDoc(plan)) /\ FirstDoc(plan).mode = "none" /\ FirstDoc(plan).status = "preparing"
  BY DEF FirstDoc, Doc, DocFields
<1>2. /\ doc = FirstDoc(plan) /\ thread = "unstarted"
      /\ mine = [doc |-> doc, s |-> EmptySchedule, at |-> NoToken, count |-> 0]
      /\ resume = FALSE /\ remembered = TRUE /\ abortFlag = FALSE
      /\ control = [pc |-> "idle", what |-> "none", seen |-> doc] /\ stepped = 0
  BY DEF DebugInit
<1>3. Shaped
  BY <1>1, <1>2 DEF Shaped, Doc
<1>4. Stepping
  BY <1>1, <1>2 DEF Stepping, Doomed, Fresh, AtWork
<1> QED
  BY <1>3, <1>4 DEF Guided

\* Steps of the thread that store nothing and complete no node.
LEMMA LoadGuides == Guided /\ Load => Guided'
<1> SUFFICES ASSUME Guided, Load PROVE Guided'
  OBVIOUS
<1>1. /\ thread = "starting" /\ UNCHANGED <<plan, control, stepped, resume, remembered, abortFlag>>
  BY DEF Load, ThreadOnly, NothingRan
<1>2. CASE thread' = "ending" /\ UNCHANGED <<doc, mine>> /\ Ended(doc)
  <2>1. doc.status # "paused"
    BY <1>2 DEF Ended, Terminal
  <2> QED
    BY <1>1, <1>2, <2>1 DEF Guided, Shaped, Stepping, Doomed, Fresh, AtWork
<1>3. CASE ~remembered /\ FailWorker /\ UNCHANGED mine
  <2>1. Doc(doc') /\ doc'.mode = doc.mode /\ thread' = "releasing"
    BY <1>3, Documents DEF FailWorker, Guided, Shaped, Doc
  <2> QED
    BY <1>1, <1>3, <2>1 DEF Guided, Shaped, Stepping, Doomed, Fresh, AtWork, Doc
<1>4. CASE mine' = Resumption(doc) /\ thread' = "begin" /\ UNCHANGED doc
  <2> DEFINE m == Resumption(doc)
  <2>1. /\ m = [f \in {"doc", "s", "at", "count"} |-> m[f]]
        /\ Doc(m.doc) /\ m.doc.mode = doc.mode /\ m.count = 0
    BY ResumptionShape DEF Guided, Shaped, Doc
  <2> HIDE DEF m
  <2>2. mine' = m
    BY <1>4 DEF m
  <2> QED
    BY <1>1, <1>4, <2>1, <2>2 DEF Guided, Shaped, Stepping, Doomed, Fresh, AtWork, Doc
<1> QED
  BY <1>2, <1>3, <1>4 DEF Load

\* The thread's own requests and memory are not touched by its steps.
Undisturbed == UNCHANGED <<plan, control, resume, remembered, abortFlag>>

\* The thread pauses or ends.
LEMMA StopGuides ==
    ASSUME Guided, Undisturbed, thread # "waiting", stepped' \in Nat,
           control.pc = "written" => stepped' = 0,
           Doc(doc'), Doc(mine'.doc), mine'.count \in Nat,
           mine' = [f \in {"doc", "s", "at", "count"} |-> mine'[f]],
           doc'.mode = "step" => stepped' <= 1,
           \/ thread' = "releasing" /\ (Doomed \/ doc'.status # "paused")
           \/ thread' = "waiting"
    PROVE  Guided'
<1>1. Shaped'
  BY DEF Guided, Shaped, Doc, Undisturbed
<1>2. ~Doomed => control.pc = "idle" /\ ~resume
  BY DEF Guided, Stepping
<1>3. (Doomed' <=> Doomed) /\ control' = control /\ resume' = resume
  BY DEF Doomed, Undisturbed
<1>4. Stepping'
  <2>1. thread' \notin {"begin", "visit", "node", "starting", "unstarted"}
    OBVIOUS
  <2>2. ~Doomed' => control'.pc = "idle" /\ ~resume'
    BY <1>2, <1>3
  <2>3. ~Doomed' /\ thread' # "waiting" => doc'.status # "paused"
    BY <1>3
  <2>4. control'.pc = "written" => stepped' = 0
    BY <1>3
  <2> QED
    BY <2>1, <2>2, <2>3, <2>4 DEF Stepping
<1> QED
  BY <1>1, <1>4 DEF Guided

\* The thread goes on with what the document says.
LEMMA WorkGuides ==
    ASSUME Guided, Undisturbed, thread # "waiting", stepped' \in Nat,
           control.pc = "written" => stepped' = 0,
           Doc(doc'), Doc(mine'.doc), mine'.count \in Nat,
           mine' = [f \in {"doc", "s", "at", "count"} |-> mine'[f]],
           thread' \in {"visit", "node"}, AtWork'
    PROVE  Guided'
<1>1. Shaped'
  BY DEF Guided, Shaped, Doc, Undisturbed
<1>2. ~Doomed => control.pc = "idle" /\ ~resume
  BY DEF Guided, Stepping
<1>3. (Doomed' <=> Doomed) /\ control' = control /\ resume' = resume
  BY DEF Doomed, Undisturbed
<1>4. /\ doc'.mode = mine'.doc.mode /\ doc'.status # "paused"
      /\ doc'.mode = "step" => stepped' <= 1
  BY DEF AtWork, Fresh
<1>5. Stepping'
  <2>1. ~Doomed' => control'.pc = "idle" /\ ~resume'
    BY <1>2, <1>3
  <2>2. control'.pc = "written" => stepped' = 0
    BY <1>3
  <2> QED
    BY <1>4, <2>1, <2>2 DEF Stepping
<1> QED
  BY <1>1, <1>5 DEF Guided

LEMMA BeginGuides == Guided /\ Begin => Guided'
<1> SUFFICES ASSUME Guided, Begin PROVE Guided'
  OBVIOUS
<1> DEFINE c == mine.doc
           d == Snapshot(Running(c), mine.at, mine.s)
           goOn == IF mine.at.node = Nowhere THEN thread' = "visit" /\ UNCHANGED doc
                   ELSE Store(d, "visit")
<1>1. /\ thread = "begin" /\ UNCHANGED stepped /\ Undisturbed
      /\ mine' = IF mine.at.node = Nowhere THEN mine ELSE [mine EXCEPT !.doc = d]
      /\ Requested(c, mine.at, mine.at, mine.s, FALSE, NoToken, goOn)
  BY DEF Begin, ThreadOnly, NothingRan, Undisturbed
<1>2. Doc(c) /\ Doc(d) /\ d.mode = c.mode /\ d.status = "running"
  <2>1. Doc(c)
    BY DEF Guided, Shaped, Doc
  <2>2. Doc(Running(c)) /\ Running(c).mode = c.mode /\ Running(c).status = "running"
    BY <2>1, Documents
  <2> QED
    BY <2>1, <2>2, Documents
<1> HIDE DEF d
<1>3. /\ mine' = [f \in {"doc", "s", "at", "count"} |-> mine'[f]]
      /\ Doc(mine'.doc) /\ mine'.doc.mode = c.mode /\ mine'.count \in Nat
      /\ mine'.at = mine.at
  BY <1>1, <1>2 DEF Guided, Shaped, Doc
<1>4. /\ c.mode = "step" => stepped <= 1
      /\ doc.mode = "step" => stepped <= 1
      /\ ~Doomed => AtWork
      /\ control.pc = "written" => stepped = 0
      /\ stepped \in Nat
  BY <1>1 DEF Guided, Stepping, Shaped
<1>5. CASE thread' = "releasing" /\ Doomed /\ Doc(doc') /\ doc'.mode \in {c.mode, doc.mode}
  <2>1. doc'.mode = "step" => stepped' <= 1
    BY <1>1, <1>4, <1>5
  <2> QED
    BY <1>1, <1>3, <1>4, <1>5, <2>1, StopGuides
<1>6. CASE thread' = "waiting" /\ Doc(doc') /\ doc'.mode = c.mode
  <2>1. doc'.mode = "step" => stepped' <= 1
    BY <1>1, <1>4, <1>6
  <2> QED
    BY <1>1, <1>3, <1>4, <1>6, <2>1, StopGuides
<1>7. CASE goOn /\ ~abortFlag
  <2>1. CASE mine.at.node = Nowhere
    <3>1. thread' = "visit" /\ UNCHANGED <<doc, mine>>
      BY <1>1, <1>7, <2>1
    <3> QED
      BY <1>1, <1>4, <2>1, <3>1 DEF Guided, Shaped, Stepping, Doomed, Undisturbed, AtWork, Fresh
  <2>2. CASE mine.at.node # Nowhere /\ remembered
    <3>1. Store(d, "visit")
      BY <1>7, <2>2
    <3>2. doc' = d /\ thread' = "visit"
      BY <1>2, <2>2, <3>1, StoreWrites DEF Guided
    <3>3. AtWork
      BY <1>4, <1>7, <2>2 DEF Doomed
    <3>4. AtWork'
      BY <1>1, <1>2, <1>3, <3>2, <3>3 DEF AtWork, Fresh, Undisturbed
    <3> QED
      BY <1>1, <1>2, <1>3, <1>4, <3>2, <3>4, WorkGuides
  <2>3. CASE mine.at.node # Nowhere /\ ~remembered
    <3>1. Store(d, "visit")
      BY <1>7, <2>3
    <3>2. doc'.mode = doc.mode /\ thread' = "releasing" /\ Doc(doc')
      BY <1>2, <2>3, <3>1, StoreWrites DEF Guided
    <3> QED
      BY <1>5, <2>3, <3>2 DEF Doomed
  <2> QED
    BY <2>1, <2>2, <2>3
<1> HIDE DEF goOn
<1>8. \/ /\ abortFlag /\ Doc(doc') /\ thread' = "releasing"
         /\ doc'.mode \in {c.mode, doc.mode}
      \/ /\ ~abortFlag /\ remembered /\ Doc(doc') /\ thread' = "waiting"
         /\ doc'.mode = c.mode /\ doc'.status = "paused"
      \/ /\ ~remembered /\ Doc(doc') /\ thread' = "releasing" /\ doc'.mode = doc.mode
      \/ goOn /\ ~abortFlag
  BY <1>1, <1>2, RequestedWrites DEF Guided
<1> QED
  BY <1>5, <1>6, <1>7, <1>8 DEF Doomed

\* A store after which the thread pauses or ends.
LEMMA StoreGuides ==
    ASSUME Guided, Undisturbed, thread # "waiting", stepped' \in Nat,
           control.pc = "written" => stepped' = 0,
           NEW d, Doc(d), NEW next, Store(d, next),
           (next = "releasing" /\ d.status # "paused") \/ next = "waiting",
           Doc(mine'.doc), mine'.count \in Nat,
           mine' = [f \in {"doc", "s", "at", "count"} |-> mine'[f]],
           d.mode = "step" => stepped' <= 1, doc.mode = "step" => stepped' <= 1
    PROVE  Guided'
<1>1. CASE remembered
  <2>1. doc' = d /\ thread' = next
    BY <1>1, StoreWrites DEF Guided
  <2> QED
    BY <2>1, StopGuides
<1>2. CASE ~remembered
  <2>1. doc'.mode = doc.mode /\ thread' = "releasing" /\ Doc(doc')
    BY <1>2, StoreWrites DEF Guided
  <2> QED
    BY <1>2, <2>1, StopGuides DEF Doomed
<1> QED
  BY <1>1, <1>2

\* What a step of the thread finds.
LEMMA GuidedFacts ==
    ASSUME Guided
    PROVE  /\ Doc(doc) /\ Doc(mine.doc) /\ mine.count \in Nat /\ stepped \in Nat
           /\ mine = [f \in {"doc", "s", "at", "count"} |-> mine[f]]
           /\ control.pc = "written" => stepped = 0
           /\ doc.mode = "step" => stepped <= 1
           /\ thread \in {"begin", "visit"} /\ mine.doc.mode = "step" => stepped <= 1
           /\ thread = "node" \/ (thread = "visit" /\ mine.at.node # Nowhere) => AtWork
  BY DEF Guided, Shaped, Stepping, Doc

LEMMA FinishGuides == Guided /\ Finish => Guided'
<1> SUFFICES ASSUME Guided, Finish PROVE Guided'
  OBVIOUS
<1> DEFINE e == Ending(mine.doc, "completed")
           d == Snapshot(e, NoToken, mine.s)
<1>1. thread = "visit" /\ Store(d, "releasing") /\ Undisturbed /\ UNCHANGED <<mine, stepped>>
  BY DEF Finish, ThreadOnly, NothingRan, memoryVars, Undisturbed
<1>2. Doc(d) /\ d.mode = mine.doc.mode /\ d.status = "completed"
  <2>1. Doc(e) /\ e.mode = mine.doc.mode /\ e.status = "completed"
    BY GuidedFacts, Documents
  <2> HIDE DEF e
  <2> QED
    BY <2>1, Documents
<1> HIDE DEF d
<1> QED
  BY <1>1, <1>2, GuidedFacts, StoreGuides

\* A node at work is not paused at while a step is due that completed one.
LEMMA PauseGuides ==
    ASSUME Guided, Undisturbed, thread = "node" \/ (thread = "visit" /\ mine.at.node # Nowhere),
           UNCHANGED <<mine, stepped>>,
           NEW d, Doc(d), d.mode = mine.doc.mode, Store(d, "waiting")
    PROVE  Guided'
<1>1. AtWork
  BY GuidedFacts
<1>2. /\ d.mode = "step" => stepped <= 1
      /\ doc.mode = "step" => stepped <= 1
  BY <1>1 DEF AtWork, Fresh
<1> QED
  BY <1>2, GuidedFacts, StoreGuides

LEMMA StopBeforeGuides == ASSUME Guided, NEW hit, StopBefore(hit) PROVE Guided'
<1> DEFINE n == mine.at.node
           p == Pausing(mine.doc, n)
           q == [p EXCEPT !.hit[n] = IF hit THEN "before" ELSE @]
           d == Snapshot(q, mine.at, mine.s)
<1>1. thread = "visit" /\ n # Nowhere /\ Store(d, "waiting") /\ Undisturbed /\ UNCHANGED <<mine, stepped>>
  BY DEF StopBefore, ToRun, AtNode, ThreadOnly, NothingRan, memoryVars, Undisturbed
<1>2. Doc(p) /\ p.mode = mine.doc.mode
  BY GuidedFacts, Documents
<1> HIDE DEF p
<1>3. Doc(q) /\ q.mode = p.mode
  BY <1>2 DEF Doc, DocFields
<1> HIDE DEF q
<1>4. Doc(d) /\ d.mode = mine.doc.mode
  BY <1>2, <1>3, Documents
<1> HIDE DEF d
<1> QED
  BY <1>1, <1>4, PauseGuides

LEMMA NodeFailsGuides == Guided /\ NodeFails => Guided'
<1> SUFFICES ASSUME Guided, NodeFails PROVE Guided'
  OBVIOUS
<1> DEFINE p == Pausing(mine.doc, mine.at.node)
           q == [p EXCEPT !.raised = TRUE, !.inside = Nowhere, !.leave = Nowhere]
           d == Snapshot(q, mine.at, mine.s)
<1>1. thread = "node" /\ Store(d, "waiting") /\ Undisturbed /\ UNCHANGED <<mine, stepped>>
  BY DEF NodeFails, ThreadOnly, NothingRan, memoryVars, Undisturbed
<1>2. Doc(p) /\ p.mode = mine.doc.mode
  BY GuidedFacts, Documents
<1> HIDE DEF p
<1>3. Doc(q) /\ q.mode = p.mode
  BY <1>2 DEF Doc, DocFields
<1> HIDE DEF q
<1>4. Doc(d) /\ d.mode = mine.doc.mode
  BY <1>2, <1>3, Documents
<1> HIDE DEF d
<1> QED
  BY <1>1, <1>4, PauseGuides

LEMMA StopInsideGuides == Guided /\ StopInside => Guided'
<1> SUFFICES ASSUME Guided, StopInside PROVE Guided'
  OBVIOUS
<1> DEFINE p == Pausing(mine.doc, Nowhere)
           q == [p EXCEPT !.inside = mine.at.node]
           d == Snapshot(q, [mine.at EXCEPT !.again = FALSE], mine.s)
<1>1. thread = "node" /\ Store(d, "waiting") /\ Undisturbed /\ UNCHANGED <<mine, stepped>>
  BY DEF StopInside, ThreadOnly, NothingRan, memoryVars, Undisturbed
<1>2. Doc(p) /\ p.mode = mine.doc.mode
  BY GuidedFacts, Documents
<1> HIDE DEF p
<1>3. Doc(q) /\ q.mode = p.mode
  BY <1>2 DEF Doc, DocFields
<1> HIDE DEF q
<1>4. Doc(d) /\ d.mode = mine.doc.mode
  BY <1>2, <1>3, Documents
<1> HIDE DEF d
<1> QED
  BY <1>1, <1>4, PauseGuides

LEMMA StartNodeGuides == Guided /\ StartNode => Guided'
<1> SUFFICES ASSUME Guided, StartNode PROVE Guided'
  OBVIOUS
<1> DEFINE n == mine.at.node
           past == IF Guarded(n) /\ mine.doc.skip = n THEN Nowhere ELSE mine.doc.skip
           k == [mine.doc EXCEPT !.skip = past]
           r == Running(k)
           d == Snapshot(r, mine.at, mine.s)
<1>1. /\ thread = "visit" /\ n # Nowhere /\ Store(d, "node") /\ Undisturbed /\ UNCHANGED stepped
      /\ mine' = [mine EXCEPT !.doc = d]
  BY DEF StartNode, ToRun, AtNode, ThreadOnly, NothingRan, memoryVars, Undisturbed
<1> HIDE DEF past
<1>2. Doc(d) /\ d.mode = mine.doc.mode /\ d.status = "running"
  <2>1. Doc(k) /\ k.mode = mine.doc.mode
    BY GuidedFacts DEF Doc, DocFields
  <2> HIDE DEF k
  <2>2. Doc(r) /\ r.mode = mine.doc.mode /\ r.status = "running"
    BY <2>1, Documents
  <2> HIDE DEF r
  <2> QED
    BY <2>2, Documents
<1> HIDE DEF d
<1>3. /\ mine' = [f \in {"doc", "s", "at", "count"} |-> mine'[f]]
      /\ mine'.doc = d /\ mine'.count \in Nat
  BY <1>1, GuidedFacts
<1>4. AtWork
  BY <1>1, GuidedFacts
<1>5. CASE remembered
  <2>1. doc' = d /\ thread' = "node"
    BY <1>1, <1>2, <1>5, StoreWrites DEF Guided
  <2>2. AtWork'
    BY <1>1, <1>2, <1>3, <1>4, <2>1 DEF AtWork, Fresh, Undisturbed
  <2> QED
    BY <1>1, <1>2, <1>3, <2>1, <2>2, GuidedFacts, WorkGuides
<1>6. CASE ~remembered
  <2>1. doc'.mode = doc.mode /\ thread' = "releasing" /\ Doc(doc')
    BY <1>1, <1>2, <1>6, StoreWrites DEF Guided
  <2> QED
    BY <1>1, <1>2, <1>3, <1>6, <2>1, GuidedFacts, StopGuides DEF Doomed
<1> QED
  BY <1>5, <1>6

\* A token that is dropped, a node that is left out: nothing is completed.
LEMMA PassGuides == Guided /\ (Drop \/ LeaveOut) => Guided'
<1> SUFFICES ASSUME Guided, Drop \/ LeaveOut PROVE Guided'
  OBVIOUS
<1>1. /\ thread = "visit" /\ mine.at.node # Nowhere /\ Undisturbed
      /\ UNCHANGED <<stepped, doc, thread>>
  BY DEF Drop, LeaveOut, AtNode, ThreadOnly, NothingRan, memoryVars, Undisturbed
<1>2. AtWork
  BY <1>1, GuidedFacts
<1>3. /\ mine' = [f \in {"doc", "s", "at", "count"} |-> mine'[f]]
      /\ Doc(mine'.doc) /\ mine'.doc.mode = mine.doc.mode /\ mine'.count \in Nat
  <2>1. CASE Drop
    BY <2>1, GuidedFacts DEF Drop
  <2>2. CASE LeaveOut
    <3> DEFINE c == [mine.doc EXCEPT !.leave = Nowhere, !.inside = Nowhere]
    <3>1. Doc(c) /\ c.mode = mine.doc.mode
      BY GuidedFacts DEF Doc, DocFields
    <3> HIDE DEF c
    <3>2. \E x, y : mine' = [doc |-> c, at |-> x, s |-> y, count |-> mine.count]
      BY <2>2, Zenon DEF LeaveOut, c
    <3> QED
      BY <3>1, <3>2, GuidedFacts
  <2> QED
    BY <2>1, <2>2
<1>4. AtWork'
  BY <1>1, <1>2, <1>3 DEF AtWork, Fresh, Undisturbed
<1> QED
  BY <1>1, <1>3, <1>4, GuidedFacts, WorkGuides

LEMMA NodeDoneGuides == ASSUME Guided, NEW stop, NodeDone(stop) PROVE Guided'
<1> DEFINE n     == mine.at.node
           s     == Through(plan, mine.s, n, mine.at.again, turns[n])
           next  == NextAt(s)
           left  == Dispatched(s)
           count == mine.count + 1
           d     == mine.doc
           p     == Pausing(d, n)
           after == [p EXCEPT !.inside = Nowhere, !.fromQueue = TRUE, !.cursor = next,
                              !.hit[n] = IF stop = "hit" THEN "after" ELSE @]
           due   == [p EXCEPT !.inside = Nowhere]
           onward == IF next.node = Nowhere
                     THEN Store(Snapshot(Ending(d, "completed"), NoToken, left), "releasing")
                     ELSE Store(Snapshot(due, next, left), "waiting")
           goOn  == IF StepIsDone(count) THEN onward ELSE thread' = "visit" /\ UNCHANGED doc
<1>1. /\ thread = "node" /\ Undisturbed
      /\ mine' = [mine EXCEPT !.at = next, !.s = left, !.count = count]
      /\ stepped' = IF stepped < 2 THEN stepped + 1 ELSE stepped
  BY DEF NodeDone, ThreadOnly, Undisturbed
<1>2. stop # "no" => Store(Snapshot(after, mine.at, left), "waiting")
  BY DEF NodeDone
<1>3. stop = "no" => Requested(d, next, mine.at, left, TRUE, next, goOn)
  BY DEF NodeDone
<1>4. Doc(d) /\ Doc(p) /\ p.mode = d.mode
  BY GuidedFacts, Documents
<1> HIDE DEF p, s, next, left
<1>5. Doc(after) /\ after.mode = d.mode /\ Doc(due) /\ due.mode = d.mode
  BY <1>4 DEF Doc, DocFields
<1> HIDE DEF after, due
<1>6. AtWork /\ control.pc = "idle"
  BY <1>1, GuidedFacts DEF AtWork
<1>7. /\ stepped' \in Nat /\ doc.mode = d.mode
      /\ d.mode = "step" => stepped' <= 1
  BY <1>1, <1>6, GuidedFacts DEF AtWork, Fresh
<1>8. /\ mine' = [f \in {"doc", "s", "at", "count"} |-> mine'[f]]
      /\ mine'.doc = d /\ mine'.count \in Nat
  <2>1. /\ mine = [f \in {"doc", "s", "at", "count"} |-> mine[f]]
        /\ mine.count \in Nat /\ count \in Nat
    BY GuidedFacts
  <2> HIDE DEF count
  <2> QED
    BY <1>1, <2>1
<1>9. ASSUME NEW x, Doc(x), x.mode = d.mode, NEW to, Store(x, to),
             (to = "releasing" /\ x.status # "paused") \/ to = "waiting"
      PROVE  Guided'
  BY <1>1, <1>4, <1>6, <1>7, <1>8, <1>9, StoreGuides
<1>10. CASE stop # "no"
  BY <1>2, <1>5, <1>9, <1>10, Documents
<1>11. CASE stop = "no" /\ Doc(doc') /\ doc'.mode = d.mode
             /\ ((thread' = "releasing" /\ Doomed) \/ thread' = "waiting")
  BY <1>1, <1>4, <1>6, <1>7, <1>8, <1>11, StopGuides
<1>12. CASE stop = "no" /\ goOn
  <2>1. CASE StepIsDone(count)
    <3>1. CASE next.node = Nowhere
      <4>1. Store(Snapshot(Ending(d, "completed"), NoToken, left), "releasing")
        BY <1>12, <2>1, <3>1
      <4>2. LET e == Ending(d, "completed") IN Doc(e) /\ e.mode = d.mode /\ e.status = "completed"
        BY <1>4, Documents
      <4> QED
        BY <1>9, <4>1, <4>2, Documents
    <3>2. CASE next.node # Nowhere
      <4>1. Store(Snapshot(due, next, left), "waiting")
        BY <1>12, <2>1, <3>2
      <4> QED
        BY <1>5, <1>9, <4>1, Documents
    <3> QED
      BY <3>1, <3>2
  <2>2. CASE ~StepIsDone(count)
    <3>1. d.mode # "step"
      BY <2>2, GuidedFacts DEF StepIsDone
    <3>2. thread' = "visit" /\ doc' = doc
      BY <1>12, <2>2
    <3>3. AtWork'
      BY <1>1, <1>6, <1>7, <1>8, <3>1, <3>2 DEF AtWork, Fresh, Undisturbed
    <3> QED
      BY <1>1, <1>4, <1>6, <1>7, <1>8, <3>2, <3>3, GuidedFacts, WorkGuides
  <2> QED
    BY <2>1, <2>2
<1> HIDE DEF goOn
<1>13. stop = "no" =>
         \/ /\ abortFlag /\ Doc(doc') /\ thread' = "releasing" /\ doc'.mode \in {d.mode, doc.mode}
         \/ /\ ~abortFlag /\ remembered /\ Doc(doc') /\ thread' = "waiting"
            /\ doc'.mode = d.mode /\ doc'.status = "paused"
         \/ /\ ~remembered /\ Doc(doc') /\ thread' = "releasing" /\ doc'.mode = doc.mode
         \/ goOn /\ ~abortFlag
  BY <1>3, <1>4, RequestedWrites DEF Guided
<1> QED
  BY <1>7, <1>10, <1>11, <1>12, <1>13 DEF Doomed

\* The thread sleeps, wakes and leaves.
LEMMA RestGuides == Guided /\ (Wake \/ Release \/ Exit \/ Launch) => Guided'
<1> SUFFICES ASSUME Guided, Wake \/ Release \/ Exit \/ Launch PROVE Guided'
  OBVIOUS
<1>1. CASE Wake
  BY <1>1 DEF Wake, ThreadOnly, NothingRan, memoryVars, Guided, Shaped, Stepping, Doomed, Fresh, AtWork
<1>2. CASE Release
  <2>1. Shaped'
    BY <1>2 DEF Release, ThreadOnly, NothingRan, Forgotten, Guided, Shaped
  <2>2. Doomed' /\ thread' = "ending" /\ UNCHANGED <<doc, control, stepped>>
    BY <1>2 DEF Release, ThreadOnly, NothingRan, Forgotten, Doomed
  <2> QED
    BY <2>1, <2>2 DEF Guided, Stepping
<1>3. CASE Exit
  BY <1>3 DEF Exit, ThreadOnly, NothingRan, memoryVars, Guided, Shaped, Stepping, Doomed, Fresh, AtWork
<1>4. CASE Launch
  BY <1>4 DEF Launch, RequestOnly, requestVars, memoryVars, Guided, Shaped, Stepping, Doomed, Fresh, AtWork
<1> QED
  BY <1>1, <1>2, <1>3, <1>4

LEMMA AskGuides == ASSUME Guided, NEW what, AskToGoOn(what) PROVE Guided'
<1>1. /\ control.pc = "idle" /\ doc.status = "paused"
      /\ control' = [pc |-> "asked", what |-> what, seen |-> doc]
      /\ UNCHANGED <<doc, mine, thread, resume, remembered, abortFlag, stepped>>
  BY DEF AskToGoOn, RequestOnly, memoryVars
<1>2. Shaped'
  BY <1>1 DEF Guided, Shaped
<1>3. Stepping'
  BY <1>1 DEF Guided, Stepping, Doomed, Fresh, AtWork
<1> QED
  BY <1>2, <1>3 DEF Guided

LEMMA WriteGuides == Guided /\ WriteRequest => Guided'
<1> SUFFICES ASSUME Guided, WriteRequest PROVE Guided'
  OBVIOUS
<1>1. /\ control.pc = "asked" /\ doc' = Patched(control.seen, control.what) /\ stepped' = 0
      /\ control' = [control EXCEPT !.pc = "written"]
      /\ UNCHANGED <<mine, thread, resume, remembered, abortFlag>>
  BY DEF WriteRequest, RequestOnly
<1>2. Doc(control.seen)
  BY DEF Guided, Shaped, Doc
<1>3. Doc(doc') /\ doc'.status \in {"running", "stepping"}
  BY <1>1, <1>2, Documents
<1>4. Shaped'
  BY <1>1, <1>3 DEF Guided, Shaped, Doc
<1>5. Stepping'
  BY <1>1, <1>3 DEF Guided, Shaped, Stepping, Doomed, Fresh, AtWork
<1> QED
  BY <1>4, <1>5 DEF Guided

LEMMA SignalGuides == Guided /\ Signal => Guided'
<1> SUFFICES ASSUME Guided, Signal PROVE Guided'
  OBVIOUS
<1>1. /\ control.pc = "written" /\ stepped = 0
      /\ control' = [control EXCEPT !.pc = "idle", !.seen = FirstDoc(plan)]
      /\ UNCHANGED <<mine, remembered, abortFlag, stepped>>
      /\ Doomed' <=> Doomed
  BY DEF Signal, RequestOnly, memoryVars, Guided, Stepping, Doomed
<1>2. Doc(FirstDoc(plan))
  BY DEF FirstDoc, Doc, DocFields
<1>3. control'.pc = "idle"
  BY <1>1 DEF Guided, Shaped
<1>4. ASSUME Doc(doc'), resume' \in BOOLEAN PROVE Shaped'
  BY <1>1, <1>2, <1>4 DEF Guided, Shaped, Doc
<1>5. CASE Alive
  <2>1. resume' = TRUE /\ UNCHANGED <<doc, thread>>
    BY <1>5 DEF Signal
  <2>2. Shaped'
    BY <1>4, <2>1 DEF Guided, Shaped, Doc
  <2>3. thread \notin {"node"} /\ ~(thread = "visit" /\ mine.at.node # Nowhere)
        /\ (thread = "waiting" \/ Doomed)
    BY <1>1 DEF Guided, Stepping, AtWork
  <2>4. ~Doomed => doc.status # "paused" /\ Fresh
    BY <1>1, <2>3 DEF Guided, Stepping
  <2>5. Stepping'
    BY <1>1, <1>3, <2>1, <2>3, <2>4 DEF Guided, Stepping, Fresh, AtWork
  <2> QED
    BY <2>2, <2>5 DEF Guided
<1>6. CASE ~Alive
  <2>1. Doomed
    BY <1>1, <1>6 DEF Guided, Stepping, Alive
  <2>2. Doc(doc') /\ resume' \in BOOLEAN /\ thread' \in {thread, "starting"}
        /\ thread \in {"none", "unstarted"}
    BY <1>6 DEF Signal, Guided, Shaped, Doc, Alive
  <2>3. Stepping'
    BY <1>1, <1>3, <2>1, <2>2 DEF Stepping
  <2> QED
    BY <1>4, <2>2, <2>3 DEF Guided
<1> QED
  BY <1>5, <1>6

LEMMA AbortGuides == Guided /\ (FlagAbort \/ WriteAbort \/ ReleaseAborted \/ Restart) => Guided'
<1> SUFFICES ASSUME Guided, FlagAbort \/ WriteAbort \/ ReleaseAborted \/ Restart PROVE Guided'
  OBVIOUS
<1>1. CASE FlagAbort
  <2>1. /\ abortFlag' = TRUE /\ resume' = TRUE
        /\ UNCHANGED <<mine, doc, thread, remembered, control, stepped>>
    BY <1>1 DEF FlagAbort, RequestOnly
  <2>2. Doomed'
    BY <2>1 DEF Doomed
  <2> QED
    BY <2>1, <2>2 DEF Guided, Shaped, Stepping, Fresh, AtWork
<1>2. CASE WriteAbort
  <2>1. /\ thread \in {"none", "unstarted"} /\ doc' = Ending(doc, "aborted")
        /\ UNCHANGED <<mine, thread, resume, remembered, abortFlag, control, stepped>>
    BY <1>2 DEF WriteAbort, RequestOnly, memoryVars, Alive
  <2>2. Doc(doc') /\ doc'.mode = doc.mode /\ doc'.status = "aborted"
    BY <2>1, GuidedFacts, Documents
  <2>3. Shaped'
    BY <2>1, <2>2 DEF Guided, Shaped, Doc
  <2>4. Stepping'
    BY <2>1, <2>2 DEF Guided, Stepping, Doomed
  <2> QED
    BY <2>3, <2>4 DEF Guided
<1>3. CASE ReleaseAborted
  <2>1. /\ remembered' = FALSE /\ abortFlag' = FALSE
        /\ UNCHANGED <<mine, doc, thread, resume, control, stepped>>
    BY <1>3 DEF ReleaseAborted, RequestOnly, Forgotten
  <2>2. Doomed'
    BY <2>1 DEF Doomed
  <2> QED
    BY <2>1, <2>2 DEF Guided, Shaped, Stepping, Fresh, AtWork
<1>4. CASE Restart
  <2>1. /\ doc' = IF Ended(doc) THEN doc ELSE [doc EXCEPT !.status = "incomplete"]
        /\ thread' = "none" /\ resume' = FALSE /\ remembered' = FALSE /\ abortFlag' = FALSE
        /\ control' = [pc |-> "idle", what |-> "none", seen |-> FirstDoc(plan)]
        /\ UNCHANGED <<mine, stepped>>
    BY <1>4 DEF Restart, RequestOnly, Forgotten
  <2>2. Doc(FirstDoc(plan))
    BY DEF FirstDoc, Doc, DocFields
  <2>3. Doc(doc') /\ doc'.mode = doc.mode
    BY <2>1, GuidedFacts, Documents
  <2>4. Shaped'
    BY <2>1, <2>2, <2>3, ZenonT(40) DEF Guided, Shaped, Doc
  <2>5. Doomed'
    BY <2>1 DEF Doomed
  <2>6. Stepping'
    BY <2>1, <2>3, <2>5, GuidedFacts DEF Stepping
  <2> QED
    BY <2>4, <2>6 DEF Guided
<1> QED
  BY <1>1, <1>2, <1>3, <1>4

LEMMA GuidedStays == Guided /\ [DebugNext]_debugVars => Guided'
<1> SUFFICES ASSUME Guided, [DebugNext]_debugVars PROVE Guided'
  OBVIOUS
<1>1. CASE Thread
  BY <1>1, LoadGuides, BeginGuides, FinishGuides, PassGuides, StopBeforeGuides, StartNodeGuides,
     NodeFailsGuides, StopInsideGuides, NodeDoneGuides, RestGuides DEF Thread
<1>2. CASE Launch
  BY <1>2, RestGuides
<1>3. CASE GoOn
  BY <1>3, WriteGuides, SignalGuides DEF GoOn
<1>4. CASE FlagPause \/ AskToPause \/ AskToAbort \/ UNCHANGED debugVars
  <2>1. UNCHANGED <<doc, mine, thread, resume, remembered, abortFlag, control, stepped>>
    BY <1>4 DEF FlagPause, AskToPause, AskToAbort, RequestOnly, memoryVars, debugVars
  <2> QED
    BY <2>1 DEF Guided, Shaped, Stepping, Doomed, Fresh, AtWork
<1>5. CASE Abort \/ Restart
  BY <1>5, AbortGuides DEF Abort
<1>6. CASE \E what \in {"continue", "step", "out"} : AskToGoOn(what)
  BY <1>6, AskGuides
<1> QED
  BY <1>1, <1>2, <1>3, <1>4, <1>5, <1>6 DEF DebugNext

\* A step completes at most one node, whatever pauses, aborts and restarts
\* cross it.
THEOREM StepsAreSingle == DebugSpec => []StepRunsOneNode
<1>1. Guided => StepRunsOneNode
  BY DEF Guided, Stepping, StepRunsOneNode
<1> QED
  BY <1>1, GuidedStarts, GuidedStays, PTL DEF DebugSpec

---------------------------------------------------------------------------
(* DebugSession: recursive functions and lists.                          *)

\* The functions that take n steps from s, and stay in the set S.
StepsOf(S, n) == [1 .. n -> [S -> S]]
Takes(f, S, s, n, move) ==
    f \in [0 .. n -> S] /\ f[0] = s /\ \A i \in 1 .. n : f[i] = move[i][f[i - 1]]

LEMMA Recursion ==
    ASSUME NEW S, NEW s \in S, NEW n \in Nat, NEW move \in StepsOf(S, n)
    PROVE  \E f : Takes(f, S, s, n, move)
<1> DEFINE T == {m \in Nat : m <= n => \E f : Takes(f, S, s, m, move)}
<1>1. 0 \in T
  <2>1. Takes([i \in 0 .. 0 |-> s], S, s, 0, move)
    BY DEF Takes
  <2> QED
    BY <2>1
<1>2. ASSUME NEW m \in Nat, m \in T PROVE m + 1 \in T
  <2> SUFFICES ASSUME m + 1 <= n PROVE \E f : Takes(f, S, s, m + 1, move)
    OBVIOUS
  <2>1. PICK f : Takes(f, S, s, m, move)
    BY <1>2
  <2> DEFINE x == move[m + 1][f[m]]
             g == [i \in 0 .. m + 1 |-> IF i <= m THEN f[i] ELSE x]
  <2>2. x \in S
    BY <2>1 DEF Takes, StepsOf
  <2> HIDE DEF x
  <2>3. g \in [0 .. m + 1 -> S] /\ g[0] = s
    BY <2>1, <2>2 DEF Takes
  <2>4. ASSUME NEW i \in 1 .. m + 1 PROVE g[i] = move[i][g[i - 1]]
    <3>1. i - 1 \in 0 .. m + 1 /\ i - 1 <= m /\ g[i - 1] = f[i - 1]
      OBVIOUS
    <3>2. CASE i <= m
      <4>1. i \in 1 .. m /\ g[i] = f[i]
        BY <3>2
      <4> QED
        BY <2>1, <3>1, <4>1 DEF Takes
    <3>3. CASE i = m + 1
      <4>1. g[i] = x /\ i - 1 = m
        BY <3>3
      <4> QED
        BY <3>1, <3>3, <4>1 DEF x
    <3> QED
      BY <3>2, <3>3
  <2> HIDE DEF g
  <2>5. Takes(g, S, s, m + 1, move)
    BY <2>3, <2>4 DEF Takes
  <2> QED
    BY <2>5
<1>3. T = Nat
  <2> HIDE DEF T
  <2>1. T \subseteq Nat
    BY DEF T
  <2> QED
    BY <1>1, <1>2, <2>1, Induction
<1>4. n \in T
  BY <1>3
<1> QED
  BY <1>4

\* Whatever takes these steps stays in the set.
LEMMA StepsStay ==
    ASSUME NEW S, NEW n \in Nat, NEW f, f[0] \in S,
           \A i \in 1 .. n : f[i - 1] \in S => f[i] \in S
    PROVE  \A i \in 0 .. n : f[i] \in S
<1> DEFINE T == {m \in Nat : m <= n => f[m] \in S}
<1>1. 0 \in T
  OBVIOUS
<1>2. ASSUME NEW m \in Nat, m \in T PROVE m + 1 \in T
  <2> SUFFICES ASSUME m + 1 <= n PROVE f[m + 1] \in S
    OBVIOUS
  <2>1. m + 1 \in 1 .. n /\ m + 1 - 1 = m /\ f[m] \in S
    BY <1>2
  <2> QED
    BY <2>1
<1>3. T = Nat
  <2> HIDE DEF T
  <2>1. T \subseteq Nat
    BY DEF T
  <2> QED
    BY <1>1, <1>2, <2>1, Induction
<1> QED
  BY <1>3

\* The schedules of a plan whose tokens have these modes.
TokensOf(p, G) == [node : PlanNodes(p), again : G]
EdgesOf(p) == [to : PlanNodes(p), back : BOOLEAN]
Schedules(p, G) ==
    [queue : Seq(TokensOf(p, G)), queued : SUBSET PlanNodes(p), done : Seq(PlanNodes(p)),
     arrived : SUBSET (PlanNodes(p) \X PlanNodes(p))]

\* The modes of the tokens that these edges send.
Sends(p, G, again, edges) ==
    again \in G /\ \A i \in DOMAIN edges : Looping(p, edges[i].to) => edges[i].back \in G

LEMMA PutTokenType ==
    ASSUME NEW p, NEW G, G \subseteq BOOLEAN, NEW s \in Schedules(p, G),
           NEW n \in PlanNodes(p), NEW again \in G
    PROVE  PutToken(s, n, again) \in Schedules(p, G) /\ PutToken(s, n, again).done = s.done
<1> DEFINE token == [node |-> n, again |-> again]
<1>1. token \in TokensOf(p, G) /\ again \in BOOLEAN
  BY DEF TokensOf
<1>2. Append(s.queue, token) \in Seq(TokensOf(p, G))
  BY <1>1 DEF Schedules
<1>3. again \/ token = [node |-> n, again |-> FALSE]
  BY <1>1
<1>4. CASE again
  <2>1. PutToken(s, n, again) = [s EXCEPT !.queue = Append(s.queue, token)]
    BY <1>1, <1>4 DEF PutToken
  <2> QED
    BY <1>2, <2>1 DEF Schedules
<1>5. CASE ~again /\ n \notin Executed(s) \cup s.queued
  <2>1. PutToken(s, n, again) = [s EXCEPT !.queue = Append(s.queue, token), !.queued = s.queued \cup {n}]
    BY <1>3, <1>5 DEF PutToken
  <2> QED
    BY <1>2, <2>1 DEF Schedules
<1>6. CASE ~again /\ n \in Executed(s) \cup s.queued
  BY <1>6 DEF PutToken
<1> QED
  BY <1>4, <1>5, <1>6

LEMMA FollowType ==
    ASSUME NEW p, NEW G, G \subseteq BOOLEAN, NEW s \in Schedules(p, G), NEW m \in PlanNodes(p),
           NEW edge \in EdgesOf(p), NEW again \in G, Looping(p, edge.to) => edge.back \in G
    PROVE  Follow(p, s, m, edge, again) \in Schedules(p, G)
           /\ Follow(p, s, m, edge, again).done = s.done
<1> DEFINE t == [s EXCEPT !.arrived = s.arrived \cup {<<m, edge.to>>}]
           mode == IF Looping(p, edge.to) THEN edge.back ELSE again
<1>1. t \in Schedules(p, G) /\ t.done = s.done /\ edge.to \in PlanNodes(p) /\ mode \in G
  BY DEF Schedules, EdgesOf
<1>2. Follow(p, s, m, edge, again) \in {t, PutToken(t, edge.to, mode)}
  <2> HIDE DEF mode
  <2> QED
    BY DEF Follow, mode
<1> HIDE DEF t, mode
<1> QED
  BY <1>1, <1>2, PutTokenType

\* The schedules between the edges of a node, which are followed one after the
\* other.
Between(f, p, G, s, m, edges, again) ==
    /\ f[0] = s /\ FollowAll(p, s, m, edges, again) = f[Len(edges)]
    /\ \A i \in 0 .. Len(edges) : f[i] \in Schedules(p, G)
    /\ \A i \in 1 .. Len(edges) : f[i] = Follow(p, f[i - 1], m, edges[i], again)

LEMMA FollowsEach ==
    ASSUME NEW p, NEW G, G \subseteq BOOLEAN, NEW s \in Schedules(p, G), NEW m \in PlanNodes(p),
           NEW edges \in Seq(EdgesOf(p)), NEW again, Sends(p, G, again, edges)
    PROVE  \E f : Between(f, p, G, s, m, edges, again)
<1> DEFINE n == Len(edges)
           X == Schedules(p, G)
           move == [i \in 1 .. n |-> [x \in X |-> Follow(p, x, m, edges[i], again)]]
           Grow(f) == [i \in 0 .. n |-> IF i = 0 THEN s ELSE Follow(p, f[i - 1], m, edges[i], again)]
           sent == CHOOSE f : f = Grow(f)
<1>1. n \in Nat
  OBVIOUS
<1>2. move \in [1 .. n -> [X -> X]]
  <2>1. ASSUME NEW x \in X, NEW i \in 1 .. n PROVE Follow(p, x, m, edges[i], again) \in X
    <3>1. edges[i] \in EdgesOf(p) /\ again \in G /\ (Looping(p, edges[i].to) => edges[i].back \in G)
      BY DEF Sends
    <3> QED
      BY <3>1, FollowType
  <2> HIDE DEF X, n
  <2> QED
    BY <2>1
<1>3. PICK f \in [0 .. n -> X] : f[0] = s /\ \A i \in 1 .. n : f[i] = move[i][f[i - 1]]
  <2>1. s \in X
    OBVIOUS
  <2>2. move \in StepsOf(X, n)
    BY <1>2 DEF StepsOf
  <2> HIDE DEF move, X, n
  <2>3. \E f : Takes(f, X, s, n, move)
    BY <1>1, <2>1, <2>2, Recursion
  <2> QED
    BY <2>3 DEF Takes
<1>4. \A i \in 1 .. n : f[i - 1] \in X /\ f[i] = Follow(p, f[i - 1], m, edges[i], again)
  <2> SUFFICES ASSUME NEW i \in 1 .. n
               PROVE  f[i - 1] \in X /\ f[i] = Follow(p, f[i - 1], m, edges[i], again)
    OBVIOUS
  <2>1. i - 1 \in 0 .. n
    BY <1>1
  <2>2. f[i - 1] \in X
    BY <1>3, <2>1
  <2>3. move[i][f[i - 1]] = Follow(p, f[i - 1], m, edges[i], again)
    <3> HIDE DEF X, n
    <3> QED
      BY <2>2
  <2> QED
    BY <1>3, <2>2, <2>3
<1>5. f = Grow(f)
  <2>1. ASSUME NEW i \in 0 .. n
        PROVE  f[i] = IF i = 0 THEN s ELSE Follow(p, f[i - 1], m, edges[i], again)
    <3>1. i = 0 \/ i \in 1 .. n
      BY <1>1
    <3> QED
      BY <1>3, <1>4, <3>1
  <2> HIDE DEF X, n
  <2> QED
    BY <1>3, <2>1
<1>6. sent = Grow(sent)
  BY <1>5
<1>7. sent[0] = s /\ \A i \in 1 .. n : sent[i] = Follow(p, sent[i - 1], m, edges[i], again)
  <2> HIDE DEF sent
  <2>1. 0 \in 0 .. n /\ \A i \in 1 .. n : i \in 0 .. n /\ i # 0
    BY <1>1
  <2> HIDE DEF n
  <2> QED
    BY <1>6, <2>1
<1>8. \A i \in 0 .. n : sent[i] \in X
  <2> HIDE DEF sent, X, n
  <2>1. ASSUME NEW i \in 1 .. n, sent[i - 1] \in X PROVE sent[i] \in X
    <3>1. sent[i] = Follow(p, sent[i - 1], m, edges[i], again)
      BY <1>7
    <3>2. move[i][sent[i - 1]] \in X
      BY <1>2, <2>1
    <3>3. move[i][sent[i - 1]] = Follow(p, sent[i - 1], m, edges[i], again)
      BY <2>1
    <3> QED
      BY <3>1, <3>2, <3>3
  <2>2. sent[0] \in X
    BY <1>7 DEF X
  <2> HIDE DEF move
  <2> QED
    BY <1>1, <2>1, <2>2, StepsStay
<1>9. FollowAll(p, s, m, edges, again) = sent[n]
  BY DEF FollowAll
<1>10. Between(sent, p, G, s, m, edges, again)
  <2> HIDE DEF sent
  <2> QED
    BY <1>7, <1>8, <1>9 DEF Between
<1> HIDE DEF sent
<1> QED
  BY <1>10

---------------------------------------------------------------------------
(* Plans without loops: how the schedule changes.                        *)

\* The mode of every token of a plan without loops.
Once == FALSE

\* The schedules of such a plan.
Plain(p) == Schedules(p, {Once})
NodesOf(list) == {list[i].node : i \in DOMAIN list}

\* Every node that is known is through or waits in the queue, once.
Tidy(s) ==
    /\ s.queued = Executed(s) \cup NodesOf(s.queue)
    /\ \A i, j \in DOMAIN s.queue : s.queue[i].node = s.queue[j].node => i = j
    /\ \A i \in DOMAIN s.queue : s.queue[i].node \notin Executed(s)

\* Schedules that go on alike.
Alike(s, t) ==
    /\ s.queue = t.queue /\ s.done = t.done /\ s.arrived = t.arrived
    /\ Executed(s) \cup s.queued = Executed(t) \cup t.queued

\* The hypotheses of most lemmas below, and of those about a list of edges.
Putting(p, s, n) == s \in Plain(p) /\ n \in PlanNodes(p)
Sending(p, s, m, edge) ==
    Simple(p) /\ s \in Plain(p) /\ m \in PlanNodes(p) /\ edge \in EdgesOf(p)
Serving(p, s, m, edges) ==
    Simple(p) /\ s \in Plain(p) /\ m \in PlanNodes(p) /\ edges \in Seq(EdgesOf(p))

LEMMA AppendNodes ==
    ASSUME NEW p, NEW q \in Seq(TokensOf(p, {Once})), NEW n \in PlanNodes(p)
    PROVE  LET r == Append(q, [node |-> n, again |-> Once])
           IN  /\ NodesOf(r) = NodesOf(q) \cup {n} /\ DOMAIN r = 1 .. Len(q) + 1
               /\ DOMAIN q = 1 .. Len(q) /\ Len(q) \in Nat
               /\ \A i \in 1 .. Len(q) : r[i] = q[i]
               /\ r[Len(q) + 1].node = n
<1> DEFINE token == [node |-> n, again |-> Once]
           r == Append(q, token)
<1>1. token \in TokensOf(p, {Once}) /\ token.node = n
  BY DEF TokensOf
<1> HIDE DEF token
<1>2. /\ DOMAIN r = 1 .. Len(q) + 1 /\ DOMAIN q = 1 .. Len(q) /\ Len(q) \in Nat
      /\ \A i \in 1 .. Len(q) : r[i] = q[i]
      /\ r[Len(q) + 1] = token
  BY <1>1
<1> HIDE DEF r
<1>3. NodesOf(r) = NodesOf(q) \cup {n}
  <2>1. ASSUME NEW x \in NodesOf(r) PROVE x \in NodesOf(q) \cup {n}
    <3>1. PICK i \in 1 .. Len(q) + 1 : x = r[i].node
      BY <1>2, <2>1 DEF NodesOf
    <3>2. CASE i \in 1 .. Len(q)
      BY <1>2, <3>1, <3>2 DEF NodesOf
    <3>3. CASE i = Len(q) + 1
      BY <1>1, <1>2, <3>1, <3>3
    <3> QED
      BY <1>2, <3>2, <3>3
  <2>2. ASSUME NEW x \in NodesOf(q) PROVE x \in NodesOf(r)
    <3>1. PICK i \in 1 .. Len(q) : x = q[i].node
      BY <1>2, <2>2 DEF NodesOf
    <3>2. i \in DOMAIN r /\ x = r[i].node
      BY <1>2, <3>1
    <3> QED
      BY <3>2 DEF NodesOf
  <2>3. n \in NodesOf(r)
    <3>1. Len(q) + 1 \in DOMAIN r /\ r[Len(q) + 1].node = n
      BY <1>1, <1>2
    <3> QED
      BY <3>1 DEF NodesOf
  <2> QED
    BY <2>1, <2>2, <2>3
<1> QED
  BY <1>1, <1>2, <1>3 DEF token, r

LEMMA PutTokenTidy ==
    ASSUME NEW p, NEW s, NEW n, Putting(p, s, n), Tidy(s)
    PROVE  /\ Tidy(PutToken(s, n, Once)) /\ PutToken(s, n, Once) \in Plain(p)
           /\ s.queued \subseteq PutToken(s, n, Once).queued
           /\ PutToken(s, n, Once).done = s.done
<1> SUFFICES Tidy(PutToken(s, n, Once)) /\ s.queued \subseteq PutToken(s, n, Once).queued
  <2>1. {Once} \subseteq BOOLEAN /\ Once \in {Once} /\ s \in Schedules(p, {Once}) /\ n \in PlanNodes(p)
    BY DEF Putting, Plain, Once
  <2>2. PutToken(s, n, Once) \in Schedules(p, {Once}) /\ PutToken(s, n, Once).done = s.done
    BY <2>1, PutTokenType
  <2> QED
    BY <2>2 DEF Plain
<1> USE DEF Putting
<1> DEFINE r == Append(s.queue, [node |-> n, again |-> Once])
           t == PutToken(s, n, Once)
<1>1. CASE n \in Executed(s) \cup s.queued
  BY <1>1 DEF PutToken, Once
<1>2. CASE n \notin Executed(s) \cup s.queued
  <2>1. t = [s EXCEPT !.queue = r, !.queued = s.queued \cup {n}]
    BY <1>2 DEF PutToken, Once
  <2>2. s.queue \in Seq(TokensOf(p, {Once}))
    BY DEF Plain, Schedules
  <2>3. /\ NodesOf(r) = NodesOf(s.queue) \cup {n} /\ DOMAIN r = 1 .. Len(s.queue) + 1
        /\ DOMAIN s.queue = 1 .. Len(s.queue) /\ Len(s.queue) \in Nat
        /\ \A i \in 1 .. Len(s.queue) : r[i] = s.queue[i]
        /\ r[Len(s.queue) + 1].node = n
    BY <2>2, AppendNodes
  <2> HIDE DEF r, t
  <2>4. t.queue = r /\ t.queued = s.queued \cup {n} /\ t.done = s.done /\ Executed(t) = Executed(s)
    BY <2>1 DEF Plain, Schedules, Executed
  <2>5. \A i \in 1 .. Len(s.queue) : s.queue[i].node \in s.queued
    BY <2>3 DEF Tidy, NodesOf
  <2>6. ASSUME NEW i \in DOMAIN r, NEW j \in DOMAIN r, r[i].node = r[j].node PROVE i = j
    <3>1. CASE i \in 1 .. Len(s.queue) /\ j \in 1 .. Len(s.queue)
      BY <2>3, <2>6, <3>1 DEF Tidy
    <3>2. CASE i = Len(s.queue) + 1 /\ j \in 1 .. Len(s.queue)
      BY <1>2, <2>3, <2>5, <2>6, <3>2
    <3>3. CASE j = Len(s.queue) + 1 /\ i \in 1 .. Len(s.queue)
      BY <1>2, <2>3, <2>5, <2>6, <3>3
    <3> QED
      BY <2>3, <3>1, <3>2, <3>3
  <2>7. ASSUME NEW i \in DOMAIN r PROVE r[i].node \notin Executed(s)
    <3>1. CASE i \in 1 .. Len(s.queue)
      BY <2>3, <3>1 DEF Tidy
    <3>2. CASE i = Len(s.queue) + 1
      BY <1>2, <2>3, <3>2
    <3> QED
      BY <2>3, <3>1, <3>2
  <2>8. t.queued = Executed(t) \cup NodesOf(t.queue)
    BY <2>3, <2>4 DEF Tidy
  <2> QED
    BY <2>4, <2>6, <2>7, <2>8 DEF Tidy, t
<1> QED
  BY <1>1, <1>2

LEMMA PutTokenAlike ==
    ASSUME NEW p, NEW s, NEW t, NEW n, Putting(p, s, n), Putting(p, t, n), Alike(s, t)
    PROVE  Alike(PutToken(s, n, Once), PutToken(t, n, Once))
<1> USE DEF Putting
<1>1. CASE n \in Executed(s) \cup s.queued
  BY <1>1 DEF PutToken, Alike, Once
<1>2. CASE n \notin Executed(s) \cup s.queued
  <2> DEFINE r == Append(s.queue, [node |-> n, again |-> Once])
             x == [s EXCEPT !.queue = r, !.queued = s.queued \cup {n}]
             y == [t EXCEPT !.queue = r, !.queued = t.queued \cup {n}]
  <2>1. PutToken(s, n, Once) = x /\ PutToken(t, n, Once) = y
    BY <1>2 DEF PutToken, Alike, Once
  <2> HIDE DEF r
  <2>2. /\ x.queue = r /\ y.queue = r /\ x.done = s.done /\ y.done = t.done
        /\ x.arrived = s.arrived /\ y.arrived = t.arrived
        /\ x.queued = s.queued \cup {n} /\ y.queued = t.queued \cup {n}
    BY DEF Plain, Schedules
  <2> HIDE DEF x, y
  <2>3. Executed(x) = Executed(s) /\ Executed(y) = Executed(t)
    BY <2>2 DEF Executed
  <2> QED
    BY <2>1, <2>2, <2>3 DEF Alike
<1> QED
  BY <1>1, <1>2

\* The schedule with a token of m noted as arrived, and whether the edge's
\* node has all it waits for.
Noted(s, m, edge) == [s EXCEPT !.arrived = s.arrived \cup {<<m, edge.to>>}]
Ready(p, s, edge) == \A w \in Awaits(p, edge.to) : <<w, edge.to>> \in s.arrived

\* An edge of a plan without loops.
LEMMA FollowsPlainly ==
    ASSUME NEW p, NEW s, NEW m, NEW edge, Sending(p, s, m, edge)
    PROVE  /\ Follow(p, s, m, edge, Once) = IF Ready(p, Noted(s, m, edge), edge)
                                             THEN PutToken(Noted(s, m, edge), edge.to, Once)
                                             ELSE Noted(s, m, edge)
           /\ Putting(p, Noted(s, m, edge), edge.to)
           /\ Noted(s, m, edge).queue = s.queue /\ Noted(s, m, edge).queued = s.queued
           /\ Noted(s, m, edge).done = s.done /\ Executed(Noted(s, m, edge)) = Executed(s)
           /\ Noted(s, m, edge).arrived = s.arrived \cup {<<m, edge.to>>}
<1>1. edge.to \in PlanNodes(p) /\ ~Looping(p, edge.to) /\ s \in Plain(p) /\ m \in PlanNodes(p)
  BY DEF EdgesOf, Simple, Sending
<1>2. LET t == Noted(s, m, edge)
      IN  /\ t \in Plain(p) /\ t.queue = s.queue /\ t.queued = s.queued /\ t.done = s.done
          /\ t.arrived = s.arrived \cup {<<m, edge.to>>}
  BY <1>1 DEF Plain, Schedules, Noted
<1>3. Executed(Noted(s, m, edge)) = Executed(s)
  BY <1>2 DEF Executed
<1>4. Follow(p, s, m, edge, Once) = IF Ready(p, Noted(s, m, edge), edge)
                                     THEN PutToken(Noted(s, m, edge), edge.to, Once)
                                     ELSE Noted(s, m, edge)
  BY <1>1 DEF Follow, Noted, Ready
<1> QED
  BY <1>1, <1>2, <1>3, <1>4 DEF Putting

LEMMA FollowTidy ==
    ASSUME NEW p, NEW s, NEW m, NEW edge, Sending(p, s, m, edge), Tidy(s)
    PROVE  /\ Tidy(Follow(p, s, m, edge, Once)) /\ Follow(p, s, m, edge, Once).done = s.done
           /\ s.queued \subseteq Follow(p, s, m, edge, Once).queued
<1> DEFINE t == Noted(s, m, edge)
<1>1. /\ Follow(p, s, m, edge, Once) = IF Ready(p, t, edge) THEN PutToken(t, edge.to, Once) ELSE t
      /\ Putting(p, t, edge.to) /\ t.queue = s.queue /\ t.queued = s.queued
      /\ t.done = s.done /\ Executed(t) = Executed(s)
      /\ t.arrived = s.arrived \cup {<<m, edge.to>>}
  BY FollowsPlainly
<1>2. Tidy(t)
  BY <1>1 DEF Tidy
<1>3. /\ Tidy(PutToken(t, edge.to, Once)) /\ PutToken(t, edge.to, Once) \in Plain(p)
      /\ t.queued \subseteq PutToken(t, edge.to, Once).queued
      /\ PutToken(t, edge.to, Once).done = t.done
  BY <1>1, <1>2, PutTokenTidy
<1> HIDE DEF t
<1> QED
  BY <1>1, <1>2, <1>3

LEMMA FollowAlike ==
    ASSUME NEW p, NEW s, NEW t, NEW m, NEW edge, Sending(p, s, m, edge), Sending(p, t, m, edge),
           Alike(s, t)
    PROVE  Alike(Follow(p, s, m, edge, Once), Follow(p, t, m, edge, Once))
<1> DEFINE x == Noted(s, m, edge)
           y == Noted(t, m, edge)
<1>1. /\ Follow(p, s, m, edge, Once) = IF Ready(p, x, edge) THEN PutToken(x, edge.to, Once) ELSE x
      /\ Putting(p, x, edge.to) /\ x.queue = s.queue /\ x.queued = s.queued
      /\ x.done = s.done /\ Executed(x) = Executed(s)
      /\ x.arrived = s.arrived \cup {<<m, edge.to>>}
  BY FollowsPlainly
<1>2. /\ Follow(p, t, m, edge, Once) = IF Ready(p, y, edge) THEN PutToken(y, edge.to, Once) ELSE y
      /\ Putting(p, y, edge.to) /\ y.queue = t.queue /\ y.queued = t.queued
      /\ y.done = t.done /\ Executed(y) = Executed(t)
      /\ y.arrived = t.arrived \cup {<<m, edge.to>>}
  BY FollowsPlainly
<1> HIDE DEF x, y
<1>3. Alike(x, y)
  BY <1>1, <1>2 DEF Alike
<1>4. Alike(PutToken(x, edge.to, Once), PutToken(y, edge.to, Once))
  BY <1>1, <1>2, <1>3, PutTokenAlike
<1>5. Ready(p, x, edge) <=> Ready(p, y, edge)
  BY <1>3 DEF Alike, Ready
<1> QED
  BY <1>1, <1>2, <1>3, <1>4, <1>5

LEMMA PlainlyEach ==
    ASSUME NEW p, NEW s, NEW m, NEW edges, Serving(p, s, m, edges)
    PROVE  \E f : Between(f, p, {Once}, s, m, edges, Once)
<1> USE DEF Serving
<1>1. Sends(p, {Once}, Once, edges)
  <2>1. \A i \in DOMAIN edges : edges[i] \in EdgesOf(p)
    OBVIOUS
  <2> QED
    BY <2>1 DEF Sends, Simple, EdgesOf
<1>2. {Once} \subseteq BOOLEAN
  BY DEF Once
<1> QED
  BY <1>1, <1>2, FollowsEach DEF Plain

\* The successors of a node are queued.
LEMMA FollowAllTidy ==
    ASSUME NEW p, NEW s, NEW m, NEW edges, Serving(p, s, m, edges), Tidy(s)
    PROVE  LET t == FollowAll(p, s, m, edges, Once)
           IN  t \in Plain(p) /\ Tidy(t) /\ t.done = s.done /\ s.queued \subseteq t.queued
<1> DEFINE t == FollowAll(p, s, m, edges, Once)
           n == Len(edges)
           Fine == {x \in Plain(p) : Tidy(x) /\ x.done = s.done /\ s.queued \subseteq x.queued}
<1>2. PICK f : Between(f, p, {Once}, s, m, edges, Once)
  BY PlainlyEach
<1>20. /\ f[0] = s /\ t = f[n]
       /\ \A i \in 0 .. n : f[i] \in Plain(p)
       /\ \A i \in 1 .. n : f[i] = Follow(p, f[i - 1], m, edges[i], Once)
  BY <1>2 DEF Between, Plain
<1>3. n \in Nat /\ \A i \in 1 .. n : edges[i] \in EdgesOf(p)
  BY DEF Serving
<1> HIDE DEF n, t
<1>4. f[0] \in Fine
  BY <1>20 DEF Serving
<1>5. ASSUME NEW i \in 1 .. n, f[i - 1] \in Fine PROVE f[i] \in Fine
  <2> DEFINE x == f[i - 1]
  <2>1. /\ x \in Plain(p) /\ Tidy(x) /\ x.done = s.done /\ s.queued \subseteq x.queued
        /\ f[i] = Follow(p, x, m, edges[i], Once) /\ edges[i] \in EdgesOf(p)
    BY <1>20, <1>3, <1>5
  <2> HIDE DEF x
  <2>2. Sending(p, x, m, edges[i])
    BY <2>1 DEF Sending, Serving
  <2>3. /\ Tidy(Follow(p, x, m, edges[i], Once)) /\ Follow(p, x, m, edges[i], Once).done = x.done
        /\ x.queued \subseteq Follow(p, x, m, edges[i], Once).queued
    BY <2>1, <2>2, FollowTidy
  <2>4. f[i] \in Plain(p)
    BY <1>20, <1>3
  <2> QED
    BY <2>1, <2>3, <2>4
<1> HIDE DEF Fine
<1>6. \A i \in 0 .. n : f[i] \in Fine
  BY <1>3, <1>4, <1>5, StepsStay
<1>7. t \in Fine
  BY <1>20, <1>3, <1>6
<1> QED
  BY <1>7 DEF Fine, t

LEMMA FollowAllAlike ==
    ASSUME NEW p, NEW s, NEW t, NEW m, NEW edges, Serving(p, s, m, edges), Serving(p, t, m, edges),
           Alike(s, t)
    PROVE  /\ Alike(FollowAll(p, s, m, edges, Once), FollowAll(p, t, m, edges, Once))
           /\ FollowAll(p, s, m, edges, Once) \in Plain(p)
<1> DEFINE x == FollowAll(p, s, m, edges, Once)
           y == FollowAll(p, t, m, edges, Once)
           n == Len(edges)
<1>1. PICK f : Between(f, p, {Once}, s, m, edges, Once)
  BY PlainlyEach
<1>2. /\ f[0] = s /\ x = f[n]
      /\ \A i \in 0 .. n : f[i] \in Plain(p)
      /\ \A i \in 1 .. n : f[i] = Follow(p, f[i - 1], m, edges[i], Once)
  BY <1>1 DEF Between, Plain
<1>30. PICK g : Between(g, p, {Once}, t, m, edges, Once)
  BY PlainlyEach
<1>3. /\ g[0] = t /\ y = g[n]
      /\ \A i \in 0 .. n : g[i] \in Plain(p)
      /\ \A i \in 1 .. n : g[i] = Follow(p, g[i - 1], m, edges[i], Once)
  BY <1>30 DEF Between, Plain
<1>4. n \in Nat /\ \A i \in 1 .. n : edges[i] \in EdgesOf(p)
  BY DEF Serving
<1> DEFINE T == {i \in 0 .. n : Alike(f[i], g[i])}
           h == [i \in 0 .. n |-> i]
<1> HIDE DEF n, x, y
<1>5. h[0] \in T
  BY <1>2, <1>3, <1>4
<1>6. ASSUME NEW i \in 1 .. n, h[i - 1] \in T PROVE h[i] \in T
  <2>1. i - 1 \in 0 .. n /\ i \in 0 .. n /\ h[i] = i /\ h[i - 1] = i - 1
    BY <1>4
  <2>2. Alike(f[i - 1], g[i - 1]) /\ f[i - 1] \in Plain(p) /\ g[i - 1] \in Plain(p)
    BY <1>2, <1>3, <1>6, <2>1
  <2>3. Sending(p, f[i - 1], m, edges[i]) /\ Sending(p, g[i - 1], m, edges[i])
    BY <1>4, <2>2 DEF Sending, Serving
  <2>4. Alike(Follow(p, f[i - 1], m, edges[i], Once), Follow(p, g[i - 1], m, edges[i], Once))
    BY <2>2, <2>3, FollowAlike
  <2>5. Alike(f[i], g[i])
    BY <1>2, <1>3, <2>4
  <2> QED
    BY <2>1, <2>5
<1>7. \A i \in 0 .. n : h[i] \in T
  <2> HIDE DEF T, h
  <2> QED
    BY <1>4, <1>5, <1>6, StepsStay
<1>8. Alike(f[n], g[n]) /\ f[n] \in Plain(p)
  <2>1. n \in 0 .. n
    BY <1>4
  <2> QED
    BY <1>2, <1>7, <2>1
<1> QED
  BY <1>2, <1>3, <1>4, <1>8 DEF x, y

\* A node is through: it is done, and its successors are queued.
Done(s, n) == [s EXCEPT !.done = Append(s.done, n)]

LEMMA DoneIsThere ==
    ASSUME NEW p, NEW s, NEW n, Putting(p, s, n)
    PROVE  /\ Done(s, n) \in Plain(p) /\ Executed(Done(s, n)) = Executed(s) \cup {n}
           /\ Done(s, n).queue = s.queue /\ Done(s, n).queued = s.queued
           /\ Done(s, n).arrived = s.arrived /\ Done(s, n).done = Append(s.done, n)
<1>1. s \in Plain(p) /\ n \in PlanNodes(p) /\ s.done \in Seq(PlanNodes(p))
  BY DEF Putting, Plain, Schedules
<1>2. Append(s.done, n) \in Seq(PlanNodes(p))
  BY <1>1
<1>3. LET t == Done(s, n)
      IN  /\ t \in Plain(p) /\ t.queue = s.queue /\ t.queued = s.queued
          /\ t.arrived = s.arrived /\ t.done = Append(s.done, n)
  BY <1>1, <1>2 DEF Done, Plain, Schedules
<1>4. {Append(s.done, n)[i] : i \in DOMAIN Append(s.done, n)} = {s.done[i] : i \in DOMAIN s.done} \cup {n}
  <2> DEFINE d == s.done
             e == Append(d, n)
  <2>1. /\ Len(d) \in Nat /\ DOMAIN d = 1 .. Len(d) /\ DOMAIN e = 1 .. Len(d) + 1
        /\ \A i \in 1 .. Len(d) : e[i] = d[i]
        /\ e[Len(d) + 1] = n
    BY <1>1
  <2> HIDE DEF d, e
  <2>2. \A i \in DOMAIN d : i \in DOMAIN e /\ e[i] = d[i]
    BY <2>1
  <2>3. \A i \in DOMAIN e : (i \in DOMAIN d /\ e[i] = d[i]) \/ e[i] = n
    BY <2>1
  <2>4. Len(d) + 1 \in DOMAIN e
    BY <2>1
  <2>5. {e[i] : i \in DOMAIN e} = {d[i] : i \in DOMAIN d} \cup {n}
    BY <2>1, <2>2, <2>3, <2>4
  <2> QED
    BY <2>5 DEF d, e
<1>5. Executed(Done(s, n)) = Executed(s) \cup {n}
  BY <1>3, <1>4 DEF Executed
<1> QED
  BY <1>3, <1>5

\* The next token leaves the queue.
LEMMA DispatchTidy ==
    ASSUME NEW p, NEW s \in Plain(p), Tidy(s)
    PROVE  LET at == NextAt(s)
               t  == Dispatched(s)
           IN  /\ at \in [node : PlanNodes(p) \cup {Nowhere}, again : {Once}]
               /\ t \in Plain(p) /\ t.queued = s.queued /\ t.done = s.done /\ t.arrived = s.arrived
               /\ Executed(t) = Executed(s)
               /\ s.queue = <<>> => at.node = Nowhere /\ t.queue = <<>>
               /\ s.queue # <<>> =>
                    /\ at.node \in PlanNodes(p)
                    /\ NodesOf(s.queue) = NodesOf(t.queue) \cup {at.node}
                    /\ at.node \notin Executed(s)
               /\ \A i, j \in DOMAIN t.queue : t.queue[i].node = t.queue[j].node => i = j
               /\ \A i \in DOMAIN t.queue :
                    t.queue[i].node \notin Executed(s) /\ (s.queue # <<>> => t.queue[i].node # at.node)
<1> DEFINE at == NextAt(s)
           t  == Dispatched(s)
           q  == s.queue
<1>1. q \in Seq(TokensOf(p, {Once}))
  BY DEF Plain, Schedules
<1>2. CASE q = <<>>
  <2>1. at = [node |-> Nowhere, again |-> FALSE] /\ t = [s EXCEPT !.queue = <<>>]
    BY <1>2 DEF NextAt, Dispatched
  <2>2. at \in [node : PlanNodes(p) \cup {Nowhere}, again : {Once}] /\ at.node = Nowhere
    BY <2>1 DEF Once
  <2>3. /\ t \in Plain(p) /\ t.queued = s.queued /\ t.done = s.done /\ t.arrived = s.arrived
        /\ t.queue = <<>>
    BY <1>2, <2>1 DEF Plain, Schedules
  <2>4. DOMAIN t.queue = {}
    BY <2>3
  <2> HIDE DEF at, t
  <2>5. Executed(t) = Executed(s)
    BY <2>3 DEF Executed
  <2> QED
    BY <1>2, <2>2, <2>3, <2>4, <2>5 DEF at, t
<1>3. CASE q # <<>>
  <2>1. at = q[1] /\ t = [s EXCEPT !.queue = Tail(q)]
    BY <1>1, <1>3 DEF NextAt, Dispatched
  <2>2. /\ Len(q) \in Nat /\ Len(q) >= 1 /\ DOMAIN q = 1 .. Len(q) /\ q[1] \in TokensOf(p, {Once})
        /\ Tail(q) \in Seq(TokensOf(p, {Once})) /\ DOMAIN Tail(q) = 1 .. Len(q) - 1
        /\ \A i \in 1 .. Len(q) - 1 : Tail(q)[i] = q[i + 1]
    BY <1>1, <1>3
  <2>3. /\ t \in Plain(p) /\ t.queued = s.queued /\ t.done = s.done /\ t.arrived = s.arrived
        /\ t.queue = Tail(q)
    BY <2>1, <2>2 DEF Plain, Schedules
  <2>4. at \in [node : PlanNodes(p) \cup {Nowhere}, again : {Once}] /\ at.node \in PlanNodes(p)
    BY <2>1, <2>2 DEF TokensOf
  <2> HIDE DEF at, t
  <2>5. Executed(t) = Executed(s)
    BY <2>3 DEF Executed
  <2>6. \A i \in DOMAIN t.queue : /\ i + 1 \in DOMAIN q /\ t.queue[i] = q[i + 1] /\ i + 1 # 1
                                  /\ i \in Nat
    BY <2>2, <2>3
  <2>7. 1 \in DOMAIN q /\ \A i \in DOMAIN q : i = 1 \/ (i - 1 \in DOMAIN t.queue /\ t.queue[i - 1] = q[i])
    BY <2>2, <2>3
  <2>8. NodesOf(q) = NodesOf(t.queue) \cup {at.node}
    <3>1. ASSUME NEW x \in NodesOf(q) PROVE x \in NodesOf(t.queue) \cup {at.node}
      <4>1. PICK i \in DOMAIN q : x = q[i].node
        BY <3>1 DEF NodesOf
      <4>2. CASE i = 1
        BY <2>1, <4>1, <4>2
      <4>3. CASE i - 1 \in DOMAIN t.queue /\ t.queue[i - 1] = q[i]
        BY <4>1, <4>3 DEF NodesOf
      <4> QED
        BY <2>7, <4>2, <4>3
    <3>2. ASSUME NEW x \in NodesOf(t.queue) PROVE x \in NodesOf(q)
      <4>1. PICK i \in DOMAIN t.queue : x = t.queue[i].node
        BY <3>2 DEF NodesOf
      <4> QED
        BY <2>6, <4>1 DEF NodesOf
    <3>3. at.node \in NodesOf(q)
      BY <2>1, <2>7 DEF NodesOf
    <3> QED
      BY <3>1, <3>2, <3>3
  <2>9. \A i, j \in DOMAIN t.queue : t.queue[i].node = t.queue[j].node => i = j
    <3> SUFFICES ASSUME NEW i \in DOMAIN t.queue, NEW j \in DOMAIN t.queue,
                        t.queue[i].node = t.queue[j].node
                 PROVE  i = j
      OBVIOUS
    <3>1. i + 1 = j + 1
      BY <2>6 DEF Tidy
    <3> QED
      BY <2>6, <3>1
  <2>10. \A i \in DOMAIN t.queue : t.queue[i].node \notin Executed(s) /\ t.queue[i].node # at.node
    BY <2>1, <2>6, <2>7 DEF Tidy
  <2>11. at.node \notin Executed(s)
    BY <2>1, <2>7 DEF Tidy
  <2> QED
    BY <1>3, <2>3, <2>4, <2>5, <2>8, <2>9, <2>10, <2>11 DEF at, t
<1> QED
  BY <1>2, <1>3

---------------------------------------------------------------------------
(* The run of such a plan that nobody disturbs.                          *)

\* Where an undisturbed run may stand: every known node is through, waits in
\* the queue or is next, and only one of these.
Regular(p, x) ==
    /\ x.s.queued = Executed(x.s) \cup NodesOf(x.s.queue) \cup ({x.at.node} \ {Nowhere})
    /\ \A i, j \in DOMAIN x.s.queue : x.s.queue[i].node = x.s.queue[j].node => i = j
    /\ \A i \in DOMAIN x.s.queue : x.s.queue[i].node \notin Executed(x.s) \cup {x.at.node}
    /\ x.at.node \notin Executed(x.s)
    /\ x.at.node = Nowhere => x.s.queue = <<>>
    /\ p.start \in x.s.queued
    /\ \A i, j \in DOMAIN x.s.done : x.s.done[i] = x.s.done[j] => i = j

Places(p) == [node : PlanNodes(p) \cup {Nowhere}, again : {Once}]
Turns(p) == {x \in [at : Places(p), turned : [PlanNodes(p) -> Nat], s : Plain(p)] : Regular(p, x)}

Plainly(p) == PlanType(p) /\ Simple(p)

LEMMA FirstIsTurn ==
    ASSUME NEW p, Plainly(p) PROVE FirstTurn(p) \in Turns(p)
<1> DEFINE x == FirstTurn(p)
<1>1. p.start \in PlanNodes(p) /\ Nowhere \notin PlanNodes(p)
  BY DEF Plainly, PlanType
<1>2. /\ x.at = [node |-> p.start, again |-> FALSE] /\ x.turned = [n \in PlanNodes(p) |-> 0]
      /\ x.s = [queue |-> <<>>, queued |-> {p.start}, done |-> <<>>, arrived |-> {}]
      /\ x = [at |-> x.at, turned |-> x.turned, s |-> x.s]
  BY DEF FirstTurn, EmptySchedule
<1> HIDE DEF x
<1>3. x.at \in Places(p) /\ x.turned \in [PlanNodes(p) -> Nat]
  BY <1>1, <1>2 DEF Places, Once
<1>4. x.s \in Plain(p)
  BY <1>1, <1>2 DEF Plain, Schedules
<1>5. Executed(x.s) = {} /\ NodesOf(x.s.queue) = {}
  BY <1>2 DEF Executed, NodesOf
<1>6. Regular(p, x)
  <2>1. /\ x.s.queued = {p.start} /\ x.at.node = p.start
        /\ DOMAIN x.s.queue = {} /\ DOMAIN x.s.done = {}
    BY <1>2
  <2>2. x.at.node # Nowhere
    BY <1>1, <2>1
  <2> QED
    BY <1>5, <2>1, <2>2 DEF Regular
<1> QED
  BY <1>2, <1>3, <1>4, <1>6 DEF Turns, x

\* What a schedule becomes when this node is through.
Served(p, s, n) == FollowAll(p, Done(s, n), n, p.out[n], Once)

LEMMA ThroughPlainly ==
    ASSUME NEW p, NEW s, NEW n, Plainly(p), Putting(p, s, n), NEW turned
    PROVE  /\ Through(p, s, n, Once, turned) = Served(p, s, n)
           /\ Serving(p, Done(s, n), n, p.out[n])
<1>1. n \in PlanNodes(p) /\ ~Looping(p, n) /\ p.out[n] \in Seq(EdgesOf(p))
  BY DEF Plainly, Putting, Simple, PlanType, EdgesOf
<1>2. Through(p, s, n, Once, turned) = FollowAll(p, Done(s, n), n, p.out[n], Once)
  BY <1>1 DEF Through, Done
<1>3. Done(s, n) \in Plain(p)
  BY DoneIsThere DEF Putting
<1> QED
  BY <1>1, <1>2, <1>3 DEF Served, Serving, Plainly

\* A node of the run is through.
LEMMA TurnIsThrough ==
    ASSUME NEW p, NEW x, Plainly(p), x \in Turns(p), x.at.node # Nowhere
    PROVE  LET n == x.at.node
               t == Served(p, x.s, n)
           IN  /\ Putting(p, x.s, n) /\ x.at.again = Once
               /\ t \in Plain(p) /\ Tidy(t) /\ t.done = Append(x.s.done, n)
               /\ p.start \in t.queued
               /\ NextTurn(p, x).at = NextAt(t) /\ NextTurn(p, x).s = Dispatched(t)
               /\ NextTurn(p, x) = [at |-> NextAt(t), s |-> Dispatched(t),
                                    turned |-> [x.turned EXCEPT ![n] = x.turned[n] + 1]]
<1> DEFINE n == x.at.node
           t == Served(p, x.s, n)
<1>1. /\ Putting(p, x.s, n) /\ x.at.again = Once /\ Regular(p, x)
  BY DEF Turns, Putting, Places
<1>2. Tidy(Done(x.s, n)) /\ p.start \in Done(x.s, n).queued /\ Done(x.s, n).done = Append(x.s.done, n)
  <2>1. /\ Done(x.s, n) \in Plain(p) /\ Executed(Done(x.s, n)) = Executed(x.s) \cup {n}
        /\ Done(x.s, n).queue = x.s.queue /\ Done(x.s, n).queued = x.s.queued
        /\ Done(x.s, n).arrived = x.s.arrived /\ Done(x.s, n).done = Append(x.s.done, n)
    <3>1. Putting(p, x.s, n)
      BY <1>1
    <3> HIDE DEF n
    <3> QED
      BY <3>1, DoneIsThere
  <2> QED
    BY <1>1, <2>1 DEF Tidy, Regular
<1>3. Serving(p, Done(x.s, n), n, p.out[n])
  BY <1>1, ThroughPlainly
<1>4. t \in Plain(p) /\ Tidy(t) /\ t.done = Append(x.s.done, n) /\ p.start \in t.queued
  BY <1>2, <1>3, FollowAllTidy DEF Served
<1>5. Through(p, x.s, n, x.at.again, x.turned[n]) = t
  BY <1>1, ThroughPlainly
<1>6. NextTurn(p, x) = [at |-> NextAt(t), s |-> Dispatched(t),
                        turned |-> [x.turned EXCEPT ![n] = x.turned[n] + 1]]
  <2>1. ~(~x.at.again /\ n \in Executed(x.s))
    BY <1>1 DEF Regular
  <2> HIDE DEF t
  <2> QED
    BY <1>5, <2>1 DEF NextTurn
<1> HIDE DEF t
<1>7. NextTurn(p, x).at = NextAt(t) /\ NextTurn(p, x).s = Dispatched(t)
  BY <1>6
<1> QED
  BY <1>1, <1>4, <1>6, <1>7 DEF t

LEMMA TurnGoesOn ==
    ASSUME NEW p, NEW x, Plainly(p), x \in Turns(p) PROVE NextTurn(p, x) \in Turns(p)
<1>1. CASE x.at.node = Nowhere
  BY <1>1 DEF NextTurn
<1>2. CASE x.at.node # Nowhere
  <2> DEFINE n == x.at.node
             t == Served(p, x.s, n)
             at == NextAt(t)
             v == Dispatched(t)
             y == NextTurn(p, x)
  <2>1. /\ Putting(p, x.s, n) /\ t \in Plain(p) /\ Tidy(t) /\ t.done = Append(x.s.done, n)
        /\ p.start \in t.queued
        /\ y = [at |-> at, s |-> v, turned |-> [x.turned EXCEPT ![n] = x.turned[n] + 1]]
    BY <1>2, TurnIsThrough
  <2> HIDE DEF t, y
  <2>2. /\ at \in Places(p)
        /\ v \in Plain(p) /\ v.queued = t.queued /\ v.done = t.done
        /\ Executed(v) = Executed(t)
        /\ t.queue = <<>> => at.node = Nowhere /\ v.queue = <<>>
        /\ t.queue # <<>> =>
             /\ at.node \in PlanNodes(p)
             /\ NodesOf(t.queue) = NodesOf(v.queue) \cup {at.node}
             /\ at.node \notin Executed(t)
        /\ \A i, j \in DOMAIN v.queue : v.queue[i].node = v.queue[j].node => i = j
        /\ \A i \in DOMAIN v.queue :
             v.queue[i].node \notin Executed(t) /\ (t.queue # <<>> => v.queue[i].node # at.node)
    BY <2>1, DispatchTidy DEF Places
  <2> HIDE DEF at, v
  <2>3. Nowhere \notin PlanNodes(p)
    BY DEF Plainly, PlanType
  <2>4. Executed(t) \subseteq PlanNodes(p)
    BY <2>1 DEF Plain, Schedules, Executed
  <2>5. v.queued = Executed(v) \cup NodesOf(v.queue) \cup ({at.node} \ {Nowhere})
    <3>1. CASE t.queue = <<>>
      BY <2>1, <2>2, <3>1 DEF Tidy
    <3>2. CASE t.queue # <<>>
      BY <2>1, <2>2, <2>3, <3>2 DEF Tidy
    <3> QED
      BY <3>1, <3>2
  <2>6. \A i \in DOMAIN v.queue : v.queue[i].node \notin Executed(v) \cup {at.node}
    <3>1. CASE t.queue = <<>>
      <4>1. DOMAIN v.queue = {}
        BY <2>2, <3>1
      <4> QED
        BY <4>1
    <3>2. CASE t.queue # <<>>
      BY <2>2, <3>2
    <3> QED
      BY <3>1, <3>2
  <2>7. at.node \notin Executed(v) /\ (at.node = Nowhere => v.queue = <<>>)
    BY <2>2, <2>3, <2>4
  <2>8. \A i, j \in DOMAIN v.done : v.done[i] = v.done[j] => i = j
    <3> DEFINE d == x.s.done
    <3>1. d \in Seq(PlanNodes(p)) /\ n \in PlanNodes(p) /\ n \notin Executed(x.s)
          /\ \A i, j \in DOMAIN d : d[i] = d[j] => i = j
      BY <2>1 DEF Putting, Plain, Schedules, Turns, Regular
    <3>2. /\ DOMAIN v.done = 1 .. Len(d) + 1 /\ DOMAIN d = 1 .. Len(d) /\ Len(d) \in Nat
          /\ \A i \in 1 .. Len(d) : v.done[i] = d[i]
          /\ v.done[Len(d) + 1] = n
      BY <2>1, <2>2, <3>1
    <3>3. \A i \in DOMAIN d : d[i] # n
      BY <3>1 DEF Executed
    <3> HIDE DEF d, n
    <3> QED
      BY <3>1, <3>2, <3>3
  <2>9. /\ y.at = at /\ y.s = v /\ y.turned \in [PlanNodes(p) -> Nat]
        /\ y = [at |-> y.at, turned |-> y.turned, s |-> y.s]
    <3>1. x.turned \in [PlanNodes(p) -> Nat] /\ n \in PlanNodes(p)
      BY <2>1 DEF Turns, Putting
    <3>2. [x.turned EXCEPT ![n] = x.turned[n] + 1] \in [PlanNodes(p) -> Nat]
      BY <3>1
    <3> HIDE DEF n
    <3> QED
      BY <2>1, <3>2
  <2>10. Regular(p, y)
    BY <2>1, <2>2, <2>5, <2>6, <2>7, <2>8, <2>9 DEF Regular
  <2>11. y \in Turns(p)
    BY <2>2, <2>9, <2>10 DEF Turns
  <2> QED
    BY <2>11 DEF y
<1> QED
  BY <1>1, <1>2

\* Whatever holds at first, and of each when it holds of the one before.
LEMMA StepsHold ==
    ASSUME NEW n \in Nat, NEW T, 0 \in T, \A i \in 1 .. n : i - 1 \in T => i \in T
    PROVE  \A i \in 0 .. n : i \in T
<1> DEFINE U == {m \in Nat : m <= n => m \in T}
<1>1. 0 \in U
  OBVIOUS
<1>2. ASSUME NEW m \in Nat, m \in U PROVE m + 1 \in U
  <2> SUFFICES ASSUME m + 1 <= n PROVE m + 1 \in T
    OBVIOUS
  <2>1. m + 1 \in 1 .. n /\ m + 1 - 1 = m /\ m \in T
    BY <1>2
  <2> QED
    BY <2>1
<1>3. U = Nat
  <2> HIDE DEF U
  <2>1. U \subseteq Nat
    BY DEF U
  <2> QED
    BY <1>1, <1>2, <2>1, Induction
<1> QED
  BY <1>3

LEMMA RunOfTurns ==
    ASSUME NEW p \in Plans, Simple(p)
    PROVE  /\ UndisturbedRun(p)[0] = FirstTurn(p)
           /\ \A k \in 1 .. MaxTokens : UndisturbedRun(p)[k] = NextTurn(p, UndisturbedRun(p)[k - 1])
           /\ \A k \in 0 .. MaxTokens : UndisturbedRun(p)[k] \in Turns(p)
<1> DEFINE X == Turns(p)
           first == FirstTurn(p)
           move == [k \in 1 .. MaxTokens |-> [x \in X |-> NextTurn(p, x)]]
           Grow(f) == [k \in 0 .. MaxTokens |-> IF k = 0 THEN first ELSE NextTurn(p, f[k - 1])]
           run == CHOOSE f : f = Grow(f)
<1>1. Plainly(p) /\ MaxTokens \in Nat
  BY PlansAssumption DEF Plainly
<1>2. first \in X /\ \A x \in X : NextTurn(p, x) \in X
  BY <1>1, FirstIsTurn, TurnGoesOn
<1> HIDE DEF X, first
<1>3. move \in StepsOf(X, MaxTokens)
  BY <1>2 DEF StepsOf
<1>4. PICK f : Takes(f, X, first, MaxTokens, move)
  <2> HIDE DEF move
  <2> QED
    BY <1>1, <1>2, <1>3, Recursion
<1>5. /\ f = [k \in 0 .. MaxTokens |-> f[k]] /\ f[0] = first
      /\ \A k \in 1 .. MaxTokens : f[k - 1] \in X /\ f[k] = NextTurn(p, f[k - 1])
  <2>1. f \in [0 .. MaxTokens -> X] /\ f[0] = first
    BY <1>4 DEF Takes
  <2>2. \A k \in 1 .. MaxTokens : f[k] = move[k][f[k - 1]]
    <3> HIDE DEF move
    <3> QED
      BY <1>4 DEF Takes
  <2>3. ASSUME NEW k \in 1 .. MaxTokens PROVE f[k - 1] \in X /\ f[k] = NextTurn(p, f[k - 1])
    <3>1. k - 1 \in 0 .. MaxTokens
      BY <1>1
    <3>2. f[k - 1] \in X
      BY <2>1, <3>1
    <3>3. move[k][f[k - 1]] = NextTurn(p, f[k - 1])
      BY <3>2
    <3> QED
      BY <2>2, <3>2, <3>3
  <2> QED
    BY <2>1, <2>3
<1>6. f = Grow(f)
  <2>1. ASSUME NEW k \in 0 .. MaxTokens
        PROVE  f[k] = IF k = 0 THEN first ELSE NextTurn(p, f[k - 1])
    <3>1. k = 0 \/ k \in 1 .. MaxTokens
      BY <1>1
    <3> QED
      BY <1>5, <3>1
  <2> QED
    BY <1>5, <2>1
<1>7. run = Grow(run)
  BY <1>6
<1>8. run[0] = first /\ \A k \in 1 .. MaxTokens : run[k] = NextTurn(p, run[k - 1])
  <2> HIDE DEF run
  <2>1. 0 \in 0 .. MaxTokens /\ \A k \in 1 .. MaxTokens : k \in 0 .. MaxTokens /\ k # 0
    BY <1>1
  <2> QED
    BY <1>7, <2>1
<1>9. UndisturbedRun(p) = run
  BY DEF UndisturbedRun, first
<1> HIDE DEF run
<1>10. \A k \in 0 .. MaxTokens : run[k] \in X
  BY <1>1, <1>2, <1>8, StepsStay
<1> QED
  BY <1>8, <1>9, <1>10 DEF X, first

\* Until the run ends, each token completes a node.
LEMMA RunCounts ==
    ASSUME NEW p \in Plans, Simple(p), NEW k \in 0 .. MaxTokens,
           UndisturbedRun(p)[k].at.node # Nowhere
    PROVE  Len(UndisturbedRun(p)[k].s.done) = k
<1> DEFINE run == UndisturbedRun(p)
           T == {i \in 0 .. MaxTokens : run[i].at.node # Nowhere => Len(run[i].s.done) = i}
<1>1. /\ run[0] = FirstTurn(p)
      /\ \A i \in 1 .. MaxTokens : run[i] = NextTurn(p, run[i - 1])
      /\ \A i \in 0 .. MaxTokens : run[i] \in Turns(p)
  BY RunOfTurns
<1>2. Plainly(p) /\ MaxTokens \in Nat
  BY PlansAssumption DEF Plainly
<1> HIDE DEF run
<1>3. 0 \in T
  BY <1>1, <1>2 DEF FirstTurn, EmptySchedule
<1>4. ASSUME NEW i \in 1 .. MaxTokens, i - 1 \in T PROVE i \in T
  <2> DEFINE x == run[i - 1]
  <2> SUFFICES ASSUME run[i].at.node # Nowhere PROVE Len(run[i].s.done) = i
    OBVIOUS
  <2>1. x \in Turns(p) /\ run[i] = NextTurn(p, x) /\ i - 1 \in 0 .. MaxTokens
    BY <1>1, <1>2
  <2>2. x.at.node # Nowhere
    BY <2>1 DEF NextTurn
  <2>3. Len(x.s.done) = i - 1
    BY <1>4, <2>2
  <2> HIDE DEF x
  <2>4. LET t == Served(p, x.s, x.at.node)
        IN  /\ Putting(p, x.s, x.at.node) /\ t \in Plain(p) /\ Tidy(t)
            /\ t.done = Append(x.s.done, x.at.node)
            /\ NextTurn(p, x).s = Dispatched(t)
    BY <1>2, <2>1, <2>2, TurnIsThrough
  <2> DEFINE t == Served(p, x.s, x.at.node)
  <2> HIDE DEF t
  <2>5. run[i].s.done = Append(x.s.done, x.at.node)
    <3>1. t \in Plain(p) /\ t.done = Append(x.s.done, x.at.node) /\ NextTurn(p, x).s = Dispatched(t)
      BY <2>4 DEF t
    <3>2. Dispatched(t).done = t.done
      BY <3>1 DEF Dispatched, Plain, Schedules
    <3> QED
      BY <2>1, <3>1, <3>2
  <2>6. x.s.done \in Seq(PlanNodes(p)) /\ x.at.node \in PlanNodes(p)
    BY <2>4 DEF Putting, Plain, Schedules
  <2> QED
    BY <2>3, <2>5, <2>6
<1>5. \A i \in 0 .. MaxTokens : i \in T
  <2> HIDE DEF T
  <2> QED
    BY <1>2, <1>3, <1>4, StepsHold
<1> QED
  BY <1>5 DEF run

\* A run that stands at a node has not completed all.
LEMMA RunHasRoom ==
    ASSUME NEW p, Plainly(p), NEW x \in Turns(p), x.at.node # Nowhere
    PROVE  Len(x.s.done) < Len(p.order) /\ Len(x.s.done) \in Nat /\ Len(p.order) \in Nat
<1> DEFINE n == x.at.node
           d == x.s.done
           e == Append(d, n)
           places == 1 .. Len(p.order)
           place == [i \in 1 .. Len(d) + 1 |-> CHOOSE j \in places : p.order[j] = e[i]]
<1>1. /\ d \in Seq(PlanNodes(p)) /\ n \in PlanNodes(p) /\ n \notin Executed(x.s)
      /\ \A i, j \in DOMAIN d : d[i] = d[j] => i = j
  BY DEF Turns, Places, Regular, Plain, Schedules
<1>2. p.order \in Seq(PlanNodes(p)) /\ Len(p.order) \in Nat
  BY DEF Plainly, PlanType
<1>3. /\ Len(d) \in Nat /\ DOMAIN d = 1 .. Len(d)
      /\ \A i \in 1 .. Len(d) : e[i] = d[i] /\ d[i] \in PlanNodes(p) /\ d[i] # n
      /\ e[Len(d) + 1] = n
  <2>1. \A i \in DOMAIN d : d[i] # n
    BY <1>1 DEF Executed
  <2> QED
    BY <1>1, <2>1
<1> HIDE DEF e
<1>4. \A i \in 1 .. Len(d) + 1 : e[i] \in PlanNodes(p)
  BY <1>1, <1>3
<1>5. ASSUME NEW i \in 1 .. Len(d) + 1, NEW j \in 1 .. Len(d) + 1, e[i] = e[j] PROVE i = j
  <2>1. CASE i \in 1 .. Len(d) /\ j \in 1 .. Len(d)
    BY <1>1, <1>3, <1>5, <2>1
  <2>2. CASE i = Len(d) + 1 /\ j \in 1 .. Len(d)
    BY <1>3, <1>5, <2>2
  <2>3. CASE j = Len(d) + 1 /\ i \in 1 .. Len(d)
    BY <1>3, <1>5, <2>3
  <2> HIDE DEF d
  <2> QED
    BY <1>3, <2>1, <2>2, <2>3
<1>6. \A i \in 1 .. Len(d) + 1 : \E j \in places : p.order[j] = e[i]
  <2>1. DOMAIN p.order = places
    BY <1>2
  <2> QED
    BY <1>4, <2>1 DEF PlanNodes
<1> HIDE DEF d
<1>7. ASSUME NEW i \in 1 .. Len(d) + 1 PROVE place[i] \in places /\ p.order[place[i]] = e[i]
  <2>1. place[i] = CHOOSE j \in places : p.order[j] = e[i]
    OBVIOUS
  <2> HIDE DEF place, places
  <2> QED
    BY <1>6, <2>1
<1>8. place \in [1 .. Len(d) + 1 -> places]
  <2>1. place = [i \in 1 .. Len(d) + 1 |-> place[i]]
    OBVIOUS
  <2> HIDE DEF place, places
  <2> QED
    BY <1>7, <2>1
<1>9. /\ IsFiniteSet(1 .. Len(d) + 1) /\ Cardinality(1 .. Len(d) + 1) = Len(d) + 1
      /\ IsFiniteSet(places) /\ Cardinality(places) = Len(p.order)
  <2>1. 1 \in Int /\ Len(d) + 1 \in Int /\ Len(p.order) \in Int /\ Len(d) + 1 >= 1
    BY <1>2, <1>3
  <2> DEFINE m == Len(d) + 1
             l == Len(p.order)
  <2>2. IsFiniteSet(1 .. m) /\ Cardinality(1 .. m) = IF 1 > m THEN 0 ELSE m - 1 + 1
    <3> HIDE DEF m
    <3> QED
      BY <2>1, FS_Interval DEF m
  <2>3. IsFiniteSet(1 .. l) /\ Cardinality(1 .. l) = IF 1 > l THEN 0 ELSE l - 1 + 1
    <3> HIDE DEF l
    <3> QED
      BY <2>1, FS_Interval DEF l
  <2> QED
    BY <1>2, <1>3, <2>2, <2>3
<1>10. ~(Len(p.order) < Len(d) + 1)
  <2> SUFFICES ASSUME Len(p.order) < Len(d) + 1 PROVE FALSE
    OBVIOUS
  <2> HIDE DEF place, places
  <2>1. PICK i \in 1 .. Len(d) + 1, j \in 1 .. Len(d) + 1 : i # j /\ place[i] = place[j]
    BY <1>8, <1>9, FS_PigeonHole
  <2> QED
    BY <1>5, <1>7, <2>1
<1> QED
  BY <1>2, <1>3, <1>10 DEF d

LEMMA PrefixGrows ==
    ASSUME NEW S, NEW d \in Seq(S), NEW e \in Seq(S), NEW x \in S, IsPrefix(d, e)
    PROVE  IsPrefix(d, Append(e, x)) /\ IsPrefix(d, d)
<1>1. Len(d) <= Len(e) /\ SubSeq(d, 1, Len(d)) = SubSeq(e, 1, Len(d))
  BY DEF IsPrefix
<1>2. /\ Len(d) \in Nat /\ Len(e) \in Nat /\ Len(Append(e, x)) = Len(e) + 1
      /\ \A i \in 1 .. Len(e) : Append(e, x)[i] = e[i]
  OBVIOUS
<1> DEFINE f == Append(e, x)
<1>3. f \in Seq(S)
  OBVIOUS
<1> HIDE DEF f
<1>4. SubSeq(f, 1, Len(d)) = SubSeq(e, 1, Len(d))
  BY <1>1, <1>2, <1>3 DEF f
<1> QED
  BY <1>1, <1>2, <1>4 DEF IsPrefix, f

\* What a run is at any token, and how it goes on.
Stands(p, k) == p \in Plans /\ Simple(p) /\ k \in 0 .. MaxTokens
RunAt(p, k) == UndisturbedRun(p)[k]

LEMMA RunGoesOn ==
    ASSUME NEW p, NEW k, Stands(p, k), RunAt(p, k).at.node # Nowhere
    PROVE  /\ k + 1 \in 0 .. MaxTokens
           /\ RunAt(p, k + 1) = NextTurn(p, RunAt(p, k))
<1>1. /\ p \in Plans /\ Simple(p) /\ k \in 0 .. MaxTokens /\ Plainly(p) /\ MaxTokens \in Nat
      /\ Len(p.order) <= MaxTokens
  BY PlansAssumption DEF Stands, Plainly
<1>2. RunAt(p, k) \in Turns(p)
  BY <1>1, RunOfTurns DEF RunAt
<1>3. Len(RunAt(p, k).s.done) = k
  BY <1>1, RunCounts DEF RunAt
<1>4. k < Len(p.order) /\ Len(p.order) \in Nat
  BY <1>1, <1>2, <1>3, RunHasRoom
<1>5. k + 1 \in 1 .. MaxTokens /\ k + 1 - 1 = k
  BY <1>1, <1>4
<1>6. UndisturbedRun(p)[k + 1] = NextTurn(p, UndisturbedRun(p)[k + 1 - 1])
  BY <1>1, <1>5, RunOfTurns
<1> QED
  BY <1>5, <1>6 DEF RunAt

LEMMA RunEnds ==
    ASSUME NEW p, NEW k, Stands(p, k), RunAt(p, k).at.node = Nowhere
    PROVE  RunAt(p, k).s.done = UndisturbedOrder(p)
<1> DEFINE T == {i \in 0 .. MaxTokens : i >= k => RunAt(p, i) = RunAt(p, k)}
<1>1. p \in Plans /\ Simple(p) /\ k \in 0 .. MaxTokens /\ MaxTokens \in Nat
  BY PlansAssumption DEF Stands
<1>2. \A i \in 1 .. MaxTokens : RunAt(p, i) = NextTurn(p, RunAt(p, i - 1))
  BY <1>1, RunOfTurns DEF RunAt
<1>3. 0 \in T
  BY <1>1
<1>4. ASSUME NEW i \in 1 .. MaxTokens, i - 1 \in T PROVE i \in T
  <2>1. CASE i - 1 >= k
    <3>1. RunAt(p, i - 1) = RunAt(p, k)
      BY <1>4, <2>1
    <3>2. NextTurn(p, RunAt(p, k)) = RunAt(p, k)
      BY DEF NextTurn
    <3> QED
      BY <1>1, <1>2, <3>1, <3>2
  <2>2. CASE i = k \/ i < k
    BY <1>1, <2>2
  <2> QED
    BY <1>1, <2>1, <2>2
<1>5. \A i \in 0 .. MaxTokens : i \in T
  <2> HIDE DEF T
  <2> QED
    BY <1>1, <1>3, <1>4, StepsHold
<1>6. RunAt(p, MaxTokens) = RunAt(p, k)
  BY <1>1, <1>5
<1> QED
  BY <1>6 DEF RunAt, UndisturbedOrder

LEMMA RunGrows ==
    ASSUME NEW p, NEW k, Stands(p, k)
    PROVE  IsPrefix(RunAt(p, k).s.done, UndisturbedOrder(p))
<1> DEFINE d == RunAt(p, k).s.done
           T == {i \in 0 .. MaxTokens : i >= k => IsPrefix(d, RunAt(p, i).s.done)}
<1>1. p \in Plans /\ Simple(p) /\ k \in 0 .. MaxTokens /\ MaxTokens \in Nat /\ Plainly(p)
  BY PlansAssumption DEF Stands, Plainly
<1>2. /\ \A i \in 1 .. MaxTokens : RunAt(p, i) = NextTurn(p, RunAt(p, i - 1))
      /\ \A i \in 0 .. MaxTokens : RunAt(p, i) \in Turns(p)
  BY <1>1, RunOfTurns DEF RunAt
<1>20. \A i \in 0 .. MaxTokens : RunAt(p, i).s.done \in Seq(PlanNodes(p))
  BY <1>2 DEF Turns, Plain, Schedules
<1>21. d \in Seq(PlanNodes(p))
  BY <1>1, <1>20
<1> HIDE DEF d
<1>22. IsPrefix(d, d)
  <2>1. IsPrefix(d, d)
    BY <1>21 DEF IsPrefix
  <2> QED
    BY <2>1
<1>3. 0 \in T
  BY <1>1, <1>22 DEF d
<1>4. ASSUME NEW i \in 1 .. MaxTokens, i - 1 \in T PROVE i \in T
  <2> DEFINE x == RunAt(p, i - 1)
  <2>1. CASE i - 1 >= k
    <3>1. IsPrefix(d, x.s.done) /\ i - 1 \in 0 .. MaxTokens
      BY <1>1, <1>4, <2>1
    <3>2. x \in Turns(p) /\ x.s.done \in Seq(PlanNodes(p)) /\ RunAt(p, i) = NextTurn(p, x)
      BY <1>2, <1>20, <3>1
    <3> HIDE DEF x
    <3>3. CASE x.at.node = Nowhere
      <4>1. RunAt(p, i) = x
        BY <3>2, <3>3 DEF NextTurn
      <4> QED
        BY <3>1, <4>1
    <3>4. CASE x.at.node # Nowhere
      <4> DEFINE t == Served(p, x.s, x.at.node)
      <4>1. /\ Putting(p, x.s, x.at.node) /\ t \in Plain(p) /\ t.done = Append(x.s.done, x.at.node)
            /\ NextTurn(p, x).s = Dispatched(t)
        BY <1>1, <3>2, <3>4, TurnIsThrough
      <4> HIDE DEF t
      <4>2. Dispatched(t).done = t.done
        BY <4>1 DEF Dispatched, Plain, Schedules
      <4>3. RunAt(p, i).s.done = Append(x.s.done, x.at.node) /\ x.at.node \in PlanNodes(p)
        BY <3>2, <4>1, <4>2 DEF Putting
      <4>4. IsPrefix(d, RunAt(p, i).s.done)
        <5> HIDE DEF T
        <5> QED
          BY <1>21, <3>1, <3>2, <4>3, PrefixGrows
      <4> QED
        BY <1>1, <4>4
    <3> QED
      BY <3>3, <3>4
  <2>2. CASE i = k
    BY <1>22, <2>2 DEF d
  <2>3. CASE i < k
    BY <1>1, <2>3
  <2> QED
    BY <1>1, <2>1, <2>2, <2>3
<1>5. \A i \in 0 .. MaxTokens : i \in T
  <2> HIDE DEF T
  <2> QED
    BY <1>1, <1>3, <1>4, StepsHold
<1>6. IsPrefix(d, RunAt(p, MaxTokens).s.done)
  BY <1>1, <1>5
<1> QED
  BY <1>6 DEF RunAt, UndisturbedOrder, d

---------------------------------------------------------------------------
(* Positions of the run, and documents that show them.                   *)

\* The thread's position is one of the run's: the same node is next, the same
\* tokens wait, and what is known besides the node is the same.
Matches(x, at, s) ==
    /\ x.at = at /\ x.s.queue = s.queue /\ x.s.done = s.done /\ x.s.arrived = s.arrived
    /\ Executed(s) \cup s.queued \cup {at.node} = Executed(x.s) \cup x.s.queued \cup {at.node}
Fits(p, went, at, s) ==
    /\ s \in Plain(p) /\ s.done = went
    /\ \E k : Stands(p, k) /\ Matches(RunAt(p, k), at, s)

LEMMA AlikeDispatched ==
    ASSUME NEW p, NEW s, NEW t, s \in Plain(p), t \in Plain(p), Alike(s, t)
    PROVE  /\ NextAt(s) = NextAt(t) /\ Dispatched(s) \in Plain(p) /\ Dispatched(s).done = s.done
           /\ Alike(Dispatched(s), Dispatched(t))
<1> DEFINE v == Dispatched(s)
           w == Dispatched(t)
           q == IF s.queue = <<>> THEN s.queue ELSE Tail(s.queue)
<1>1. v = [s EXCEPT !.queue = q] /\ w = [t EXCEPT !.queue = q] /\ NextAt(s) = NextAt(t)
  BY DEF Dispatched, Alike, NextAt
<1>2. s.queue \in Seq(TokensOf(p, {Once}))
  BY DEF Plain, Schedules
<1>3. q \in Seq(TokensOf(p, {Once}))
  BY <1>2
<1> HIDE DEF q, v, w
<1>4. /\ v \in Plain(p) /\ v.queue = q /\ v.done = s.done /\ v.arrived = s.arrived
      /\ v.queued = s.queued
      /\ w.queue = q /\ w.done = t.done /\ w.arrived = t.arrived /\ w.queued = t.queued
  BY <1>1, <1>3 DEF Plain, Schedules
<1>5. Executed(v) = Executed(s) /\ Executed(w) = Executed(t)
  BY <1>4 DEF Executed
<1>6. Alike(v, w)
  BY <1>4, <1>5 DEF Alike
<1> QED
  BY <1>1, <1>4, <1>6 DEF v, w

\* What the position says of the node that is next.
LEMMA FitsAtNode ==
    ASSUME NEW p, NEW went, NEW at, NEW s, Fits(p, went, at, s)
    PROVE  /\ Plainly(p) /\ p \in Plans /\ s \in Plain(p) /\ s.done = went /\ at \in Places(p)
           /\ at.again = Once /\ at.node \notin Executed(s)
           /\ at.node # Nowhere => Putting(p, s, at.node)
           /\ at.node = Nowhere => s.queue = <<>>
           /\ p.start \in Executed(s) \cup s.queued \cup {at.node}
           /\ \A i \in DOMAIN s.queue : /\ s.queue[i].node \in Executed(s) \cup s.queued \cup {at.node}
                                        /\ s.queue[i].node # at.node
           /\ Executed(s) \cup s.queued \cup {at.node} =
                Executed(s) \cup NodesOf(s.queue) \cup {at.node}
<1>1. PICK k : Stands(p, k) /\ Matches(RunAt(p, k), at, s)
  BY DEF Fits
<1> DEFINE x == RunAt(p, k)
<1>2. x \in Turns(p) /\ Plainly(p) /\ p \in Plans
  BY <1>1, RunOfTurns, PlansAssumption DEF Stands, RunAt, Plainly
<1>3. Matches(x, at, s) /\ s \in Plain(p) /\ s.done = went
  BY <1>1 DEF Fits
<1> HIDE DEF x
<1>4. Regular(p, x) /\ x.at \in Places(p) /\ x.at = at
  BY <1>2, <1>3 DEF Turns, Matches
<1>5. at.again = Once /\ at.node \in PlanNodes(p) \cup {Nowhere} /\ at \in Places(p)
  BY <1>4 DEF Places
<1>6. Executed(x.s) = Executed(s) /\ x.s.queue = s.queue
  BY <1>3 DEF Matches, Executed
<1>7. /\ at.node \notin Executed(s)
      /\ at.node = Nowhere => s.queue = <<>>
      /\ x.s.queued = Executed(s) \cup NodesOf(s.queue) \cup ({at.node} \ {Nowhere})
      /\ p.start \in x.s.queued
      /\ \A i \in DOMAIN s.queue : s.queue[i].node # at.node
  BY <1>4, <1>6 DEF Regular
<1>8. Executed(s) \cup s.queued \cup {at.node} = Executed(s) \cup NodesOf(s.queue) \cup {at.node}
  BY <1>3, <1>6, <1>7 DEF Matches
<1>9. p.start \in Executed(s) \cup s.queued \cup {at.node}
  BY <1>7, <1>8
<1>10. \A i \in DOMAIN s.queue : s.queue[i].node \in Executed(s) \cup s.queued \cup {at.node}
  BY <1>8 DEF NodesOf
<1> QED
  BY <1>2, <1>3, <1>5, <1>7, <1>8, <1>9, <1>10 DEF Putting

\* A run begins, and ends.
LEMMA FitsFirst ==
    ASSUME NEW p \in Plans, Simple(p)
    PROVE  Fits(p, <<>>, FirstTurn(p).at, FirstTurn(p).s)
<1>1. Stands(p, 0) /\ Plainly(p)
  BY PlansAssumption DEF Stands, Plainly
<1>2. RunAt(p, 0) = FirstTurn(p)
  BY <1>1, RunOfTurns DEF RunAt, Stands
<1>3. FirstTurn(p).s \in Plain(p) /\ FirstTurn(p).s.done = <<>>
  <2>1. FirstTurn(p) \in Turns(p)
    BY <1>1, FirstIsTurn
  <2>2. FirstTurn(p).s.done = <<>>
    BY DEF FirstTurn, EmptySchedule
  <2> QED
    BY <2>1, <2>2 DEF Turns
<1>4. Matches(FirstTurn(p), FirstTurn(p).at, FirstTurn(p).s)
  BY DEF Matches
<1> QED
  BY <1>1, <1>2, <1>3, <1>4 DEF Fits

LEMMA FitsOrder ==
    ASSUME NEW p, NEW went, NEW at, NEW s, Fits(p, went, at, s)
    PROVE  /\ IsPrefix(went, UndisturbedOrder(p))
           /\ at.node = Nowhere => went = UndisturbedOrder(p)
<1>1. PICK k : Stands(p, k) /\ Matches(RunAt(p, k), at, s)
  BY DEF Fits
<1>2. RunAt(p, k).s.done = went /\ RunAt(p, k).at = at
  BY <1>1 DEF Fits, Matches
<1> QED
  BY <1>1, <1>2, RunGrows, RunEnds

\* The node that is next is through.
LEMMA FitsGoesOn ==
    ASSUME NEW p, NEW went, NEW at, NEW s, Fits(p, went, at, s), at.node # Nowhere
    PROVE  LET t == Served(p, s, at.node)
           IN  Fits(p, Append(went, at.node), NextAt(t), Dispatched(t))
<1> DEFINE n == at.node
           t == Served(p, s, n)
<1>1. PICK k : Stands(p, k) /\ Matches(RunAt(p, k), at, s)
  BY DEF Fits
<1> DEFINE x == RunAt(p, k)
           y == RunAt(p, k + 1)
           u == Served(p, x.s, n)
<1>2. x \in Turns(p) /\ Plainly(p) /\ k \in 0 .. MaxTokens
  BY <1>1, RunOfTurns, PlansAssumption DEF Stands, RunAt, Plainly
<1>3. Matches(x, at, s) /\ s \in Plain(p) /\ s.done = went /\ x.at = at
  BY <1>1 DEF Fits, Matches
<1>4. Stands(p, k + 1) /\ y = NextTurn(p, x)
  <2>1. RunAt(p, k).at.node # Nowhere
    BY <1>3
  <2> QED
    BY <1>1, <2>1, RunGoesOn DEF Stands
<1>5. /\ Putting(p, x.s, n) /\ u \in Plain(p) /\ u.done = Append(x.s.done, n)
      /\ y.at = NextAt(u) /\ y.s = Dispatched(u)
  <2> HIDE DEF x, y
  <2>1. x.at.node # Nowhere /\ x.at.node = n
    BY <1>3
  <2> HIDE DEF n
  <2> QED
    BY <1>2, <1>4, <2>1, TurnIsThrough
<1> HIDE DEF x, y
<1>6. Putting(p, s, n) /\ Serving(p, Done(s, n), n, p.out[n]) /\ Serving(p, Done(x.s, n), n, p.out[n])
  <2>1. Putting(p, s, n) /\ Putting(p, x.s, n)
    BY <1>3, <1>5 DEF Putting
  <2> HIDE DEF n
  <2> QED
    BY <1>2, <2>1, ThroughPlainly
<1>7. Alike(Done(s, n), Done(x.s, n)) /\ Done(s, n).done = Append(went, n)
  <2> HIDE DEF n
  <2>1. /\ Executed(Done(s, n)) = Executed(s) \cup {n}
        /\ Done(s, n).queue = s.queue /\ Done(s, n).queued = s.queued
        /\ Done(s, n).arrived = s.arrived /\ Done(s, n).done = Append(s.done, n)
    BY <1>6, DoneIsThere
  <2>2. /\ Executed(Done(x.s, n)) = Executed(x.s) \cup {n}
        /\ Done(x.s, n).queue = x.s.queue /\ Done(x.s, n).queued = x.s.queued
        /\ Done(x.s, n).arrived = x.s.arrived /\ Done(x.s, n).done = Append(x.s.done, n)
    BY <1>5, DoneIsThere
  <2>3. /\ x.s.queue = s.queue /\ x.s.done = s.done /\ x.s.arrived = s.arrived
        /\ Executed(s) \cup s.queued \cup {n} = Executed(x.s) \cup x.s.queued \cup {n}
    BY <1>3 DEF Matches, n
  <2> QED
    BY <1>3, <2>1, <2>2, <2>3 DEF Alike
<1>8. Alike(t, u) /\ t \in Plain(p)
  <2> HIDE DEF n
  <2> QED
    BY <1>6, <1>7, FollowAllAlike DEF Served
<1> HIDE DEF t, u
<1>9. /\ NextAt(t) = NextAt(u) /\ Dispatched(t) \in Plain(p) /\ Dispatched(t).done = t.done
      /\ Alike(Dispatched(t), Dispatched(u))
  BY <1>5, <1>8, AlikeDispatched
<1>10. t.done = Append(went, n)
  BY <1>3, <1>5, <1>8 DEF Alike, Matches
<1>11. Matches(y, NextAt(t), Dispatched(t))
  <2> DEFINE a == NextAt(t)
             v == Dispatched(t)
  <2>1. Alike(v, y.s) /\ y.at = a
    BY <1>5, <1>9
  <2> HIDE DEF a, v
  <2>2. Matches(y, a, v)
    BY <2>1 DEF Alike, Matches
  <2> QED
    BY <2>2 DEF a, v
<1>12. \E l : Stands(p, l) /\ Matches(RunAt(p, l), NextAt(t), Dispatched(t))
  BY <1>4, <1>11 DEF y
<1>13. Fits(p, Append(went, n), NextAt(t), Dispatched(t))
  BY <1>9, <1>10, <1>12 DEF Fits
<1> QED
  BY <1>13 DEF t

\* Tokens for nodes that are known are not queued a second time.
LEMMA PutAllKnown ==
    ASSUME NEW s, NEW S, NEW tokens \in Seq(S),
           \A i \in 1 .. Len(tokens) : tokens[i].again = Once /\ tokens[i].node \in Executed(s) \cup s.queued
    PROVE  PutAll(s, tokens) = s
<1> DEFINE n == Len(tokens)
           Grow(f) == [i \in 0 .. n |-> IF i = 0 THEN s
                                        ELSE PutToken(f[i - 1], tokens[i].node, tokens[i].again)]
           put == CHOOSE f : f = Grow(f)
           f == [i \in 0 .. n |-> s]
           T == {i \in 0 .. n : put[i] = s}
<1>1. n \in Nat
  OBVIOUS
<1>2. \A i \in 1 .. n : PutToken(s, tokens[i].node, tokens[i].again) = s
  BY DEF PutToken, Once
<1> HIDE DEF n
<1>3. f = Grow(f)
  <2>1. ASSUME NEW i \in 0 .. n
        PROVE  s = IF i = 0 THEN s ELSE PutToken(f[i - 1], tokens[i].node, tokens[i].again)
    <3>1. CASE i = 0
      BY <3>1
    <3>2. CASE i \in 1 .. n
      <4>1. i - 1 \in 0 .. n /\ i # 0
        BY <1>1, <3>2
      <4>2. f[i - 1] = s
        BY <4>1
      <4> HIDE DEF f
      <4> QED
        BY <1>2, <3>2, <4>1, <4>2
    <3> QED
      BY <1>1, <3>1, <3>2
  <2> QED
    BY <2>1
<1>4. put = Grow(put)
  <2> HIDE DEF f
  <2> QED
    BY <1>3
<1>5. put[0] = s /\ \A i \in 1 .. n : put[i] = PutToken(put[i - 1], tokens[i].node, tokens[i].again)
  <2> HIDE DEF put
  <2>1. 0 \in 0 .. n /\ \A i \in 1 .. n : i \in 0 .. n /\ i # 0
    BY <1>1
  <2> QED
    BY <1>4, <2>1
<1>6. PutAll(s, tokens) = put[n]
  BY DEF PutAll, n
<1> HIDE DEF put
<1>7. 0 \in T /\ \A i \in 1 .. n : i - 1 \in T => i \in T
  BY <1>1, <1>2, <1>5
<1>8. \A i \in 0 .. n : i \in T
  <2> HIDE DEF T
  <2> QED
    BY <1>1, <1>7, StepsHold
<1> QED
  BY <1>1, <1>6, <1>8

\* Any schedule with the same tokens fits.
LEMMA FitsAgain ==
    ASSUME NEW p, NEW went, NEW at, NEW s, NEW t, Fits(p, went, at, s), t \in Plain(p),
           t.queue = s.queue, t.done = s.done, t.arrived = s.arrived,
           t.queued \cup {at.node} = NodesOf(s.queue) \cup {at.node}
    PROVE  Fits(p, went, at, t)
<1>1. PICK k : Stands(p, k) /\ Matches(RunAt(p, k), at, s)
  BY DEF Fits
<1>2. Executed(s) \cup s.queued \cup {at.node} = Executed(s) \cup NodesOf(s.queue) \cup {at.node}
  BY FitsAtNode
<1>3. Executed(t) = Executed(s)
  BY DEF Executed
<1>4. Matches(RunAt(p, k), at, t)
  BY <1>1, <1>2, <1>3 DEF Matches
<1> QED
  BY <1>1, <1>4 DEF Fits

\* The document shows the position: its cursor, or its current node, is next.
Shows(d, at, s) ==
    /\ d.inside = Nowhere /\ d.queue = s.queue /\ d.done = s.done /\ d.arrived = s.arrived
    /\ at.node # Nowhere =>
          d.cursor = at \/ (d.cursor.node = Nowhere /\ ~d.fromQueue /\ d.at = at)
    /\ at.node = Nowhere => d.cursor.node = Nowhere /\ (d.at.node = Nowhere \/ d.fromQueue)

\* A thread that resumes from such a document takes this position.
LEMMA ResumesThere ==
    ASSUME NEW d, NEW at, NEW s, Fits(plan, ran, at, s), Shows(d, at, s)
    PROVE  Fits(plan, ran, Resumption(d).at, Resumption(d).s)
<1> DEFINE p == plan
           base == Restored(d)
           again == PutAll(base, d.queue)
           first == PutToken(base, p.start, FALSE)
<1>1. /\ Plainly(p) /\ s \in Plain(p) /\ at \in Places(p) /\ at.again = Once
      /\ at.node # Nowhere => at.node \in PlanNodes(p)
      /\ at.node = Nowhere => s.queue = <<>>
      /\ p.start \in Executed(s) \cup NodesOf(s.queue) \cup {at.node}
      /\ \A i \in DOMAIN s.queue : s.queue[i].node # at.node
  BY FitsAtNode DEF Putting
<1>2. s.queue \in Seq(TokensOf(p, {Once})) /\ Nowhere \notin PlanNodes(p) /\ p.start \in PlanNodes(p)
  BY <1>1 DEF Plain, Schedules, Plainly, PlanType
<1>3. /\ base \in Plain(p) /\ base.queue = s.queue /\ base.done = s.done /\ base.arrived = s.arrived
      /\ base.queued = NodesOf(s.queue) /\ Executed(base) = Executed(s)
  <2>1. base = [queue |-> s.queue, queued |-> NodesOf(s.queue), done |-> s.done, arrived |-> s.arrived]
    BY DEF Restored, Shows, NodesOf
  <2>2. NodesOf(s.queue) \subseteq PlanNodes(p)
    <3>1. \A i \in DOMAIN s.queue : s.queue[i] \in TokensOf(p, {Once})
      BY <1>2
    <3> QED
      BY <3>1 DEF NodesOf, TokensOf
  <2> QED
    BY <1>1, <2>1, <2>2 DEF Plain, Schedules, Executed
<1> HIDE DEF base
<1>4. again = base
  <2>1. d.queue = s.queue
    BY DEF Shows
  <2>2. \A i \in 1 .. Len(s.queue) : s.queue[i].again = Once
                                     /\ s.queue[i].node \in Executed(base) \cup base.queued
    <3>1. \A i \in 1 .. Len(s.queue) : s.queue[i] \in TokensOf(p, {Once}) /\ i \in DOMAIN s.queue
      BY <1>2
    <3> QED
      BY <1>3, <3>1 DEF TokensOf, NodesOf
  <2> QED
    BY <1>2, <2>1, <2>2, PutAllKnown
<1> HIDE DEF again
<1>5. CASE d.cursor.node # Nowhere
  <2> DEFINE t == [base EXCEPT !.queued = base.queued \ {d.cursor.node}]
  <2>1. Resumption(d).at = d.cursor /\ Resumption(d).s = t
    BY <1>5 DEF Resumption, base
  <2>2. d.cursor = at
    BY <1>5 DEF Shows
  <2>3. /\ t \in Plain(p) /\ t.queue = s.queue /\ t.done = s.done /\ t.arrived = s.arrived
        /\ t.queued = NodesOf(s.queue) \ {at.node}
    BY <1>3, <2>2 DEF Plain, Schedules
  <2> HIDE DEF t
  <2>4. Fits(p, ran, at, t)
    BY <2>3, FitsAgain
  <2> QED
    BY <2>1, <2>2, <2>4
<1>6. CASE d.cursor.node = Nowhere /\ at.node = Nowhere
  <2>1. d.inside = Nowhere /\ (d.at.node = Nowhere \/ d.fromQueue)
    BY <1>6 DEF Shows
  <2>2. first = base
    <3>1. p.start \in Executed(base) \cup base.queued
      BY <1>1, <1>2, <1>3, <1>6
    <3> QED
      BY <3>1 DEF PutToken
  <2> HIDE DEF first
  <2>3. Resumption(d).at = NextAt(base) /\ Resumption(d).s = Dispatched(base)
    BY <1>4, <1>6, <2>1, <2>2 DEF Resumption, base, again, first
  <2>4. base.queue = <<>>
    BY <1>1, <1>3, <1>6
  <2>5. Dispatched(base) = base
    BY <1>3, <2>4 DEF Dispatched, Plain, Schedules
  <2>6. NextAt(base) = at
    <3>1. NextAt(base) = [node |-> Nowhere, again |-> FALSE]
      BY <2>4 DEF NextAt
    <3>2. at = [node |-> at.node, again |-> at.again]
      BY <1>1 DEF Places
    <3> QED
      BY <1>1, <1>6, <3>1, <3>2 DEF Once
  <2>7. Fits(p, ran, at, base)
    BY <1>3, FitsAgain
  <2> QED
    BY <2>3, <2>5, <2>6, <2>7
<1>7. CASE d.cursor.node = Nowhere /\ at.node # Nowhere
  <2>1. d.inside = Nowhere /\ ~d.fromQueue /\ d.at = at
    BY <1>7 DEF Shows
  <2> DEFINE K == {[node |-> m, again |-> g] : m \in PlanNodes(p) \ {at.node}, g \in BOOLEAN}
             t == [base EXCEPT !.queued = base.queued \ {at.node}, !.queue = Kept(base.queue, K)]
  <2>2. Resumption(d).at = [node |-> at.node, again |-> at.again] /\ Resumption(d).s = Unqueued(base, at.node)
    BY <1>4, <1>7, <2>1 DEF Resumption, base, again
  <2>3. Unqueued(base, at.node) = t
    BY DEF Unqueued
  <2>4. Kept(base.queue, K) = s.queue
    <3>1. ASSUME NEW i \in 1 .. Len(s.queue) PROVE s.queue[i] \in K
      <4>1. s.queue[i] \in TokensOf(p, {Once}) /\ i \in DOMAIN s.queue
        BY <1>2
      <4>2. s.queue[i] = [node |-> s.queue[i].node, again |-> Once] /\ s.queue[i].node # at.node
            /\ s.queue[i].node \in PlanNodes(p) /\ Once \in BOOLEAN
        BY <1>1, <4>1 DEF TokensOf, Once
      <4> QED
        BY <4>2
    <3> HIDE DEF K
    <3> QED
      BY <1>2, <1>3, <3>1, KeptWhole
  <2> HIDE DEF K
  <2>5. /\ t \in Plain(p) /\ t.queue = s.queue /\ t.done = s.done /\ t.arrived = s.arrived
        /\ t.queued = NodesOf(s.queue) \ {at.node}
    BY <1>2, <1>3, <2>4 DEF Plain, Schedules
  <2> HIDE DEF t
  <2>6. Fits(p, ran, at, t)
    BY <2>5, FitsAgain
  <2>7. at = [node |-> at.node, again |-> at.again]
    BY <1>1 DEF Places
  <2> QED
    BY <2>2, <2>3, <2>6, <2>7
<1> QED
  BY <1>5, <1>6, <1>7

---------------------------------------------------------------------------
(* A debug session follows the run.                                      *)

\* A document from which a thread that resumes takes the run's position.
DocFits(p, went, d) == \E at, s : Fits(p, went, at, s) /\ Shows(d, at, s)
Went(p, went) == \E k : Stands(p, k) /\ went = RunAt(p, k).s.done

\* What the documents never say of a plan without components, and what the
\* thread's copy does not say while it works.
Calm ==
    /\ doc.inside = Nowhere /\ mine.doc.inside = Nowhere /\ control.seen.inside = Nowhere
    /\ control.seen.status # "completed"
    /\ thread \in {"begin", "visit", "node"} =>
          mine.doc.cursor.node = Nowhere /\ ~mine.doc.fromQueue /\ doc.status # "completed"

\* The thread works at a position of the run, and so it does when it resumes
\* from the document, or from the copy a request will write.
OnCourse ==
    /\ thread = "begin" /\ ~Doomed => Fits(plan, ran, mine.at, mine.s)
    /\ thread \in {"visit", "node"} /\ (remembered \/ mine.at.node # Nowhere) =>
          Fits(plan, ran, mine.at, mine.s)
    /\ thread = "node" => mine.at.node # Nowhere
    /\ ~Doomed /\ thread \in {"unstarted", "starting", "waiting"} /\ ~Ended(doc) =>
          DocFits(plan, ran, doc)
    /\ ~Doomed /\ control.pc = "asked" => DocFits(plan, ran, control.seen)

Steered ==
    Simple(plan) =>
        /\ Calm /\ OnCourse /\ Went(plan, ran)
        /\ doc.status = "completed" => ran = UndisturbedOrder(plan)

LEMMA SteeredFollows == Steered => DebugFollowsPlan
<1> SUFFICES ASSUME Steered, Simple(plan)
             PROVE  /\ IsPrefix(ran, UndisturbedOrder(plan))
                    /\ doc.status = "completed" => ran = UndisturbedOrder(plan)
  BY DEF DebugFollowsPlan
<1>1. Went(plan, ran)
  BY DEF Steered
<1> QED
  BY <1>1, RunGrows DEF Steered, Went

LEMMA FitsWent ==
    ASSUME NEW p, NEW went, NEW at, NEW s, Fits(p, went, at, s)
    PROVE  Went(p, went)
BY DEF Fits, Went, Matches

\* What the changes of a document leave alone.
LEMMA Changes ==
    ASSUME NEW d, Doc(d)
    PROVE  /\ \A at, s : LET e == Snapshot(d, at, s)
                         IN  /\ e.at = at /\ e.queue = s.queue /\ e.done = s.done
                             /\ e.arrived = s.arrived /\ e.cursor = d.cursor
                             /\ e.fromQueue = d.fromQueue /\ e.inside = d.inside
                             /\ e.status = d.status
           /\ \A n : LET e == Pausing(d, n)
                     IN  e.cursor = d.cursor /\ e.fromQueue = d.fromQueue /\ e.inside = d.inside
           /\ \A status : Ending(d, status).inside = Nowhere
           /\ /\ Running(d).cursor = d.cursor /\ ~Running(d).fromQueue
              /\ Running(d).inside = d.inside
           /\ \A what : LET e == Patched(d, what)
                        IN  /\ e.at = d.at /\ e.queue = d.queue /\ e.done = d.done
                            /\ e.arrived = d.arrived /\ e.cursor = d.cursor
                            /\ e.fromQueue = d.fromQueue /\ e.inside = d.inside
<1> USE DEF Doc, DocFields
<1>1. ASSUME NEW at, NEW s PROVE LET e == Snapshot(d, at, s)
                         IN  /\ e.at = at /\ e.queue = s.queue /\ e.done = s.done
                             /\ e.arrived = s.arrived /\ e.cursor = d.cursor
                             /\ e.fromQueue = d.fromQueue /\ e.inside = d.inside
                             /\ e.status = d.status
  BY DEF Snapshot
<1>2. ASSUME NEW n PROVE LET e == Pausing(d, n)
                     IN  e.cursor = d.cursor /\ e.fromQueue = d.fromQueue /\ e.inside = d.inside
  BY DEF Pausing
<1>3. ASSUME NEW status PROVE Ending(d, status).inside = Nowhere
  BY DEF Ending
<1>4. /\ Running(d).cursor = d.cursor /\ ~Running(d).fromQueue
      /\ Running(d).inside = d.inside
  BY DEF Running
<1>5. ASSUME NEW what PROVE LET e == Patched(d, what)
                        IN  /\ e.at = d.at /\ e.queue = d.queue /\ e.done = d.done
                            /\ e.arrived = d.arrived /\ e.cursor = d.cursor
                            /\ e.fromQueue = d.fromQueue /\ e.inside = d.inside
  BY DEF Patched
<1> QED
  BY <1>1, <1>2, <1>3, <1>4, <1>5

\* The thread pauses, or is about to end.
LEMMA StopsSteered ==
    ASSUME Guided, Steered, Simple(plan), UNCHANGED <<plan, control>>, Doomed' <=> Doomed,
           thread \in {"begin", "visit", "node"}, thread' \in {"waiting", "releasing", "ending"},
           mine'.doc.inside = Nowhere, doc'.inside = Nowhere, Went(plan, ran'),
           doc'.status = "completed" => ran' = UndisturbedOrder(plan),
           thread' = "waiting" /\ ~Doomed => DocFits(plan, ran', doc')
    PROVE  Steered'
<1>1. ~Doomed => control.pc = "idle"
  BY DEF Guided, Stepping
<1>2. Calm'
  BY DEF Steered, Calm
<1>3. OnCourse'
  <2>1. ~Doomed' => control'.pc # "asked"
    BY <1>1
  <2>2. ~Doomed' /\ thread' = "waiting" => DocFits(plan', ran', doc')
    OBVIOUS
  <2> QED
    BY <2>1, <2>2 DEF OnCourse
<1> QED
  BY <1>2, <1>3 DEF Steered

\* The thread goes on.
LEMMA GoesSteered ==
    ASSUME Guided, Steered, Simple(plan), UNCHANGED <<plan, control>>, Doomed' <=> Doomed,
           thread \in {"begin", "visit", "node"}, thread' \in {"visit", "node"},
           mine'.doc.inside = Nowhere, mine'.doc.cursor.node = Nowhere, ~mine'.doc.fromQueue,
           doc'.inside = Nowhere, doc'.status # "completed", Went(plan, ran'),
           thread' = "node" => mine'.at.node # Nowhere,
           remembered' \/ mine'.at.node # Nowhere => Fits(plan, ran', mine'.at, mine'.s)
    PROVE  Steered'
<1>1. ~Doomed => control.pc = "idle"
  BY DEF Guided, Stepping
<1>2. Calm'
  BY DEF Steered, Calm
<1>3. OnCourse'
  <2>1. ~Doomed' => control'.pc # "asked"
    BY <1>1
  <2>2. remembered' \/ mine'.at.node # Nowhere => Fits(plan', ran', mine'.at, mine'.s)
    OBVIOUS
  <2> QED
    BY <2>1, <2>2 DEF OnCourse
<1> QED
  BY <1>2, <1>3 DEF Steered

\* The thread at work on such a plan.
Working ==
    /\ Guided /\ Steered /\ Simple(plan) /\ Undisturbed
    /\ thread \in {"begin", "visit", "node"}

LEMMA WorkingFacts ==
    ASSUME Working
    PROVE  /\ UNCHANGED <<plan, control, remembered>> /\ (Doomed' <=> Doomed)
           /\ Doc(doc) /\ Doc(mine.doc) /\ doc.inside = Nowhere /\ doc.status # "completed"
           /\ mine.doc.inside = Nowhere /\ mine.doc.cursor.node = Nowhere /\ ~mine.doc.fromQueue
           /\ Went(plan, ran)
           /\ mine = [f \in {"doc", "s", "at", "count"} |-> mine[f]]
<1>1. Doc(doc) /\ Doc(mine.doc) /\ mine = [f \in {"doc", "s", "at", "count"} |-> mine[f]]
  BY GuidedFacts DEF Working
<1>2. UNCHANGED <<plan, control, remembered>> /\ (Doomed' <=> Doomed)
  BY DEF Working, Undisturbed, Doomed
<1> QED
  BY <1>1, <1>2 DEF Working, Steered, Calm

\* What the thread stores when it pauses shows its position.
LEMMA PauseShows ==
    ASSUME NEW p, NEW went, NEW at, NEW s, Fits(p, went, at, s), NEW d, Doc(d), NEW showing,
           d.inside = Nowhere,
           at.node # Nowhere =>
               d.cursor = at \/ (d.cursor.node = Nowhere /\ ~d.fromQueue /\ showing = at),
           at.node = Nowhere => d.cursor.node = Nowhere /\ (showing.node = Nowhere \/ d.fromQueue)
    PROVE  DocFits(p, went, Snapshot(d, showing, s))
<1> DEFINE e == Snapshot(d, showing, s)
<1>1. /\ e.at = showing /\ e.queue = s.queue /\ e.done = s.done
      /\ e.arrived = s.arrived /\ e.cursor = d.cursor
      /\ e.fromQueue = d.fromQueue /\ e.inside = d.inside
  BY Changes
<1> HIDE DEF e
<1>2. Shows(e, at, s)
  BY <1>1 DEF Shows
<1> QED
  BY <1>2 DEF DocFits, e

\* A store after which the thread pauses or ends.
LEMMA StoreSteers ==
    ASSUME Working, mine'.doc.inside = Nowhere, Went(plan, ran'),
           NEW d, Doc(d), NEW next \in {"waiting", "releasing"}, Store(d, next), d.inside = Nowhere,
           d.status = "completed" /\ remembered => ran' = UndisturbedOrder(plan),
           next = "waiting" /\ ~Doomed => DocFits(plan, ran', d)
    PROVE  Steered'
<1>1. Guided /\ Steered /\ Simple(plan) /\ Shaped /\ thread \in {"begin", "visit", "node"}
  BY DEF Working, Guided
<1>2. CASE remembered
  <2>1. doc' = d /\ thread' = next
    BY <1>1, <1>2, StoreWrites
  <2> QED
    BY <1>1, <1>2, <2>1, WorkingFacts, StopsSteered
<1>3. CASE ~remembered
  <2>1. thread' = "releasing" /\ doc' = IF Ended(doc) THEN doc ELSE [doc EXCEPT !.status = "failed"]
    BY <1>3 DEF Store, FailWorker
  <2>2. doc'.inside = Nowhere /\ doc'.status # "completed"
    BY <2>1, WorkingFacts DEF Doc, DocFields
  <2> QED
    BY <1>1, <2>1, <2>2, WorkingFacts, StopsSteered
<1> QED
  BY <1>2, <1>3

\* handle_manual_debug_control_requests
LEMMA RequestedSteers ==
    ASSUME Working, mine'.doc.inside = Nowhere, Went(plan, ran'),
           NEW at, NEW showing, NEW s, NEW fromQueue, NEW marker, NEW otherwise,
           Requested(mine.doc, at, showing, s, fromQueue, marker, otherwise),
           ~Doomed => Fits(plan, ran', at, s),
           at.node # Nowhere => marker = at \/ (marker.node = Nowhere /\ ~fromQueue /\ showing = at),
           at.node = Nowhere => marker.node = Nowhere /\ (showing.node = Nowhere \/ fromQueue)
    PROVE  Steered' \/ (otherwise /\ ~abortFlag)
<1> DEFINE c == mine.doc
           a == Ending(c, "aborted")
           q == Pausing(c, c.at.node)
           r == [q EXCEPT !.inside = Nowhere, !.fromQueue = fromQueue, !.cursor = marker]
<1>1. Doc(c)
  BY WorkingFacts
<1> HIDE DEF c
<1>2. CASE abortFlag
  <2>1. Store(Snapshot(a, at, s), "releasing")
    BY <1>2 DEF Requested, c
  <2>2. Doc(a) /\ a.inside = Nowhere /\ a.status = "aborted"
    BY <1>1, Documents, Changes
  <2> HIDE DEF a
  <2>3. /\ Doc(Snapshot(a, at, s)) /\ Snapshot(a, at, s).status = "aborted"
        /\ Snapshot(a, at, s).inside = Nowhere
    BY <2>2, Documents, Changes
  <2> DEFINE d == Snapshot(a, at, s)
  <2> HIDE DEF d
  <2> QED
    BY <2>1, <2>3, StoreSteers DEF d
<1>3. CASE ~abortFlag /\ pauseFlag
  <2>1. Store(Snapshot(r, showing, s), "waiting")
    BY <1>3 DEF Requested, c
  <2>2. Doc(q) /\ q.status = "paused"
    BY <1>1, Documents
  <2> HIDE DEF q
  <2>3. /\ Doc(r) /\ r.status = "paused" /\ r.inside = Nowhere /\ r.fromQueue = fromQueue
        /\ r.cursor = marker
    BY <2>2 DEF Doc, DocFields
  <2> HIDE DEF r
  <2> DEFINE d == Snapshot(r, showing, s)
  <2>4. Doc(d) /\ d.status = "paused" /\ d.inside = Nowhere
    BY <2>3, Documents, Changes
  <2>5. ~Doomed => DocFits(plan, ran', d)
    BY <2>3, PauseShows
  <2> HIDE DEF d
  <2>6. Store(d, "waiting")
    BY <2>1 DEF d
  <2> QED
    BY <2>4, <2>5, <2>6, StoreSteers
<1>4. CASE ~abortFlag /\ ~pauseFlag
  BY <1>4 DEF Requested, c
<1> QED
  BY <1>2, <1>3, <1>4

\* The thread goes on.
LEMMA WorkSteers ==
    ASSUME Working, thread' \in {"visit", "node"},
           mine'.doc.inside = Nowhere, mine'.doc.cursor.node = Nowhere, ~mine'.doc.fromQueue,
           doc'.inside = Nowhere, doc'.status # "completed", Went(plan, ran'),
           thread' = "node" => mine'.at.node # Nowhere,
           remembered \/ mine'.at.node # Nowhere => Fits(plan, ran', mine'.at, mine'.s)
    PROVE  Steered'
<1>1. Guided /\ Steered /\ Simple(plan) /\ thread \in {"begin", "visit", "node"}
  BY DEF Working
<1> QED
  BY <1>1, WorkingFacts, GoesSteered

LEMMA BeginSteers == Guided /\ Steered /\ Simple(plan) /\ Begin => Steered'
<1> SUFFICES ASSUME Guided, Steered, Simple(plan), Begin PROVE Steered'
  OBVIOUS
<1> DEFINE c == mine.doc
           d == Snapshot(Running(c), mine.at, mine.s)
           goOn == IF mine.at.node = Nowhere THEN thread' = "visit" /\ UNCHANGED doc
                   ELSE Store(d, "visit")
<1>1. /\ thread = "begin" /\ Working /\ ran' = ran
      /\ mine' = IF mine.at.node = Nowhere THEN mine ELSE [mine EXCEPT !.doc = d]
      /\ Requested(c, mine.at, mine.at, mine.s, FALSE, NoToken, goOn)
  BY DEF Begin, ThreadOnly, NothingRan, Undisturbed, Working
<1>2. /\ Doc(c) /\ c.inside = Nowhere /\ c.cursor.node = Nowhere /\ ~c.fromQueue
      /\ mine = [f \in {"doc", "s", "at", "count"} |-> mine[f]]
      /\ doc.inside = Nowhere /\ doc.status # "completed" /\ Went(plan, ran')
  BY <1>1, WorkingFacts
<1>3. /\ Doc(d) /\ d.inside = Nowhere /\ d.cursor.node = Nowhere /\ ~d.fromQueue
      /\ d.status = "running"
  <2>1. LET r == Running(c)
        IN  /\ Doc(r) /\ r.inside = Nowhere /\ r.cursor.node = Nowhere /\ ~r.fromQueue
            /\ r.status = "running"
    BY <1>2, Documents, Changes
  <2> QED
    BY <2>1, Documents, Changes
<1> HIDE DEF d
<1>4. /\ mine'.doc.inside = Nowhere /\ mine'.doc.cursor.node = Nowhere /\ ~mine'.doc.fromQueue
      /\ mine'.at = mine.at /\ mine'.s = mine.s
  BY <1>1, <1>2, <1>3
<1>5. ~Doomed => Fits(plan, ran', mine.at, mine.s)
  BY <1>1 DEF Steered, OnCourse
<1>6. CASE goOn /\ ~abortFlag
  <2>1. CASE mine.at.node = Nowhere
    <3>1. thread' = "visit" /\ doc' = doc
      BY <1>6, <2>1
    <3>2. remembered => Fits(plan, ran', mine'.at, mine'.s)
      BY <1>4, <1>5, <1>6 DEF Doomed
    <3> QED
      BY <1>1, <1>2, <1>4, <2>1, <3>1, <3>2, WorkSteers
  <2>2. CASE mine.at.node # Nowhere /\ remembered
    <3>1. Store(d, "visit")
      BY <1>6, <2>2
    <3>2. doc' = d /\ thread' = "visit"
      BY <2>2, <3>1 DEF Store
    <3>3. Fits(plan, ran', mine'.at, mine'.s)
      BY <1>4, <1>5, <1>6, <2>2 DEF Doomed
    <3> QED
      BY <1>1, <1>2, <1>3, <1>4, <3>2, <3>3, WorkSteers
  <2>3. CASE mine.at.node # Nowhere /\ ~remembered
    <3>1. Store(d, "visit")
      BY <1>6, <2>3
    <3>2. Store(d, "releasing")
      BY <2>3, <3>1 DEF Store
    <3> QED
      BY <1>1, <1>2, <1>3, <1>4, <2>3, <3>2, StoreSteers
  <2> QED
    BY <2>1, <2>2, <2>3
<1> HIDE DEF goOn
<1>7. Steered' \/ (goOn /\ ~abortFlag)
  <2>1. NoToken.node = Nowhere
    BY DEF NoToken
  <2> QED
    BY <1>1, <1>2, <1>4, <1>5, <2>1, RequestedSteers
<1> QED
  BY <1>6, <1>7

\* Where a visit or a node at work stands.
LEMMA AtNodeFits ==
    ASSUME Working, thread = "node" \/ (thread = "visit" /\ mine.at.node # Nowhere)
    PROVE  /\ mine.at.node # Nowhere /\ Fits(plan, ran, mine.at, mine.s)
           /\ mine.at.again = Once /\ mine.at.node \notin Executed(mine.s)
           /\ Putting(plan, mine.s, mine.at.node) /\ Plainly(plan)
<1>1. mine.at.node # Nowhere /\ Fits(plan, ran, mine.at, mine.s)
  BY DEF Working, Steered, OnCourse
<1> QED
  BY <1>1, FitsAtNode

LEMMA FinishSteers == Guided /\ Steered /\ Simple(plan) /\ Finish => Steered'
<1> SUFFICES ASSUME Guided, Steered, Simple(plan), Finish PROVE Steered'
  OBVIOUS
<1> DEFINE e == Ending(mine.doc, "completed")
           d == Snapshot(e, NoToken, mine.s)
<1>1. /\ thread = "visit" /\ mine.at.node = Nowhere /\ Store(d, "releasing") /\ Working
      /\ UNCHANGED <<mine, ran>>
  BY DEF Finish, ThreadOnly, NothingRan, memoryVars, Undisturbed, Working
<1>2. Doc(d) /\ d.inside = Nowhere
  <2>1. Doc(e) /\ e.inside = Nowhere
    BY <1>1, WorkingFacts, Documents, Changes
  <2> HIDE DEF e
  <2> QED
    BY <2>1, Documents, Changes
<1> HIDE DEF d
<1>3. remembered => ran' = UndisturbedOrder(plan)
  <2>1. remembered => Fits(plan, ran, mine.at, mine.s)
    BY <1>1 DEF Steered, OnCourse
  <2> QED
    BY <1>1, <2>1, FitsOrder
<1> QED
  BY <1>1, <1>2, <1>3, WorkingFacts, StoreSteers

LEMMA DropSteers == Guided /\ Steered /\ Simple(plan) /\ Drop => Steered'
<1> SUFFICES ASSUME Guided, Steered, Simple(plan), Drop PROVE FALSE
  OBVIOUS
<1>1. thread = "visit" /\ mine.at.node # Nowhere /\ Stale /\ Working
  BY DEF Drop, AtNode, ThreadOnly, NothingRan, memoryVars, Undisturbed, Working
<1>2. mine.at.node \notin Executed(mine.s)
  BY <1>1, AtNodeFits
<1> QED
  BY <1>1, <1>2 DEF Stale

LEMMA LeaveOutSteers == Guided /\ Steered /\ Simple(plan) /\ LeaveOut => Steered'
<1> SUFFICES ASSUME Guided, Steered, Simple(plan), LeaveOut PROVE Steered'
  OBVIOUS
<1> DEFINE n == mine.at.node
           t == Served(plan, mine.s, n)
           c == [mine.doc EXCEPT !.leave = Nowhere, !.inside = Nowhere]
<1>1. /\ thread = "visit" /\ n # Nowhere /\ Working /\ UNCHANGED <<doc, thread>>
      /\ ran' = Append(ran, n)
  BY DEF LeaveOut, AtNode, ThreadOnly, memoryVars, Undisturbed, Working
<1>2. Fits(plan, ran, mine.at, mine.s) /\ mine.at.again = Once
  BY <1>1, AtNodeFits
<1>3. mine' = [doc |-> c, at |-> NextAt(t), s |-> Dispatched(t), count |-> mine.count]
  <2>1. FollowAll(plan, [mine.s EXCEPT !.done = Append(@, n)], n, plan.out[n], mine.at.again) = t
    BY <1>2 DEF Served, Done
  <2> HIDE DEF n, t, c
  <2> QED
    BY <2>1 DEF LeaveOut, n, c
<1>4. c.inside = Nowhere /\ c.cursor.node = Nowhere /\ ~c.fromQueue
  BY <1>1, WorkingFacts DEF Doc, DocFields
<1>5. Fits(plan, ran', NextAt(t), Dispatched(t))
  BY <1>1, <1>2, FitsGoesOn
<1> HIDE DEF t, c
<1>6. /\ mine'.doc = c /\ mine'.at = NextAt(t) /\ mine'.s = Dispatched(t)
      /\ Fits(plan, ran', mine'.at, mine'.s)
  BY <1>3, <1>5
<1>7. Went(plan, ran')
  BY <1>6, FitsWent
<1>8. doc'.inside = Nowhere /\ doc'.status # "completed"
  BY <1>1, WorkingFacts
<1> QED
  BY <1>1, <1>4, <1>6, <1>7, <1>8, WorkSteers

\* A pause that shows the node at which the thread stands.
LEMMA PauseSteers ==
    ASSUME Working, thread = "node" \/ (thread = "visit" /\ mine.at.node # Nowhere),
           UNCHANGED <<mine, ran>>,
           NEW d, Doc(d), d.inside = Nowhere, d.cursor = mine.doc.cursor,
           d.fromQueue = mine.doc.fromQueue, d.status = "paused",
           Store(Snapshot(d, mine.at, mine.s), "waiting")
    PROVE  Steered'
<1> DEFINE e == Snapshot(d, mine.at, mine.s)
<1>1. /\ mine.at.node # Nowhere /\ Fits(plan, ran, mine.at, mine.s)
  BY AtNodeFits
<1>2. Doc(e) /\ e.inside = Nowhere /\ e.status = "paused"
  BY Documents, Changes
<1>3. DocFits(plan, ran', e)
  BY <1>1, WorkingFacts, PauseShows
<1> HIDE DEF e
<1>4. Store(e, "waiting")
  BY DEF e
<1> QED
  BY <1>2, <1>3, <1>4, WorkingFacts, StoreSteers

LEMMA StopBeforeSteers ==
    ASSUME Guided, Steered, Simple(plan), NEW hit, StopBefore(hit) PROVE Steered'
<1> DEFINE n == mine.at.node
           p == Pausing(mine.doc, n)
           q == [p EXCEPT !.hit[n] = IF hit THEN "before" ELSE @]
<1>1. /\ thread = "visit" /\ n # Nowhere /\ Working /\ UNCHANGED <<mine, ran>>
      /\ Store(Snapshot(q, mine.at, mine.s), "waiting")
  BY DEF StopBefore, ToRun, AtNode, ThreadOnly, NothingRan, memoryVars, Undisturbed, Working
<1>2. /\ Doc(p) /\ p.inside = Nowhere /\ p.cursor = mine.doc.cursor
      /\ p.fromQueue = mine.doc.fromQueue /\ p.status = "paused"
  BY <1>1, WorkingFacts, Documents, Changes
<1> HIDE DEF p
<1>3. /\ Doc(q) /\ q.inside = Nowhere /\ q.cursor = mine.doc.cursor
      /\ q.fromQueue = mine.doc.fromQueue /\ q.status = "paused"
  BY <1>2 DEF Doc, DocFields
<1> HIDE DEF q
<1> QED
  BY <1>1, <1>3, PauseSteers

LEMMA NodeFailsSteers == Guided /\ Steered /\ Simple(plan) /\ NodeFails => Steered'
<1> SUFFICES ASSUME Guided, Steered, Simple(plan), NodeFails PROVE Steered'
  OBVIOUS
<1> DEFINE p == Pausing(mine.doc, mine.at.node)
           q == [p EXCEPT !.raised = TRUE, !.inside = Nowhere, !.leave = Nowhere]
<1>1. /\ thread = "node" /\ Working /\ UNCHANGED <<mine, ran>>
      /\ Store(Snapshot(q, mine.at, mine.s), "waiting")
  BY DEF NodeFails, ThreadOnly, NothingRan, memoryVars, Undisturbed, Working
<1>2. /\ Doc(p) /\ p.cursor = mine.doc.cursor
      /\ p.fromQueue = mine.doc.fromQueue /\ p.status = "paused"
  BY <1>1, WorkingFacts, Documents, Changes
<1> HIDE DEF p
<1>3. /\ Doc(q) /\ q.inside = Nowhere /\ q.cursor = mine.doc.cursor
      /\ q.fromQueue = mine.doc.fromQueue /\ q.status = "paused"
  BY <1>2 DEF Doc, DocFields
<1> HIDE DEF q
<1> QED
  BY <1>1, <1>3, PauseSteers

LEMMA StopInsideSteers == Guided /\ Steered /\ Simple(plan) /\ StopInside => Steered'
BY DEF StopInside, Simple

LEMMA StartNodeSteers == Guided /\ Steered /\ Simple(plan) /\ StartNode => Steered'
<1> SUFFICES ASSUME Guided, Steered, Simple(plan), StartNode PROVE Steered'
  OBVIOUS
<1> DEFINE n == mine.at.node
           past == IF Guarded(n) /\ mine.doc.skip = n THEN Nowhere ELSE mine.doc.skip
           k == [mine.doc EXCEPT !.skip = past]
           r == Running(k)
           d == Snapshot(r, mine.at, mine.s)
<1>1. /\ thread = "visit" /\ n # Nowhere /\ Working /\ ran' = ran /\ Store(d, "node")
      /\ mine' = [mine EXCEPT !.doc = d]
  BY DEF StartNode, ToRun, AtNode, ThreadOnly, NothingRan, memoryVars, Undisturbed, Working
<1> HIDE DEF past
<1>2. /\ Doc(d) /\ d.inside = Nowhere /\ d.cursor.node = Nowhere /\ ~d.fromQueue
      /\ d.status = "running"
  <2>1. Doc(k) /\ k.inside = Nowhere /\ k.cursor.node = Nowhere
    BY <1>1, WorkingFacts DEF Doc, DocFields
  <2> HIDE DEF k
  <2>2. Doc(r) /\ r.inside = Nowhere /\ r.cursor.node = Nowhere /\ ~r.fromQueue /\ r.status = "running"
    BY <2>1, Documents, Changes
  <2> HIDE DEF r
  <2> QED
    BY <2>2, Documents, Changes
<1> HIDE DEF d
<1>3. mine'.doc = d /\ mine'.at = mine.at /\ mine'.s = mine.s
  BY <1>1, WorkingFacts
<1>4. Went(plan, ran') /\ Fits(plan, ran', mine'.at, mine'.s) /\ mine'.at.node # Nowhere
  BY <1>1, <1>3, AtNodeFits, FitsWent
<1>5. CASE remembered
  <2>1. doc' = d /\ thread' = "node"
    BY <1>1, <1>5 DEF Store
  <2> QED
    BY <1>1, <1>2, <1>3, <1>4, <2>1, WorkSteers
<1>6. CASE ~remembered
  <2>1. Store(d, "releasing")
    BY <1>1, <1>6 DEF Store
  <2> QED
    BY <1>1, <1>2, <1>3, <1>4, <2>1, StoreSteers
<1> QED
  BY <1>5, <1>6

LEMMA NodeDoneSteers ==
    ASSUME Guided, Steered, Simple(plan), NEW stop, NodeDone(stop) PROVE Steered'
<1> DEFINE n     == mine.at.node
           t     == Served(plan, mine.s, n)
           next  == NextAt(t)
           left  == Dispatched(t)
           count == mine.count + 1
           d     == mine.doc
           p     == Pausing(d, n)
           after == [p EXCEPT !.inside = Nowhere, !.fromQueue = TRUE, !.cursor = next,
                              !.hit[n] = IF stop = "hit" THEN "after" ELSE @]
           due   == [p EXCEPT !.inside = Nowhere]
           e     == Ending(d, "completed")
           onward == IF next.node = Nowhere
                     THEN Store(Snapshot(e, NoToken, left), "releasing")
                     ELSE Store(Snapshot(due, next, left), "waiting")
           goOn  == IF StepIsDone(count) THEN onward ELSE thread' = "visit" /\ UNCHANGED doc
<1>1. thread = "node" /\ Working /\ ran' = Append(ran, n)
  BY DEF NodeDone, ThreadOnly, Undisturbed, Working
<1>2. /\ n # Nowhere /\ Fits(plan, ran, mine.at, mine.s) /\ mine.at.again = Once
      /\ Putting(plan, mine.s, n) /\ Plainly(plan)
  BY <1>1, AtNodeFits
<1>3. Through(plan, mine.s, n, mine.at.again, turns[n]) = t
  <2> HIDE DEF n
  <2> QED
    BY <1>2, ThroughPlainly
<1>4. /\ mine' = [mine EXCEPT !.at = next, !.s = left, !.count = count]
      /\ stop # "no" => Store(Snapshot(after, mine.at, left), "waiting")
      /\ stop = "no" => Requested(d, next, mine.at, left, TRUE, next, goOn)
  <2> HIDE DEF t
  <2> QED
    BY <1>3, Zenon DEF NodeDone
<1>5. Fits(plan, ran', next, left) /\ Went(plan, ran')
  <2>1. Fits(plan, ran', next, left)
    BY <1>1, <1>2, FitsGoesOn
  <2> QED
    BY <2>1, FitsWent
<1> HIDE DEF t, next, left, count
<1>6. /\ Doc(d) /\ d.inside = Nowhere /\ d.cursor.node = Nowhere /\ ~d.fromQueue
      /\ mine'.doc = d /\ mine'.at = next /\ mine'.s = left
      /\ doc.inside = Nowhere /\ doc.status # "completed"
  BY <1>1, <1>4, WorkingFacts
<1>7. /\ Doc(p) /\ p.inside = Nowhere /\ p.cursor = d.cursor /\ p.fromQueue = d.fromQueue
      /\ p.status = "paused"
  BY <1>6, Documents, Changes
<1>8. Doc(e) /\ e.inside = Nowhere
  BY <1>6, Documents, Changes
<1> HIDE DEF p, e
<1>9. CASE stop # "no"
  <2>1. /\ Doc(after) /\ after.inside = Nowhere /\ after.fromQueue /\ after.cursor = next
        /\ after.status = "paused"
    BY <1>7 DEF Doc, DocFields
  <2> HIDE DEF after
  <2> DEFINE x == Snapshot(after, mine.at, left)
  <2>2. Doc(x) /\ x.inside = Nowhere /\ x.status = "paused"
    BY <2>1, Documents, Changes
  <2>3. DocFits(plan, ran', x)
    BY <1>5, <2>1, PauseShows
  <2> HIDE DEF x
  <2>4. Store(x, "waiting")
    BY <1>4, <1>9 DEF x
  <2> QED
    BY <1>1, <1>5, <1>6, <2>2, <2>3, <2>4, StoreSteers
<1>10. CASE stop = "no" /\ goOn
  <2>1. CASE StepIsDone(count) /\ next.node = Nowhere
    <3> DEFINE x == Snapshot(e, NoToken, left)
    <3>1. Doc(x) /\ x.inside = Nowhere
      BY <1>8, Documents, Changes
    <3> HIDE DEF x
    <3>2. Store(x, "releasing")
      BY <1>10, <2>1 DEF x
    <3>3. ran' = UndisturbedOrder(plan)
      BY <1>5, <2>1, FitsOrder
    <3> QED
      BY <1>1, <1>5, <1>6, <3>1, <3>2, <3>3, StoreSteers
  <2>2. CASE StepIsDone(count) /\ next.node # Nowhere
    <3>1. /\ Doc(due) /\ due.inside = Nowhere /\ due.cursor = d.cursor
          /\ due.fromQueue = d.fromQueue /\ due.status = "paused"
      BY <1>7 DEF Doc, DocFields
    <3> HIDE DEF due
    <3> DEFINE x == Snapshot(due, next, left)
    <3>2. Doc(x) /\ x.inside = Nowhere /\ x.status = "paused"
      BY <3>1, Documents, Changes
    <3>3. DocFits(plan, ran', x)
      BY <1>5, <1>6, <2>2, <3>1, PauseShows
    <3> HIDE DEF x
    <3>4. Store(x, "waiting")
      BY <1>10, <2>2 DEF x
    <3> QED
      BY <1>1, <1>5, <1>6, <3>2, <3>3, <3>4, StoreSteers
  <2>3. CASE ~StepIsDone(count)
    <3>1. thread' = "visit" /\ doc' = doc
      BY <1>10, <2>3
    <3> QED
      BY <1>1, <1>5, <1>6, <3>1, WorkSteers
  <2> QED
    BY <2>1, <2>2, <2>3
<1> HIDE DEF goOn
<1>11. CASE stop = "no"
  <2>1. Steered' \/ (goOn /\ ~abortFlag)
    BY <1>1, <1>4, <1>5, <1>6, <1>11, RequestedSteers
  <2> QED
    BY <1>10, <1>11, <2>1
<1> QED
  BY <1>9, <1>11

\* A thread that starts takes up what the document shows.
LEMMA LoadSteers == Guided /\ Steered /\ Simple(plan) /\ Load => Steered'
<1> SUFFICES ASSUME Guided, Steered, Simple(plan), Load PROVE Steered'
  OBVIOUS
<1>1. /\ thread = "starting" /\ UNCHANGED <<plan, control, ran, remembered, abortFlag>>
      /\ (Doomed' <=> Doomed) /\ (~Doomed => control.pc = "idle") /\ Doc(doc)
  BY GuidedFacts DEF Load, ThreadOnly, NothingRan, Doomed, Guided, Stepping
<1>2. CASE thread' = "ending" /\ UNCHANGED <<doc, mine>>
  BY <1>1, <1>2 DEF Steered, Calm, OnCourse
<1>3. CASE FailWorker /\ UNCHANGED mine
  <2>1. /\ thread' = "releasing" /\ doc'.inside = doc.inside
        /\ doc'.status = "completed" => doc.status = "completed"
    BY <1>1, <1>3 DEF FailWorker, Doc, DocFields
  <2> QED
    BY <1>1, <1>3, <2>1 DEF Steered, Calm, OnCourse
<1>4. CASE ~Ended(doc) /\ mine' = Resumption(doc) /\ thread' = "begin" /\ UNCHANGED doc
  <2> DEFINE m == Resumption(doc)
  <2>1. m.doc.inside = Nowhere /\ m.doc.cursor.node = Nowhere /\ ~m.doc.fromQueue
    <3> DEFINE popped == [doc EXCEPT !.fromQueue = FALSE]
               moved == [popped EXCEPT !.cursor = NoToken]
    <3>1. /\ Doc(popped) /\ popped.inside = Nowhere /\ ~popped.fromQueue
          /\ popped.cursor = doc.cursor
      BY <1>1 DEF Doc, DocFields, Steered, Calm
    <3>2. moved.inside = Nowhere /\ moved.cursor.node = Nowhere /\ ~moved.fromQueue
      BY <3>1 DEF Doc, DocFields, NoToken
    <3>3. \E x, y : \/ m = [doc |-> moved, at |-> x, s |-> y, count |-> 0]
                    \/ m = [doc |-> popped, at |-> x, s |-> y, count |-> 0] /\ doc.cursor.node = Nowhere
      <4> HIDE DEF popped, moved
      <4> QED
        BY Zenon DEF Resumption, popped, moved
    <3> HIDE DEF popped, moved, m
    <3> QED
      BY <3>1, <3>2, <3>3
  <2>2. ~Doomed => Fits(plan, ran, m.at, m.s)
    <3> SUFFICES ASSUME ~Doomed PROVE Fits(plan, ran, m.at, m.s)
      OBVIOUS
    <3>1. DocFits(plan, ran, doc)
      BY <1>1, <1>4 DEF Steered, OnCourse
    <3>2. PICK at, s : Fits(plan, ran, at, s) /\ Shows(doc, at, s)
      BY <3>1 DEF DocFits
    <3> HIDE DEF m
    <3> QED
      BY <3>2, ResumesThere DEF m
  <2> HIDE DEF m
  <2>3. mine' = m
    BY <1>4 DEF m
  <2>4. doc.status # "completed"
    BY <1>4 DEF Ended, Terminal
  <2> QED
    BY <1>1, <1>4, <2>1, <2>2, <2>3, <2>4 DEF Steered, Calm, OnCourse
<1> QED
  BY <1>2, <1>3, <1>4 DEF Load

\* The thread sleeps, wakes and leaves; a client asks.
LEMMA RestSteers ==
    Guided /\ Steered /\ Simple(plan) /\ (Wake \/ Release \/ Exit \/ Launch) => Steered'
<1> SUFFICES ASSUME Guided, Steered, Simple(plan), Wake \/ Release \/ Exit \/ Launch PROVE Steered'
  OBVIOUS
<1>1. /\ UNCHANGED <<plan, doc, mine, control, ran>> /\ (Doomed => Doomed')
      /\ \/ thread = "waiting" /\ thread' = "starting"
         \/ thread = "unstarted" /\ thread' = "starting"
         \/ thread' \in {"ending", "none"}
  BY DEF Wake, Release, Exit, Launch, ThreadOnly, NothingRan, RequestOnly, memoryVars, requestVars,
         Forgotten, Doomed
<1> QED
  BY <1>1 DEF Steered, Calm, OnCourse

LEMMA AskSteers == ASSUME Guided, Steered, Simple(plan), NEW what, AskToGoOn(what) PROVE Steered'
<1>1. /\ doc.status = "paused"
      /\ control' = [pc |-> "asked", what |-> what, seen |-> doc]
      /\ UNCHANGED <<plan, doc, mine, thread, remembered, abortFlag, ran>>
  BY DEF AskToGoOn, RequestOnly, memoryVars
<1>2. ~Doomed => DocFits(plan, ran, doc)
  <2>1. ~Doomed => thread = "waiting" /\ ~Ended(doc)
    BY <1>1 DEF Guided, Stepping, Ended, Terminal
  <2> QED
    BY <2>1 DEF Steered, OnCourse
<1> QED
  BY <1>1, <1>2 DEF Steered, Calm, OnCourse, Doomed

LEMMA WriteSteers == Guided /\ Steered /\ Simple(plan) /\ WriteRequest => Steered'
<1> SUFFICES ASSUME Guided, Steered, Simple(plan), WriteRequest PROVE Steered'
  OBVIOUS
<1> DEFINE seen == control.seen
<1>1. /\ control.pc = "asked" /\ doc' = Patched(seen, control.what)
      /\ control' = [control EXCEPT !.pc = "written"]
      /\ UNCHANGED <<plan, mine, thread, remembered, abortFlag, ran>>
  BY DEF WriteRequest, RequestOnly
<1>2. /\ control' = [f \in {"pc", "what", "seen"} |-> control'[f]]
      /\ control'.pc = "written" /\ control'.seen = seen /\ Doc(seen)
  BY <1>1 DEF Guided, Shaped, Doc
<1>3. /\ doc'.at = seen.at /\ doc'.queue = seen.queue /\ doc'.done = seen.done
      /\ doc'.arrived = seen.arrived /\ doc'.cursor = seen.cursor
      /\ doc'.fromQueue = seen.fromQueue /\ doc'.inside = seen.inside
      /\ doc'.status \in {"running", "stepping"}
  BY <1>1, <1>2, Changes, Documents
<1> HIDE DEF seen
<1>4. ~Doomed => DocFits(plan, ran, doc')
  <2> SUFFICES ASSUME ~Doomed PROVE DocFits(plan, ran, doc')
    OBVIOUS
  <2>1. DocFits(plan, ran, seen)
    BY <1>1 DEF Steered, OnCourse, seen
  <2> QED
    BY <1>3, <2>1 DEF DocFits, Shows
<1>5. seen.inside = Nowhere /\ seen.status # "completed"
  BY DEF Steered, Calm, seen
<1> QED
  BY <1>1, <1>2, <1>3, <1>4, <1>5 DEF Steered, Calm, OnCourse, Doomed

LEMMA SignalSteers == Guided /\ Steered /\ Simple(plan) /\ Signal => Steered'
<1> SUFFICES ASSUME Guided, Steered, Simple(plan), Signal PROVE Steered'
  OBVIOUS
<1>1. /\ control' = [control EXCEPT !.pc = "idle", !.seen = FirstDoc(plan)]
      /\ UNCHANGED <<plan, mine, remembered, abortFlag, ran>>
      /\ Doomed' <=> Doomed
  BY DEF Signal, RequestOnly, memoryVars, Doomed
<1>2. /\ control'.pc = "idle" /\ control'.seen.inside = Nowhere /\ control'.seen.status # "completed"
  BY <1>1 DEF Guided, Shaped, FirstDoc
<1>3. CASE Alive
  <2>1. UNCHANGED <<doc, thread>>
    BY <1>3 DEF Signal
  <2> QED
    BY <1>1, <1>2, <2>1 DEF Steered, Calm, OnCourse
<1>4. CASE ~Alive
  <2>1. Doomed
    BY <1>4 DEF Signal, Guided, Stepping, Alive
  <2>2. doc' \in {doc, control.seen} /\ thread' \in {"none", "unstarted", "starting"}
    BY <1>4 DEF Signal, Alive
  <2> QED
    BY <1>1, <1>2, <2>1, <2>2 DEF Steered, Calm, OnCourse
<1> QED
  BY <1>3, <1>4

LEMMA AbortSteers ==
    Guided /\ Steered /\ Simple(plan) /\ (FlagAbort \/ WriteAbort \/ ReleaseAborted \/ Restart) => Steered'
<1> SUFFICES ASSUME Guided, Steered, Simple(plan), FlagAbort \/ WriteAbort \/ ReleaseAborted \/ Restart
             PROVE  Steered'
  OBVIOUS
<1>1. CASE FlagAbort \/ ReleaseAborted
  <2>1. /\ UNCHANGED <<plan, doc, mine, thread, control, ran>> /\ Doomed'
        /\ remembered' => remembered
    BY <1>1 DEF FlagAbort, ReleaseAborted, RequestOnly, Forgotten, Doomed
  <2> QED
    BY <2>1 DEF Steered, Calm, OnCourse
<1>2. CASE WriteAbort
  <2>1. /\ thread \in {"none", "unstarted"} /\ doc' = Ending(doc, "aborted")
        /\ UNCHANGED <<plan, mine, thread, remembered, abortFlag, control, ran>>
    BY <1>2 DEF WriteAbort, RequestOnly, memoryVars, Alive
  <2>2. doc'.inside = Nowhere /\ doc'.status = "aborted"
    BY <2>1, GuidedFacts, Documents, Changes
  <2>3. Ended(doc')
    BY <2>2 DEF Ended, Terminal
  <2>4. (~Doomed' => ~Doomed) /\ (Ended(doc)' <=> Ended(doc'))
    BY <2>1 DEF Doomed, Ended
  <2> QED
    BY <2>1, <2>2, <2>3, <2>4 DEF Steered, Calm, OnCourse
<1>3. CASE Restart
  <2>1. /\ doc' = IF Ended(doc) THEN doc ELSE [doc EXCEPT !.status = "incomplete"]
        /\ thread' = "none" /\ remembered' = FALSE
        /\ control' = [pc |-> "idle", what |-> "none", seen |-> FirstDoc(plan)]
        /\ UNCHANGED <<plan, mine, ran>>
    BY <1>3 DEF Restart, RequestOnly, Forgotten
  <2>2. /\ doc'.inside = doc.inside /\ (doc'.status = "completed" => doc.status = "completed")
    BY <2>1, GuidedFacts DEF Doc, DocFields
  <2>3. Doomed' /\ control'.pc = "idle" /\ control'.seen.inside = Nowhere
        /\ control'.seen.status # "completed"
    BY <2>1 DEF Doomed, FirstDoc
  <2> QED
    BY <2>1, <2>2, <2>3 DEF Steered, Calm, OnCourse
<1> QED
  BY <1>1, <1>2, <1>3

LEMMA SteeredStarts == DebugInit => Steered
<1> SUFFICES ASSUME DebugInit, Simple(plan) PROVE Steered
  BY DEF Steered
<1> DEFINE d == FirstDoc(plan)
           x == FirstTurn(plan)
<1>1. /\ plan \in Plans /\ doc = d /\ thread = "unstarted" /\ ran = <<>>
      /\ mine = [doc |-> doc, s |-> EmptySchedule, at |-> NoToken, count |-> 0]
      /\ control = [pc |-> "idle", what |-> "none", seen |-> doc]
  BY DEF DebugInit
<1>2. Fits(plan, ran, x.at, x.s)
  BY <1>1, FitsFirst
<1>3. /\ d.inside = Nowhere /\ d.status = "preparing" /\ d.cursor.node = Nowhere /\ ~d.fromQueue
      /\ d.at = [node |-> plan.order[1], again |-> FALSE]
      /\ d.queue = <<>> /\ d.done = <<>> /\ d.arrived = {}
  BY DEF FirstDoc, NoToken
<1>4. Shows(d, x.at, x.s)
  <2>1. /\ x.at = [node |-> plan.start, again |-> FALSE]
        /\ x.s.queue = <<>> /\ x.s.done = <<>> /\ x.s.arrived = {}
    BY DEF FirstTurn, EmptySchedule
  <2>2. plan.order[1] = plan.start /\ plan.start # Nowhere
    BY <1>1, PlansAssumption DEF Simple, PlanType
  <2> HIDE DEF d, x
  <2> QED
    BY <1>3, <2>1, <2>2 DEF Shows
<1> HIDE DEF d, x
<1>5. DocFits(plan, ran, doc)
  BY <1>1, <1>2, <1>4 DEF DocFits
<1>6. Went(plan, ran)
  BY <1>2, FitsWent
<1> QED
  BY <1>1, <1>3, <1>5, <1>6 DEF Steered, Calm, OnCourse

LEMMA SteeredStays == Guided /\ Steered /\ [DebugNext]_debugVars => Steered'
<1> SUFFICES ASSUME Guided, Steered, [DebugNext]_debugVars, Simple(plan) PROVE Steered'
  <2>1. [DebugNext]_debugVars => plan' = plan
    BY DEF DebugNext, debugVars, Thread, GoOn, Abort, Load, Begin, Finish, Drop, LeaveOut, StopBefore,
           StartNode, NodeFails, StopInside, NodeDone, Wake, Release, Exit, Launch, WriteRequest,
           Signal, FlagPause, FlagAbort, WriteAbort, ReleaseAborted, Restart, AskToGoOn, AskToPause,
           AskToAbort, ThreadOnly, RequestOnly
  <2> QED
    BY <2>1 DEF Steered
<1>1. CASE Thread
  BY <1>1, LoadSteers, BeginSteers, FinishSteers, DropSteers, LeaveOutSteers, StopBeforeSteers,
     StartNodeSteers, NodeFailsSteers, StopInsideSteers, NodeDoneSteers, RestSteers DEF Thread
<1>2. CASE Launch
  BY <1>2, RestSteers
<1>3. CASE GoOn
  BY <1>3, WriteSteers, SignalSteers DEF GoOn
<1>4. CASE FlagPause \/ AskToPause \/ AskToAbort \/ UNCHANGED debugVars
  <2>1. UNCHANGED <<plan, doc, mine, thread, remembered, abortFlag, control, ran>>
    BY <1>4 DEF FlagPause, AskToPause, AskToAbort, RequestOnly, memoryVars, debugVars
  <2> QED
    BY <2>1 DEF Steered, Calm, OnCourse, Doomed, Ended
<1>5. CASE Abort \/ Restart
  BY <1>5, AbortSteers DEF Abort
<1>6. CASE \E what \in {"continue", "step", "out"} : AskToGoOn(what)
  BY <1>6, AskSteers
<1> QED
  BY <1>1, <1>2, <1>3, <1>4, <1>5, <1>6 DEF DebugNext

\* However often a session of such a plan is paused, stepped, continued and
\* left with an exception, it goes through the nodes in the order of a run.
THEOREM FollowsPlan == DebugSpec => []DebugFollowsPlan
<1> QED
  BY SteeredFollows, SteeredStarts, SteeredStays, GuidedStarts, GuidedStays, PTL DEF DebugSpec

---------------------------------------------------------------------------
(* DebugSession: types, for every plan.                                  *)

Spots == PlanNodes(plan) \cup {Nowhere}
Progresses == Schedules(plan, BOOLEAN)

\* The documents that are written: no token of their queue is without a node.
Written == {d \in Docs : d.queue \in Seq(TokensOf(plan, BOOLEAN))}
Copies == [doc : Written, s : Progresses, at : Tokens, count : Nat]
Wishes == [pc : {"idle", "asked", "written"}, what : {"none", "continue", "step", "out"}, seen : Written]
ThreadStates == {"unstarted", "starting", "begin", "visit", "node", "waiting", "releasing", "ending", "none"}

RequestsTyped ==
    /\ control \in Wishes /\ (control.pc = "asked" => control.what # "none")
    /\ pauser \in {"idle", "asked"} /\ aborter \in {"idle", "asked", "written"}
    /\ overwritten \in BOOLEAN

MemoryTyped ==
    resume \in BOOLEAN /\ remembered \in BOOLEAN /\ context \in BOOLEAN
    /\ pauseFlag \in BOOLEAN /\ abortFlag \in BOOLEAN

CountsTyped ==
    turns \in [PlanNodes(plan) -> Nat] /\ ran \in Seq(PlanNodes(plan)) /\ stepped \in Nat

\* A thread that runs a node is at one.
ThreadTyped ==
    thread \in ThreadStates /\ mine \in Copies /\ (thread = "node" => mine.at.node # Nowhere)

DebugTyped ==
    plan \in Plans /\ doc \in Written
    /\ RequestsTyped /\ MemoryTyped /\ CountsTyped /\ ThreadTyped

LEMMA TypedMeans == DebugTyped => DebugTypeOK
<1> SUFFICES ASSUME DebugTyped PROVE DebugTypeOK
  OBVIOUS
<1>1. /\ doc \in Docs /\ control.seen \in Docs /\ control.pc \in {"idle", "asked", "written"}
  BY DEF DebugTyped, RequestsTyped, Written, Wishes
<1> QED
  BY <1>1 DEF DebugTyped, RequestsTyped, MemoryTyped, CountsTyped, ThreadTyped, DebugTypeOK, ThreadStates

LEMMA SamePlan ==
    ASSUME plan' = plan
    PROVE  Spots' = Spots /\ Progresses' = Progresses /\ Written' = Written /\ Copies' = Copies /\ Wishes' = Wishes
           /\ Tokens' = Tokens /\ PlanNodes(plan') = PlanNodes(plan)
BY DEF Spots, Progresses, Written, Copies, Wishes, Tokens, Docs

LEMMA SpotFacts ==
    ASSUME plan \in Plans
    PROVE  PlanType(plan) /\ plan.start \in PlanNodes(plan) /\ Nowhere \notin PlanNodes(plan)
           /\ plan.order[1] \in PlanNodes(plan) /\ TokensOf(plan, BOOLEAN) \subseteq Tokens
           /\ NoToken \in Tokens
<1>1. PlanType(plan)
  BY PlansAssumption DEF PlansAssumption
<1>2. plan.start \in PlanNodes(plan) /\ Nowhere \notin PlanNodes(plan) /\ plan.order \in Seq(PlanNodes(plan))
  BY <1>1 DEF PlanType
<1>3. plan.order[1] \in PlanNodes(plan)
  <2>1. PICK i \in DOMAIN plan.order : plan.order[i] = plan.start
    BY <1>2 DEF PlanNodes
  <2>2. 1 \in DOMAIN plan.order
    BY <1>2, <2>1
  <2> QED
    BY <2>2 DEF PlanNodes
<1>4. TokensOf(plan, BOOLEAN) \subseteq Tokens /\ NoToken \in Tokens
  BY DEF TokensOf, Tokens, NoToken
<1> QED
  BY <1>1, <1>2, <1>3, <1>4

---------------------------------------------------------------------------
(* What the changes of a document keep.                                  *)

LEMMA FieldTypes ==
    ASSUME NEW d \in Docs
    PROVE  /\ d.at \in Tokens /\ d.queue \in Seq(Tokens) /\ d.done \in Seq(PlanNodes(plan))
           /\ d.arrived \in SUBSET (PlanNodes(plan) \X PlanNodes(plan)) /\ d.cursor \in Tokens
           /\ d.skip \in Spots /\ d.leave \in Spots /\ d.pausedAt \in Spots /\ d.inside \in Spots
           /\ d.hit \in [PlanNodes(plan) -> {"none", "before", "after"}]
           /\ d.status \in Active \cup Terminal /\ d.mode \in {"none", "step", "out"}
           /\ d.fromQueue \in BOOLEAN /\ d.raised \in BOOLEAN
BY DEF Docs, Spots

LEMMA FieldChanges ==
    ASSUME NEW d \in Written
    PROVE  /\ \A x \in Active \cup Terminal : [d EXCEPT !.status = x] \in Written
           /\ \A x \in Spots : [d EXCEPT !.skip = x] \in Written
           /\ \A x \in Spots : [d EXCEPT !.leave = x] \in Written
           /\ \A x \in Spots : [d EXCEPT !.inside = x] \in Written
           /\ \A x \in Tokens : [d EXCEPT !.cursor = x] \in Written
           /\ \A x \in BOOLEAN : [d EXCEPT !.fromQueue = x] \in Written
           /\ \A x \in BOOLEAN : [d EXCEPT !.raised = x] \in Written
           /\ \A n \in PlanNodes(plan), x \in {"none", "before", "after"} : [d EXCEPT !.hit[n] = x] \in Written
<1>1. d \in Docs /\ d.queue \in Seq(TokensOf(plan, BOOLEAN))
  BY DEF Written
<1>2. ASSUME NEW x \in Active \cup Terminal PROVE [d EXCEPT !.status = x] \in Written
  BY <1>1 DEF Written, Docs
<1>3. ASSUME NEW x \in Spots PROVE [d EXCEPT !.skip = x] \in Written
  BY <1>1 DEF Written, Docs, Spots
<1>4. ASSUME NEW x \in Spots PROVE [d EXCEPT !.leave = x] \in Written
  BY <1>1 DEF Written, Docs, Spots
<1>5. ASSUME NEW x \in Spots PROVE [d EXCEPT !.inside = x] \in Written
  BY <1>1 DEF Written, Docs, Spots
<1>6. ASSUME NEW x \in Tokens PROVE [d EXCEPT !.cursor = x] \in Written
  BY <1>1 DEF Written, Docs
<1>7. ASSUME NEW x \in BOOLEAN PROVE [d EXCEPT !.fromQueue = x] \in Written
  BY <1>1 DEF Written, Docs
<1>8. ASSUME NEW x \in BOOLEAN PROVE [d EXCEPT !.raised = x] \in Written
  BY <1>1 DEF Written, Docs
<1>9. ASSUME NEW n \in PlanNodes(plan), NEW x \in {"none", "before", "after"}
      PROVE  [d EXCEPT !.hit[n] = x] \in Written
  BY <1>1 DEF Written, Docs
<1> QED
  BY <1>2, <1>3, <1>4, <1>5, <1>6, <1>7, <1>8, <1>9

LEMMA SnapshotTyped ==
    ASSUME NEW d \in Written, NEW at \in Tokens, NEW s \in Progresses, plan \in Plans
    PROVE  Snapshot(d, at, s) \in Written
<1>1. d \in Docs /\ s.queue \in Seq(TokensOf(plan, BOOLEAN)) /\ s.done \in Seq(PlanNodes(plan))
      /\ s.arrived \in SUBSET (PlanNodes(plan) \X PlanNodes(plan))
  BY DEF Written, Progresses, Schedules
<1>2. s.queue \in Seq(Tokens)
  BY <1>1, SpotFacts
<1> QED
  BY <1>1, <1>2 DEF Written, Docs, Snapshot

LEMMA DocumentsTyped ==
    ASSUME NEW d \in Written
    PROVE  /\ \A n \in Spots : Pausing(d, n) \in Written
           /\ \A x \in Terminal : Ending(d, x) \in Written
           /\ Running(d) \in Written
           /\ \A what \in {"continue", "step", "out"} : Patched(d, what) \in Written
<1>1. d \in Docs /\ d.queue \in Seq(TokensOf(plan, BOOLEAN))
  BY DEF Written
<1>2. ASSUME NEW n \in Spots PROVE Pausing(d, n) \in Written
  BY <1>1 DEF Written, Docs, Spots, Pausing, Active
<1>3. ASSUME NEW x \in Terminal PROVE Ending(d, x) \in Written
  BY <1>1 DEF Written, Docs, Ending
<1>4. Running(d) \in Written
  BY <1>1 DEF Written, Docs, Running, Active
<1>5. ASSUME NEW what \in {"continue", "step", "out"} PROVE Patched(d, what) \in Written
  <2>1. d.at.node \in Spots /\ SkipFor(d) \in Spots
    BY <1>1, FieldTypes DEF Tokens, Spots, SkipFor
  <2>2. CASE what = "continue"
    <3> DEFINE x == IF d.raised THEN d.at.node ELSE Nowhere
    <3>1. x \in Spots
      BY <2>1 DEF Spots
    <3> HIDE DEF x
    <3>2. Patched(d, what) = [d EXCEPT !.status = "running", !.mode = "none", !.raised = FALSE,
                                       !.skip = SkipFor(d), !.leave = x]
      BY <2>2 DEF Patched, x
    <3> QED
      BY <1>1, <2>1, <3>1, <3>2 DEF Written, Docs, Spots, Active
  <2>3. CASE what \in {"step", "out"}
    <3>1. Patched(d, what) = [d EXCEPT !.status = "stepping", !.mode = what, !.raised = FALSE]
      BY <2>3 DEF Patched
    <3> QED
      BY <1>1, <2>3, <3>1 DEF Written, Docs, Active
  <2> QED
    BY <2>2, <2>3
<1> QED
  BY <1>2, <1>3, <1>4, <1>5
---------------------------------------------------------------------------
(* What the scheduler's operators keep.                                  *)

LEMMA FollowAllTyped ==
    ASSUME NEW s \in Progresses, NEW n \in PlanNodes(plan), NEW edges \in Seq(EdgesOf(plan)),
           NEW again \in BOOLEAN
    PROVE  FollowAll(plan, s, n, edges, again) \in Progresses
<1>1. s \in Schedules(plan, BOOLEAN)
  BY DEF Progresses
<1>2. Sends(plan, BOOLEAN, again, edges)
  <2>1. ASSUME NEW i \in DOMAIN edges PROVE edges[i].back \in BOOLEAN
    <3>1. edges[i] \in EdgesOf(plan)
      OBVIOUS
    <3> QED
      BY <3>1 DEF EdgesOf
  <2> QED
    BY <2>1 DEF Sends
<1>3. PICK f : Between(f, plan, BOOLEAN, s, n, edges, again)
  BY <1>1, <1>2, FollowsEach
<1>4. Len(edges) \in 0 .. Len(edges)
  OBVIOUS
<1> QED
  BY <1>3, <1>4 DEF Between, Progresses

LEMMA EdgesTyped ==
    ASSUME plan \in Plans, NEW n \in PlanNodes(plan)
    PROVE  /\ plan.out[n] \in Seq(EdgesOf(plan))
           /\ Looping(plan, n) => <<plan.out[n][1]>> \in Seq(EdgesOf(plan))
                                  /\ Tail(plan.out[n]) \in Seq(EdgesOf(plan))
<1>1. plan.out[n] \in Seq(EdgesOf(plan)) /\ (Looping(plan, n) => plan.out[n] # <<>>)
  BY SpotFacts DEF PlanType, EdgesOf
<1>2. ASSUME Looping(plan, n)
      PROVE  <<plan.out[n][1]>> \in Seq(EdgesOf(plan)) /\ Tail(plan.out[n]) \in Seq(EdgesOf(plan))
  <2>1. plan.out[n][1] \in EdgesOf(plan)
    BY <1>1, <1>2
  <2>2. <<plan.out[n][1]>> \in Seq(EdgesOf(plan))
    BY <2>1
  <2>3. Tail(plan.out[n]) \in Seq(EdgesOf(plan))
    BY <1>1, <1>2
  <2> QED
    BY <2>2, <2>3
<1> QED
  BY <1>1, <1>2

LEMMA DoneTyped ==
    ASSUME NEW s \in Progresses, NEW n \in PlanNodes(plan)
    PROVE  [s EXCEPT !.done = Append(s.done, n)] \in Progresses
<1>1. Append(s.done, n) \in Seq(PlanNodes(plan))
  BY DEF Progresses, Schedules
<1> QED
  BY <1>1 DEF Progresses, Schedules

LEMMA ThroughTyped ==
    ASSUME plan \in Plans, NEW s \in Progresses, NEW n \in PlanNodes(plan), NEW again \in BOOLEAN,
           NEW turned
    PROVE  Through(plan, s, n, again, turned) \in Progresses
<1> DEFINE t == [s EXCEPT !.done = Append(s.done, n)]
<1>1. t \in Progresses
  BY DoneTyped
<1>2. Through(plan, s, n, again, turned) =
        IF ~Looping(plan, n) THEN FollowAll(plan, t, n, plan.out[n], again)
        ELSE IF turned < plan.times[n] THEN FollowAll(plan, t, n, <<plan.out[n][1]>>, TRUE)
        ELSE FollowAll(plan, t, n, Tail(plan.out[n]), FALSE)
  BY DEF Through
<1> HIDE DEF t
<1> QED
  BY <1>1, <1>2, EdgesTyped, FollowAllTyped

LEMMA NextTyped ==
    ASSUME plan \in Plans, NEW s \in Progresses
    PROVE  NextAt(s) \in Tokens /\ Dispatched(s) \in Progresses
<1>1. s.queue \in Seq(TokensOf(plan, BOOLEAN))
  BY DEF Progresses, Schedules
<1>2. CASE s.queue = <<>>
  <2>1. NextAt(s) = NoToken /\ Dispatched(s) = [s EXCEPT !.queue = s.queue]
    BY <1>2 DEF NextAt, NoToken, Dispatched
  <2> QED
    BY <1>1, <2>1, SpotFacts DEF Progresses, Schedules
<1>3. CASE s.queue # <<>>
  <2>1. NextAt(s) = Head(s.queue) /\ Dispatched(s) = [s EXCEPT !.queue = Tail(s.queue)]
    BY <1>3 DEF NextAt, Dispatched
  <2>2. Head(s.queue) \in TokensOf(plan, BOOLEAN)
    BY <1>1, <1>3
  <2>3. Tail(s.queue) \in Seq(TokensOf(plan, BOOLEAN))
    BY <1>1, <1>3, HeadTailProperties
  <2>4. Dispatched(s) \in Progresses
    BY <2>1, <2>3 DEF Progresses, Schedules
  <2>5. Head(s.queue) \in Tokens
    BY <2>2, SpotFacts
  <2> QED
    BY <2>1, <2>4, <2>5
<1> QED
  BY <1>2, <1>3

LEMMA RestoredTyped ==
    ASSUME NEW d \in Written
    PROVE  Restored(d) \in Progresses
<1>1. d \in Docs /\ d.queue \in Seq(TokensOf(plan, BOOLEAN))
  BY DEF Written
<1>2. {d.queue[i].node : i \in DOMAIN d.queue} \in SUBSET PlanNodes(plan)
  <2>1. ASSUME NEW i \in DOMAIN d.queue PROVE d.queue[i].node \in PlanNodes(plan)
    <3>1. d.queue[i] \in TokensOf(plan, BOOLEAN)
      BY <1>1
    <3> QED
      BY <3>1 DEF TokensOf
  <2> QED
    BY <2>1
<1>3. /\ d.done \in Seq(PlanNodes(plan))
      /\ d.arrived \in SUBSET (PlanNodes(plan) \X PlanNodes(plan))
  BY <1>1, FieldTypes
<1> QED
  BY <1>1, <1>2, <1>3 DEF Restored, Progresses, Schedules

LEMMA UnqueuedTyped ==
    ASSUME NEW s \in Progresses, NEW n
    PROVE  Unqueued(s, n) \in Progresses
<1> DEFINE K == {[node |-> m, again |-> g] : m \in PlanNodes(plan) \ {n}, g \in BOOLEAN}
<1>1. s.queue \in Seq(TokensOf(plan, BOOLEAN)) /\ s.queued \ {n} \subseteq PlanNodes(plan)
  BY DEF Progresses, Schedules
<1>2. Kept(s.queue, K) \in Seq(TokensOf(plan, BOOLEAN))
  BY <1>1, KeptEmbeds
<1>3. Unqueued(s, n) = [s EXCEPT !.queued = s.queued \ {n}, !.queue = Kept(s.queue, K)]
  BY DEF Unqueued
<1> HIDE DEF K
<1> QED
  <2> DEFINE q == Kept(s.queue, K)
             r == s.queued \ {n}
  <2>1. q \in Seq(TokensOf(plan, BOOLEAN)) /\ r \in SUBSET PlanNodes(plan)
    BY <1>1, <1>2
  <2>2. Unqueued(s, n) = [s EXCEPT !.queued = r, !.queue = q]
    BY <1>3
  <2> HIDE DEF q, r
  <2> QED
    BY <2>1, <2>2 DEF Progresses, Schedules

\* Tokens are queued one after the other.
LEMMA PutAllTyped ==
    ASSUME NEW s \in Progresses, NEW tokens \in Seq(TokensOf(plan, BOOLEAN))
    PROVE  PutAll(s, tokens) \in Progresses
<1> DEFINE n == Len(tokens)
           X == Progresses
           Put(x, i) == PutToken(x, tokens[i].node, tokens[i].again)
           move == [i \in 1 .. n |-> [x \in X |-> Put(x, i)]]
           Grow(f) == [i \in 0 .. n |-> IF i = 0 THEN s ELSE Put(f[i - 1], i)]
           put == CHOOSE f : f = Grow(f)
<1>1. n \in Nat
  OBVIOUS
<1>2. \A x \in X, i \in 1 .. n : Put(x, i) \in X
  <2> SUFFICES ASSUME NEW x \in X, NEW i \in 1 .. n PROVE Put(x, i) \in X
    OBVIOUS
  <2>1. tokens[i] \in TokensOf(plan, BOOLEAN)
    OBVIOUS
  <2>2. tokens[i].node \in PlanNodes(plan) /\ tokens[i].again \in BOOLEAN
    BY <2>1 DEF TokensOf
  <2> QED
    BY <2>2, PutTokenType DEF Progresses
<1> HIDE DEF n, X, Put
<1>3. move \in StepsOf(X, n)
  BY <1>2 DEF StepsOf
<1>4. PICK f \in [0 .. n -> X] : f[0] = s /\ \A i \in 1 .. n : f[i] = move[i][f[i - 1]]
  <2>1. s \in X
    BY DEF X
  <2> HIDE DEF move
  <2>2. \E f : Takes(f, X, s, n, move)
    BY <1>1, <1>3, <2>1, Recursion
  <2> QED
    BY <2>2 DEF Takes
<1>5. \A i \in 1 .. n : f[i] = Put(f[i - 1], i)
  <2> SUFFICES ASSUME NEW i \in 1 .. n PROVE f[i] = Put(f[i - 1], i)
    OBVIOUS
  <2>1. i - 1 \in 0 .. n
    BY <1>1
  <2>2. f[i - 1] \in X
    BY <1>4, <2>1
  <2>3. move[i][f[i - 1]] = Put(f[i - 1], i)
    BY <2>2
  <2> QED
    BY <1>4, <2>3
<1>6. f = Grow(f)
  <2>1. ASSUME NEW i \in 0 .. n PROVE f[i] = IF i = 0 THEN s ELSE Put(f[i - 1], i)
    <3>1. i = 0 \/ i \in 1 .. n
      BY <1>1
    <3> QED
      BY <1>4, <1>5, <3>1
  <2> QED
    BY <1>4, <2>1
<1>7. put = Grow(put)
  BY <1>6
<1>8. put[0] = s /\ \A i \in 1 .. n : put[i] = Put(put[i - 1], i)
  <2> HIDE DEF put
  <2>1. 0 \in 0 .. n /\ \A i \in 1 .. n : i \in 0 .. n /\ i # 0
    BY <1>1
  <2> QED
    BY <1>7, <2>1
<1>9. \A i \in 0 .. n : put[i] \in X
  <2> HIDE DEF put
  <2>1. put[0] \in X
    BY <1>8 DEF X
  <2>2. \A i \in 1 .. n : put[i - 1] \in X => put[i] \in X
    BY <1>2, <1>8
  <2> QED
    BY <1>1, <2>1, <2>2, StepsStay
<1>10. PutAll(s, tokens) = put[n]
  BY DEF PutAll, Put, n
<1> HIDE DEF put
<1> QED
  BY <1>1, <1>9, <1>10 DEF X

LEMMA ResumptionTyped ==
    ASSUME plan \in Plans, NEW d \in Written
    PROVE  Resumption(d) \in Copies
<1> DEFINE base  == Restored(d)
           again == PutAll(base, d.queue)
           spot  == IF d.inside # Nowhere THEN d.inside ELSE d.at.node
           first == PutToken(base, plan.start, FALSE)
           past  == [d EXCEPT !.fromQueue = FALSE]
           moved == [past EXCEPT !.cursor = NoToken]
           freed == [base EXCEPT !.queued = base.queued \ {d.cursor.node}]
           left  == Unqueued(again, spot)
           there  == [node |-> spot, again |-> d.at.again]
<1>1. d.queue \in Seq(TokensOf(plan, BOOLEAN)) /\ d \in Docs
  BY DEF Written
<1>2. d.cursor \in Tokens /\ d.at \in Tokens /\ d.inside \in Spots
  BY <1>1, FieldTypes
<1>3. past \in Written
  BY FieldChanges
<1>4. moved \in Written
  <2> HIDE DEF past
  <2> QED
    BY <1>3, FieldChanges, SpotFacts
<1>5. base \in Progresses
  BY RestoredTyped
<1>6. there \in Tokens
  BY <1>2 DEF Tokens, Spots
<1> HIDE DEF base, past, spot, moved
<1>7. freed \in Progresses /\ again \in Progresses /\ first \in Progresses
  <2>1. freed \in Progresses
    BY <1>5 DEF Progresses, Schedules
  <2>2. again \in Progresses
    BY <1>1, <1>5, PutAllTyped
  <2>3. first \in Progresses
    BY <1>5, SpotFacts, PutTokenType DEF Progresses
  <2> QED
    BY <2>1, <2>2, <2>3
<1> HIDE DEF again, first
<1>8. left \in Progresses
  BY <1>7, UnqueuedTyped
<1>9. /\ NextAt(first) \in Tokens /\ Dispatched(first) \in Progresses
      /\ NextAt(again) \in Tokens /\ Dispatched(again) \in Progresses
  BY <1>7, NextTyped
<1> HIDE DEF freed, left, there
<1>10. Resumption(d) \in {[doc |-> moved, at |-> d.cursor, s |-> freed, count |-> 0],
                          [doc |-> past, at |-> NextAt(first), s |-> Dispatched(first), count |-> 0],
                          [doc |-> past, at |-> NextAt(again), s |-> Dispatched(again), count |-> 0],
                          [doc |-> past, at |-> there, s |-> left, count |-> 0]}
  BY DEF Resumption, base, again, first, past, spot, moved, freed, left, there
<1> QED
  BY <1>2, <1>3, <1>4, <1>6, <1>7, <1>8, <1>9, <1>10 DEF Copies
---------------------------------------------------------------------------
(* The steps.                                                            *)

LEMMA TypedFacts ==
    ASSUME DebugTyped
    PROVE  /\ plan \in Plans /\ doc \in Written /\ mine \in Copies /\ mine.doc \in Written
           /\ mine.s \in Progresses /\ mine.at \in Tokens /\ mine.count \in Nat
           /\ mine.at.node \in Spots /\ mine.at.again \in BOOLEAN
           /\ mine.doc.at.node \in Spots
<1>1. plan \in Plans /\ doc \in Written /\ mine \in Copies
  BY DEF DebugTyped, ThreadTyped
<1>2. mine.doc \in Written /\ mine.s \in Progresses /\ mine.at \in Tokens /\ mine.count \in Nat
  BY <1>1 DEF Copies
<1>3. mine.doc.at \in Tokens
  BY <1>2, FieldTypes DEF Written
<1> QED
  BY <1>1, <1>2, <1>3 DEF Tokens, Spots

LEMMA StoreTyped ==
    ASSUME DebugTyped, NEW d \in Written, NEW next \in ThreadStates, Store(d, next)
    PROVE  doc' \in Written /\ thread' \in {next, "releasing"}
<1>1. [doc EXCEPT !.status = "failed"] \in Written
  BY TypedFacts, FieldChanges DEF Terminal
<1> QED
  BY <1>1, TypedFacts DEF Store, FailWorker

LEMMA RequestedTyped ==
    ASSUME DebugTyped, NEW d \in Written, NEW at \in Tokens, NEW showing \in Tokens,
           NEW s \in Progresses, NEW fromQueue \in BOOLEAN, NEW marker \in Tokens, NEW otherwise,
           Requested(d, at, showing, s, fromQueue, marker, otherwise)
    PROVE  /\ \/ doc' \in Written /\ thread' \in {"releasing", "waiting"}
              \/ otherwise
           /\ pauseFlag' \in BOOLEAN
<1> DEFINE a == Snapshot(Ending(d, "aborted"), at, s)
           q == Pausing(d, d.at.node)
           r == [q EXCEPT !.inside = Nowhere, !.fromQueue = fromQueue, !.cursor = marker]
           p == Snapshot(r, showing, s)
<1>1. a \in Written
  <2>1. Ending(d, "aborted") \in Written
    BY DocumentsTyped DEF Terminal
  <2> QED
    BY <2>1, SnapshotTyped, TypedFacts
<1>2. p \in Written
  <2>1. d.at.node \in Spots
    BY FieldTypes DEF Written, Tokens, Spots
  <2>2. q \in Written
    BY <2>1, DocumentsTyped
  <2> HIDE DEF q
  <2>3. r \in Written
    BY <2>2 DEF Written, Docs
  <2> HIDE DEF r
  <2> QED
    BY <2>3, SnapshotTyped, TypedFacts
<1>3. pauseFlag' \in BOOLEAN
  <2>1. pauseFlag' = (pauseFlag /\ (abortFlag \/ ~remembered))
    BY DEF Requested
  <2> QED
    BY Zenon, <2>1
<1>4. CASE abortFlag
  <2>1. Store(a, "releasing")
    BY <1>4 DEF Requested
  <2> HIDE DEF a
  <2> QED
    BY <1>1, <1>3, <2>1, StoreTyped DEF ThreadStates
<1>5. CASE ~abortFlag /\ pauseFlag
  <2>1. Store(p, "waiting")
    BY <1>5 DEF Requested
  <2> HIDE DEF p
  <2> QED
    BY <1>2, <1>3, <2>1, StoreTyped DEF ThreadStates
<1>6. CASE ~abortFlag /\ ~pauseFlag
  BY <1>3, <1>6 DEF Requested
<1> QED
  BY <1>4, <1>5, <1>6

\* A step of the thread, and of a request.
LEMMA ThreadStepTyped ==
    ASSUME DebugTyped, ThreadOnly, doc' \in Written, mine' \in Copies, thread' \in ThreadStates,
           thread' = "node" => mine'.at.node # Nowhere, MemoryTyped',
           turns' \in [PlanNodes(plan) -> Nat], ran' \in Seq(PlanNodes(plan)), stepped' \in Nat
    PROVE  DebugTyped'
<1>1. plan' = plan /\ UNCHANGED <<control, pauser, aborter, overwritten>>
  BY DEF ThreadOnly
<1>2. RequestsTyped'
  BY <1>1, SamePlan DEF DebugTyped, RequestsTyped
<1>3. CountsTyped' /\ ThreadTyped'
  BY <1>1, SamePlan DEF CountsTyped, ThreadTyped
<1>4. plan' \in Plans /\ doc' \in Written'
  BY <1>1, SamePlan DEF DebugTyped
<1> QED
  BY <1>2, <1>3, <1>4 DEF DebugTyped

LEMMA QuietStepTyped ==
    ASSUME DebugTyped, ThreadOnly, NothingRan, doc' \in Written, mine' \in Copies,
           thread' \in ThreadStates, thread' = "node" => mine'.at.node # Nowhere, MemoryTyped'
    PROVE  DebugTyped'
BY ThreadStepTyped DEF NothingRan, DebugTyped, CountsTyped

LEMMA RequestStepTyped ==
    ASSUME DebugTyped, RequestOnly, doc' \in Written,
           thread' = thread \/ thread' \in ThreadStates \ {"node"}, MemoryTyped',
           stepped' \in Nat, control' \in Wishes, control'.pc = "asked" => control'.what # "none",
           pauser' \in {"idle", "asked"}, aborter' \in {"idle", "asked", "written"},
           overwritten' \in BOOLEAN
    PROVE  DebugTyped'
<1>1. UNCHANGED <<plan, mine, turns, ran>>
  BY DEF RequestOnly
<1>2. RequestsTyped'
  BY <1>1, SamePlan DEF RequestsTyped
<1>3. CountsTyped'
  BY <1>1, SamePlan DEF DebugTyped, CountsTyped
<1>4. ThreadTyped'
  BY <1>1, SamePlan DEF DebugTyped, ThreadTyped
<1>5. plan' \in Plans /\ doc' \in Written'
  BY <1>1, SamePlan DEF DebugTyped
<1> QED
  BY <1>2, <1>3, <1>4, <1>5 DEF DebugTyped

LEMMA LoadTyped == DebugTyped /\ Load => DebugTyped'
<1> SUFFICES ASSUME DebugTyped, Load PROVE DebugTyped'
  OBVIOUS
<1>1. ThreadOnly /\ NothingRan /\ UNCHANGED <<resume, remembered, pauseFlag, abortFlag>>
  BY DEF Load
<1>2. CASE Ended(doc)
  <2>1. thread' = "ending" /\ UNCHANGED <<doc, mine, context>>
    BY <1>2 DEF Load
  <2> QED
    BY <1>1, <2>1, TypedFacts, QuietStepTyped DEF DebugTyped, MemoryTyped, ThreadStates
<1>3. CASE ~Ended(doc) /\ ~remembered
  <2>1. FailWorker /\ UNCHANGED <<mine, context>>
    BY <1>3 DEF Load
  <2>2. [doc EXCEPT !.status = "failed"] \in Written
    BY TypedFacts, FieldChanges DEF Terminal
  <2> QED
    BY <1>1, <2>1, <2>2, TypedFacts, QuietStepTyped
       DEF FailWorker, DebugTyped, MemoryTyped, ThreadStates
<1>4. CASE ~Ended(doc) /\ remembered
  <2>1. mine' = Resumption(doc) /\ context' = TRUE /\ thread' = "begin" /\ UNCHANGED doc
    BY <1>4 DEF Load
  <2>2. mine' \in Copies
    BY <2>1, TypedFacts, ResumptionTyped
  <2> QED
    BY <1>1, <2>1, <2>2, TypedFacts, QuietStepTyped DEF DebugTyped, MemoryTyped, ThreadStates
<1> QED
  BY <1>2, <1>3, <1>4

LEMMA BeginTyped == DebugTyped /\ Begin => DebugTyped'
<1> SUFFICES ASSUME DebugTyped, Begin PROVE DebugTyped'
  OBVIOUS
<1> DEFINE d == Snapshot(Running(mine.doc), mine.at, mine.s)
           goOn == IF mine.at.node = Nowhere THEN thread' = "visit" /\ UNCHANGED doc
                   ELSE Store(d, "visit")
<1>1. /\ ThreadOnly /\ NothingRan /\ UNCHANGED <<resume, remembered, context, abortFlag>>
      /\ mine' = IF mine.at.node = Nowhere THEN mine ELSE [mine EXCEPT !.doc = d]
      /\ Requested(mine.doc, mine.at, mine.at, mine.s, FALSE, NoToken, goOn)
  BY DEF Begin
<1>2. d \in Written
  BY TypedFacts, DocumentsTyped, SnapshotTyped
<1> HIDE DEF d
<1>3. mine' \in Copies
  BY <1>1, <1>2, TypedFacts DEF Copies
<1>4. goOn => doc' \in Written /\ thread' \in {"visit", "releasing"}
  BY <1>2, StoreTyped, TypedFacts DEF ThreadStates
<1> HIDE DEF goOn
<1>5. /\ (doc' \in Written /\ thread' \in {"releasing", "waiting"}) \/ goOn
      /\ pauseFlag' \in BOOLEAN
  BY <1>1, TypedFacts, SpotFacts, RequestedTyped
<1>6. doc' \in Written /\ thread' \in {"visit", "waiting", "releasing"}
  BY <1>4, <1>5
<1> QED
  BY <1>1, <1>3, <1>5, <1>6, QuietStepTyped DEF DebugTyped, MemoryTyped, ThreadStates

\* Steps of the thread that store a document and leave the copy alone.
LEMMA StoringTyped ==
    ASSUME DebugTyped, ThreadOnly, NothingRan, UNCHANGED <<mine, resume, memoryVars>>,
           NEW d \in Written, NEW next \in ThreadStates, next # "node", Store(d, next)
    PROVE  DebugTyped'
<1>1. doc' \in Written /\ thread' \in {next, "releasing"}
  BY StoreTyped
<1> QED
  BY <1>1, TypedFacts, QuietStepTyped DEF DebugTyped, MemoryTyped, memoryVars, ThreadStates
LEMMA FinishTyped == DebugTyped /\ Finish => DebugTyped'
<1> SUFFICES ASSUME DebugTyped, Finish PROVE DebugTyped'
  OBVIOUS
<1> DEFINE d == Snapshot(Ending(mine.doc, "completed"), NoToken, mine.s)
<1>1. /\ ThreadOnly /\ NothingRan /\ UNCHANGED <<mine, resume, memoryVars>>
      /\ Store(d, "releasing")
  BY DEF Finish
<1>2. Ending(mine.doc, "completed") \in Written
  BY TypedFacts, DocumentsTyped DEF Terminal
<1>3. d \in Written
  BY <1>2, TypedFacts, SpotFacts, SnapshotTyped
<1> HIDE DEF d
<1> QED
  BY <1>1, <1>3, StoringTyped DEF ThreadStates

LEMMA StopBeforeTyped == ASSUME DebugTyped, NEW hit \in BOOLEAN, StopBefore(hit) PROVE DebugTyped'
<1> DEFINE n == mine.at.node
           p == Pausing(mine.doc, n)
           x == IF hit THEN "before" ELSE p.hit[n]
           q == [p EXCEPT !.hit[n] = x]
<1>1. /\ ThreadOnly /\ NothingRan /\ UNCHANGED <<mine, resume, memoryVars>>
      /\ n # Nowhere /\ Store(Snapshot(q, mine.at, mine.s), "waiting")
  BY DEF StopBefore, ToRun, AtNode
<1>2. p \in Written /\ n \in PlanNodes(plan)
  BY <1>1, TypedFacts, DocumentsTyped DEF Spots
<1> HIDE DEF p
<1>3. x \in {"none", "before", "after"}
  <2>1. p.hit[n] \in {"none", "before", "after"}
    BY <1>2, FieldTypes DEF Written
  <2> QED
    BY <2>1
<1> HIDE DEF x
<1>4. q \in Written
  BY <1>2, <1>3, FieldChanges
<1> HIDE DEF q
<1>5. Snapshot(q, mine.at, mine.s) \in Written
  BY <1>4, TypedFacts, SnapshotTyped
<1> QED
  BY <1>1, <1>5, StoringTyped DEF ThreadStates

LEMMA NodeFailsTyped == DebugTyped /\ NodeFails => DebugTyped'
<1> SUFFICES ASSUME DebugTyped, NodeFails PROVE DebugTyped'
  OBVIOUS
<1> DEFINE p == Pausing(mine.doc, mine.at.node)
           q == [p EXCEPT !.raised = TRUE, !.inside = Nowhere, !.leave = Nowhere]
<1>1. /\ ThreadOnly /\ NothingRan /\ UNCHANGED <<mine, resume, memoryVars>>
      /\ Store(Snapshot(q, mine.at, mine.s), "waiting")
  BY DEF NodeFails
<1>2. p \in Written
  BY TypedFacts, DocumentsTyped
<1> HIDE DEF p
<1>3. q \in Written
  BY <1>2 DEF Written, Docs
<1> HIDE DEF q
<1>4. Snapshot(q, mine.at, mine.s) \in Written
  BY <1>3, TypedFacts, SnapshotTyped
<1> QED
  BY <1>1, <1>4, StoringTyped DEF ThreadStates

LEMMA StopInsideTyped == DebugTyped /\ StopInside => DebugTyped'
<1> SUFFICES ASSUME DebugTyped, StopInside PROVE DebugTyped'
  OBVIOUS
<1> DEFINE p == Pausing(mine.doc, Nowhere)
           q == [p EXCEPT !.inside = mine.at.node]
           at == [mine.at EXCEPT !.again = FALSE]
<1>1. /\ ThreadOnly /\ NothingRan /\ UNCHANGED <<mine, resume, memoryVars>>
      /\ Store(Snapshot(q, at, mine.s), "waiting")
  BY DEF StopInside
<1>2. p \in Written
  BY TypedFacts, DocumentsTyped DEF Spots
<1> HIDE DEF p
<1>3. q \in Written
  BY <1>2, TypedFacts, FieldChanges
<1>4. at \in Tokens
  BY TypedFacts DEF Tokens
<1> HIDE DEF q, at
<1>5. Snapshot(q, at, mine.s) \in Written
  BY <1>3, <1>4, TypedFacts, SnapshotTyped
<1> QED
  BY <1>1, <1>5, StoringTyped DEF ThreadStates

LEMMA DropTyped == DebugTyped /\ Drop => DebugTyped'
<1> SUFFICES ASSUME DebugTyped, Drop PROVE DebugTyped'
  OBVIOUS
<1>1. /\ ThreadOnly /\ NothingRan /\ UNCHANGED <<doc, thread, resume, memoryVars>>
      /\ thread = "visit"
      /\ mine' = [mine EXCEPT !.at = NextAt(mine.s), !.s = Dispatched(mine.s)]
  BY DEF Drop, AtNode
<1>2. mine' \in Copies
  BY <1>1, TypedFacts, NextTyped DEF Copies
<1> QED
  BY <1>1, <1>2, TypedFacts, QuietStepTyped DEF DebugTyped, MemoryTyped, memoryVars, ThreadStates

LEMMA LeaveOutTyped == DebugTyped /\ LeaveOut => DebugTyped'
<1> SUFFICES ASSUME DebugTyped, LeaveOut PROVE DebugTyped'
  OBVIOUS
<1> DEFINE n == mine.at.node
           t == [mine.s EXCEPT !.done = Append(mine.s.done, n)]
           s == FollowAll(plan, t, n, plan.out[n], mine.at.again)
           d == [mine.doc EXCEPT !.leave = Nowhere, !.inside = Nowhere]
<1>1. /\ ThreadOnly /\ UNCHANGED <<doc, thread, resume, memoryVars, turns, stepped>>
      /\ thread = "visit" /\ n # Nowhere /\ ran' = Append(ran, n)
      /\ mine' = [doc |-> d, at |-> NextAt(s), s |-> Dispatched(s), count |-> mine.count]
  BY DEF LeaveOut, AtNode
<1>2. n \in PlanNodes(plan)
  BY <1>1, TypedFacts DEF Spots
<1>3. t \in Progresses
  BY <1>2, TypedFacts, DoneTyped
<1>4. d \in Written
  BY TypedFacts DEF Written, Docs
<1> HIDE DEF t, d
<1>5. s \in Progresses
  BY <1>2, <1>3, TypedFacts, EdgesTyped, FollowAllTyped
<1> HIDE DEF s, n
<1>6. mine' \in Copies
  BY <1>1, <1>4, <1>5, TypedFacts, NextTyped DEF Copies
<1>7. ran' \in Seq(PlanNodes(plan)) /\ turns' \in [PlanNodes(plan) -> Nat] /\ stepped' \in Nat
  BY <1>1, <1>2 DEF DebugTyped, CountsTyped
<1>8. MemoryTyped'
  BY <1>1 DEF DebugTyped, MemoryTyped, memoryVars
<1> QED
  BY <1>1, <1>6, <1>7, <1>8, TypedFacts, ThreadStepTyped DEF ThreadStates

LEMMA StartNodeTyped == DebugTyped /\ StartNode => DebugTyped'
<1> SUFFICES ASSUME DebugTyped, StartNode PROVE DebugTyped'
  OBVIOUS
<1> DEFINE n == mine.at.node
           past == IF Guarded(n) /\ mine.doc.skip = n THEN Nowhere ELSE mine.doc.skip
           q == [mine.doc EXCEPT !.skip = past]
           d == Snapshot(Running(q), mine.at, mine.s)
<1>1. /\ ThreadOnly /\ NothingRan /\ UNCHANGED <<resume, memoryVars>>
      /\ mine.at.node # Nowhere
      /\ Store(d, "node") /\ mine' = [mine EXCEPT !.doc = d]
  BY DEF StartNode, ToRun, AtNode
<1>2. past \in Spots
  BY TypedFacts, FieldTypes DEF Written, Spots
<1> HIDE DEF past
<1>3. q \in Written
  BY <1>2, TypedFacts, FieldChanges
<1> HIDE DEF q
<1>4. d \in Written
  BY <1>3, TypedFacts, DocumentsTyped, SnapshotTyped
<1> HIDE DEF d
<1>5. doc' \in Written /\ thread' \in {"node", "releasing"}
  BY <1>1, <1>4, StoreTyped DEF ThreadStates
<1>6. mine' \in Copies /\ mine'.at = mine.at
  BY <1>1, <1>4, TypedFacts DEF Copies
<1> QED
  BY <1>1, <1>5, <1>6, QuietStepTyped DEF DebugTyped, MemoryTyped, memoryVars, ThreadStates

LEMMA NodeDoneTyped ==
    ASSUME DebugTyped, NEW stop \in {"no", "hit", "error"}, NodeDone(stop)
    PROVE  DebugTyped'
<1> DEFINE n     == mine.at.node
           s     == Through(plan, mine.s, n, mine.at.again, turns[n])
           next  == NextAt(s)
           left  == Dispatched(s)
           count == mine.count + 1
           d     == mine.doc
           p     == Pausing(d, n)
           due   == [p EXCEPT !.inside = Nowhere]
           x     == IF stop = "hit" THEN "after" ELSE p.hit[n]
           after == [p EXCEPT !.inside = Nowhere, !.fromQueue = TRUE, !.cursor = next, !.hit[n] = x]
           onward == IF next.node = Nowhere
                     THEN Store(Snapshot(Ending(d, "completed"), NoToken, left), "releasing")
                     ELSE Store(Snapshot(due, next, left), "waiting")
           goOn  == IF StepIsDone(count) THEN onward ELSE thread' = "visit" /\ UNCHANGED doc
<1>1. /\ ThreadOnly /\ UNCHANGED <<resume, remembered, context, abortFlag>>
      /\ thread = "node"
      /\ mine' = [mine EXCEPT !.at = next, !.s = left, !.count = count]
      /\ turns' = [turns EXCEPT ![n] = IF Looping(plan, n) THEN @ + 1 ELSE @]
      /\ ran' = Append(ran, n)
      /\ stepped' = IF stepped < 2 THEN stepped + 1 ELSE stepped
  BY DEF NodeDone
<1>2. stop # "no" => Store(Snapshot(after, mine.at, left), "waiting") /\ UNCHANGED pauseFlag
  BY DEF NodeDone
<1>3. stop = "no" => Requested(d, next, mine.at, left, TRUE, next, goOn)
  BY DEF NodeDone
<1>4. n \in PlanNodes(plan)
  BY <1>1, TypedFacts DEF DebugTyped, ThreadTyped, Spots
<1>5. s \in Progresses
  BY <1>4, TypedFacts, ThroughTyped
<1> HIDE DEF s
<1>6. next \in Tokens /\ left \in Progresses /\ count \in Nat
  BY <1>5, TypedFacts, NextTyped
<1>7. p \in Written /\ d \in Written
  BY TypedFacts, DocumentsTyped
<1> HIDE DEF next, left, count, p
<1>8. due \in Written
  BY <1>7, FieldChanges DEF Spots
<1>9. x \in {"none", "before", "after"}
  <2>1. p.hit[n] \in {"none", "before", "after"}
    BY <1>4, <1>7, FieldTypes DEF Written
  <2> QED
    BY <2>1
<1> HIDE DEF x
<1>10. after \in Written
  <2> DEFINE q == [p EXCEPT !.inside = Nowhere, !.fromQueue = TRUE, !.cursor = next]
  <2>1. q \in Written
    BY <1>6, <1>7 DEF Written, Docs
  <2>2. after = [q EXCEPT !.hit[n] = x]
    BY <1>7 DEF Written, Docs
  <2> HIDE DEF q, after
  <2> QED
    BY <1>4, <1>9, <2>1, <2>2, FieldChanges
<1>11. mine' \in Copies
  BY <1>1, <1>6, TypedFacts DEF Copies
<1>12. Snapshot(after, mine.at, left) \in Written
  <2> HIDE DEF after
  <2> QED
    BY <1>6, <1>10, TypedFacts, SnapshotTyped
<1>13. goOn => doc' \in Written /\ thread' \in {"visit", "waiting", "releasing"}
  <2>1. Snapshot(due, next, left) \in Written
    <3> HIDE DEF due
    <3> QED
      BY <1>6, <1>8, TypedFacts, SnapshotTyped
  <2>2. Snapshot(Ending(d, "completed"), NoToken, left) \in Written
    <3>1. Ending(d, "completed") \in Written
      BY <1>7, DocumentsTyped DEF Terminal
    <3> QED
      BY <1>6, <3>1, TypedFacts, SpotFacts, SnapshotTyped
  <2>3. doc \in Written
    BY TypedFacts
  <2> HIDE DEF due, d
  <2> QED
    BY <2>1, <2>2, <2>3, StoreTyped DEF ThreadStates
<1> HIDE DEF goOn, after
<1>14. /\ doc' \in Written /\ thread' \in {"visit", "waiting", "releasing"}
       /\ pauseFlag' \in BOOLEAN
  <2>1. CASE stop # "no"
    BY <1>2, <1>12, <2>1, StoreTyped DEF ThreadStates, DebugTyped, MemoryTyped
  <2>2. CASE stop = "no"
    <3>1. Requested(d, next, mine.at, left, TRUE, next, goOn) /\ mine.at \in Tokens
      BY <1>3, <2>2, TypedFacts
    <3> HIDE DEF d
    <3>2. /\ (doc' \in Written /\ thread' \in {"releasing", "waiting"}) \/ goOn
          /\ pauseFlag' \in BOOLEAN
      BY <1>6, <1>7, <3>1, RequestedTyped
    <3> QED
      BY <1>13, <3>2
  <2> QED
    BY <2>1, <2>2
<1>15. /\ turns' \in [PlanNodes(plan) -> Nat] /\ ran' \in Seq(PlanNodes(plan))
       /\ stepped' \in Nat
  <2>1. turns \in [PlanNodes(plan) -> Nat] /\ ran \in Seq(PlanNodes(plan)) /\ stepped \in Nat
    BY DEF DebugTyped, CountsTyped
  <2> DEFINE m == IF Looping(plan, n) THEN turns[n] + 1 ELSE turns[n]
  <2>2. m \in Nat
    BY <1>4, <2>1
  <2>3. turns' = [turns EXCEPT ![n] = m]
    BY <1>1
  <2> HIDE DEF m, n
  <2> QED
    BY <1>1, <1>4, <2>1, <2>2, <2>3
<1>16. MemoryTyped'
  BY <1>1, <1>14 DEF DebugTyped, MemoryTyped
<1> QED
  BY <1>1, <1>11, <1>14, <1>15, <1>16, ThreadStepTyped DEF ThreadStates

LEMMA RestTyped == DebugTyped /\ (Wake \/ Release \/ Exit \/ Launch) => DebugTyped'
<1> SUFFICES ASSUME DebugTyped, Wake \/ Release \/ Exit \/ Launch PROVE DebugTyped'
  OBVIOUS
<1>1. CASE Wake
  BY <1>1, TypedFacts, QuietStepTyped DEF Wake, DebugTyped, MemoryTyped, memoryVars, ThreadStates
<1>2. CASE Release
  BY <1>2, TypedFacts, QuietStepTyped DEF Release, Forgotten, DebugTyped, MemoryTyped, ThreadStates
<1>3. CASE Exit
  BY <1>3, TypedFacts, QuietStepTyped DEF Exit, DebugTyped, MemoryTyped, memoryVars, ThreadStates
<1>4. CASE Launch
  <2>1. /\ RequestOnly /\ thread' = "starting"
        /\ UNCHANGED <<doc, resume, memoryVars, requestVars, stepped>>
    BY <1>4 DEF Launch
  <2>2. MemoryTyped'
    BY <2>1 DEF DebugTyped, MemoryTyped, memoryVars
  <2> QED
    BY <2>1, <2>2, TypedFacts, RequestStepTyped
       DEF DebugTyped, RequestsTyped, CountsTyped, requestVars, ThreadStates
<1> QED
  BY <1>1, <1>2, <1>3, <1>4

LEMMA FirstTyped == plan \in Plans => FirstDoc(plan) \in Written
<1> SUFFICES ASSUME plan \in Plans PROVE FirstDoc(plan) \in Written
  OBVIOUS
<1>1. <<>> \in Seq(Tokens) /\ <<>> \in Seq(PlanNodes(plan)) /\ <<>> \in Seq(TokensOf(plan, BOOLEAN))
  OBVIOUS
<1>2. [node |-> plan.order[1], again |-> FALSE] \in Tokens
  BY SpotFacts DEF Tokens
<1>3. [n \in PlanNodes(plan) |-> "none"] \in [PlanNodes(plan) -> {"none", "before", "after"}]
  OBVIOUS
<1> QED
  BY <1>1, <1>2, <1>3, SpotFacts DEF FirstDoc, Written, Docs, Active

LEMMA GoOnTyped ==
    ASSUME DebugTyped,
           WriteRequest \/ Signal \/ \E what \in {"continue", "step", "out"} : AskToGoOn(what)
    PROVE  DebugTyped'
<1>1. /\ control \in Wishes /\ control.seen \in Written /\ doc \in Written
      /\ control.what \in {"none", "continue", "step", "out"}
      /\ control.pc = "asked" => control.what # "none"
  BY TypedFacts DEF DebugTyped, RequestsTyped, Wishes
<1>2. CASE WriteRequest
  <2>1. /\ RequestOnly /\ UNCHANGED <<thread, resume, remembered, context, abortFlag, pauser, aborter>>
        /\ control.pc = "asked" /\ doc' = Patched(control.seen, control.what)
        /\ overwritten' = (overwritten \/ Ended(doc)) /\ pauseFlag' = FALSE /\ stepped' = 0
        /\ control' = [control EXCEPT !.pc = "written"]
    BY <1>2 DEF WriteRequest
  <2>2. doc' \in Written
    BY <1>1, <2>1, DocumentsTyped
  <2>3. control' \in Wishes /\ control'.pc = "written"
    BY <1>1, <2>1 DEF Wishes
  <2>4. overwritten' \in BOOLEAN
    BY Zenon, <2>1
  <2>5. MemoryTyped'
    BY <2>1 DEF DebugTyped, MemoryTyped
  <2> QED
    BY <2>1, <2>2, <2>3, <2>4, <2>5, RequestStepTyped DEF DebugTyped, RequestsTyped
<1>3. CASE Signal
  <2>1. /\ RequestOnly /\ UNCHANGED <<memoryVars, pauser, aborter, stepped, overwritten>>
        /\ control' = [control EXCEPT !.pc = "idle", !.seen = FirstDoc(plan)]
    BY <1>3 DEF Signal
  <2>2. control' \in Wishes /\ control'.pc = "idle"
    <3>1. FirstDoc(plan) \in Written
      BY TypedFacts, FirstTyped
    <3> QED
      BY <1>1, <2>1, <3>1 DEF Wishes
  <2>3. /\ doc' \in Written /\ resume' \in BOOLEAN
        /\ thread' = thread \/ thread' \in ThreadStates \ {"node"}
    BY <1>1, <1>3 DEF Signal, DebugTyped, MemoryTyped, ThreadStates
  <2>4. MemoryTyped'
    BY <2>1, <2>3 DEF DebugTyped, MemoryTyped, memoryVars
  <2> QED
    BY <2>1, <2>2, <2>3, <2>4, RequestStepTyped DEF DebugTyped, RequestsTyped, CountsTyped
<1>4. CASE \E what \in {"continue", "step", "out"} : AskToGoOn(what)
  <2>1. PICK what \in {"continue", "step", "out"} : AskToGoOn(what)
    BY <1>4
  <2>2. /\ RequestOnly
        /\ UNCHANGED <<doc, thread, resume, memoryVars, pauser, aborter, stepped, overwritten>>
        /\ control' = [pc |-> "asked", what |-> what, seen |-> doc]
    BY <2>1 DEF AskToGoOn
  <2>3. control' \in Wishes /\ control'.what # "none"
    BY <1>1, <2>2 DEF Wishes
  <2>4. MemoryTyped'
    BY <2>2 DEF DebugTyped, MemoryTyped, memoryVars
  <2> QED
    BY <1>1, <2>2, <2>3, <2>4, RequestStepTyped DEF DebugTyped, RequestsTyped, CountsTyped
<1> QED
  BY <1>2, <1>3, <1>4

LEMMA StopTyped ==
    ASSUME DebugTyped, AskToPause \/ FlagPause \/ AskToAbort \/ Abort \/ Restart
    PROVE  DebugTyped'
<1> USE DEF DebugTyped, RequestsTyped, CountsTyped
<1>1. CASE AskToPause \/ AskToAbort
  <2>1. MemoryTyped'
    BY <1>1 DEF AskToPause, AskToAbort, MemoryTyped, memoryVars
  <2> QED
    BY <1>1, <2>1, RequestStepTyped DEF AskToPause, AskToAbort
<1>2. CASE FlagPause
  <2>1. pauseFlag' = (pauseFlag \/ Alive) /\ UNCHANGED <<resume, remembered, context, abortFlag>>
    BY <1>2 DEF FlagPause
  <2>2. pauseFlag' \in BOOLEAN
    BY Zenon, <2>1
  <2>3. MemoryTyped'
    BY <2>1, <2>2 DEF MemoryTyped
  <2> QED
    BY <1>2, <2>3, RequestStepTyped DEF FlagPause
<1>3. CASE FlagAbort
  <2>1. MemoryTyped'
    BY <1>3 DEF FlagAbort, MemoryTyped
  <2> QED
    BY <1>3, <2>1, RequestStepTyped DEF FlagAbort
<1>4. CASE WriteAbort
  <2>1. Ending(doc, "aborted") \in Written
    BY TypedFacts, DocumentsTyped DEF Terminal
  <2>2. MemoryTyped'
    BY <1>4 DEF WriteAbort, MemoryTyped, memoryVars
  <2> QED
    BY <1>4, <2>1, <2>2, RequestStepTyped DEF WriteAbort
<1>5. CASE ReleaseAborted
  <2>1. MemoryTyped'
    BY <1>5 DEF ReleaseAborted, Forgotten, MemoryTyped
  <2> QED
    BY <1>5, <2>1, RequestStepTyped DEF ReleaseAborted, Forgotten
<1>6. CASE Restart
  <2>1. [doc EXCEPT !.status = "incomplete"] \in Written
    BY FieldChanges DEF Terminal
  <2>2. doc' \in Written
    BY <1>6, <2>1 DEF Restart
  <2>3. [pc |-> "idle", what |-> "none", seen |-> FirstDoc(plan)] \in Wishes
    BY FirstTyped DEF Wishes
  <2>4. MemoryTyped'
    BY <1>6 DEF Restart, Forgotten, MemoryTyped
  <2>5. /\ RequestOnly /\ UNCHANGED <<stepped, overwritten>>
        /\ control' = [pc |-> "idle", what |-> "none", seen |-> FirstDoc(plan)]
        /\ pauser' = "idle" /\ aborter' = "idle" /\ thread' = "none"
    BY <1>6 DEF Restart
  <2>6. control' \in Wishes /\ control'.pc = "idle"
    BY <2>3, <2>5
  <2> QED
    BY <2>2, <2>4, <2>5, <2>6, RequestStepTyped DEF ThreadStates
<1> QED
  BY <1>1, <1>2, <1>3, <1>4, <1>5, <1>6 DEF Abort

LEMMA TypesStart == DebugInit => DebugTyped
<1> SUFFICES ASSUME DebugInit PROVE DebugTyped
  OBVIOUS
<1>1. plan \in Plans /\ doc \in Written
  BY FirstTyped DEF DebugInit
<1>2. EmptySchedule \in Progresses
  <2>1. <<>> \in Seq(TokensOf(plan, BOOLEAN)) /\ <<>> \in Seq(PlanNodes(plan))
    OBVIOUS
  <2> QED
    BY <2>1 DEF EmptySchedule, Progresses, Schedules
<1>3. mine \in Copies /\ thread = "unstarted"
  BY <1>1, <1>2, SpotFacts DEF DebugInit, Copies
<1>4. RequestsTyped
  BY <1>1 DEF DebugInit, RequestsTyped, Wishes
<1>5. MemoryTyped
  BY DEF DebugInit, MemoryTyped
<1>6. CountsTyped
  BY DEF DebugInit, CountsTyped
<1> QED
  BY <1>1, <1>3, <1>4, <1>5, <1>6 DEF DebugTyped, ThreadTyped, ThreadStates

LEMMA TypesStay == DebugTyped /\ [DebugNext]_debugVars => DebugTyped'
<1> SUFFICES ASSUME DebugTyped, [DebugNext]_debugVars PROVE DebugTyped'
  OBVIOUS
<1>1. CASE UNCHANGED debugVars
  <2>1. plan' = plan /\ UNCHANGED <<doc, mine, thread, control, pauser, aborter, overwritten>>
        /\ UNCHANGED <<resume, remembered, context, pauseFlag, abortFlag, turns, ran, stepped>>
    BY <1>1 DEF debugVars
  <2>2. ThreadOnly /\ NothingRan /\ MemoryTyped'
    BY <2>1 DEF ThreadOnly, NothingRan, DebugTyped, MemoryTyped
  <2> QED
    BY <2>1, <2>2, QuietStepTyped DEF DebugTyped, ThreadTyped
<1>2. CASE Thread
  BY <1>2, LoadTyped, BeginTyped, FinishTyped, DropTyped, LeaveOutTyped, StopBeforeTyped,
     StartNodeTyped, NodeFailsTyped, StopInsideTyped, NodeDoneTyped, RestTyped DEF Thread
<1>3. CASE Launch
  BY <1>3, RestTyped
<1>4. CASE GoOn \/ \E what \in {"continue", "step", "out"} : AskToGoOn(what)
  BY <1>4, GoOnTyped DEF GoOn
<1>5. CASE AskToPause \/ FlagPause \/ AskToAbort \/ Abort \/ Restart
  BY <1>5, StopTyped
<1> QED
  BY <1>1, <1>2, <1>3, <1>4, <1>5 DEF DebugNext

\* Whatever plan is debugged, documents, schedules and requests keep their
\* types: each node, token and breakpoint of a document is one of the plan.
THEOREM DebugTypeSafe == DebugSpec => []DebugTypeOK
<1> QED
  BY TypesStart, TypesStay, TypedMeans, PTL DEF DebugSpec

---------------------------------------------------------------------------
(* The components of the workbench, one of which runs.                   *)

\* Each of them sees a run of its own.
LEMMA EachRuns ==
    WorkbenchSpec => /\ StreamSpec /\ EventsSpec /\ DebugSpec /\ OperationsSpec /\ CallsSpec
                     /\ TabsSpec /\ NetworkSpec /\ HistorySpec
<1>1. WorkbenchInit => /\ StreamInit /\ EventsInit /\ DebugInit /\ OperationsInit /\ CallsInit
                       /\ TabsInit /\ NetworkInit /\ HistoryInit
  BY DEF WorkbenchInit
<1>2. [WorkbenchNext]_workbenchVars => /\ [StreamNext]_streamVars /\ [EventsNext]_eventVars
                                      /\ [DebugNext]_debugVars /\ [OperationsNext]_opVars
                                      /\ [CallsNext]_callVars /\ [TabsNext]_tabVars
                                      /\ [NetworkNext]_netVars /\ [HistoryNext]_histVars
  <2> SUFFICES ASSUME [WorkbenchNext]_workbenchVars
               PROVE  /\ [StreamNext]_streamVars /\ [EventsNext]_eventVars
                      /\ [DebugNext]_debugVars /\ [OperationsNext]_opVars
                      /\ [CallsNext]_callVars /\ [TabsNext]_tabVars
                      /\ [NetworkNext]_netVars /\ [HistoryNext]_histVars
    OBVIOUS
  <2>1. CASE UNCHANGED workbenchVars
    BY <2>1 DEF workbenchVars
  <2>2. CASE WorkbenchNext
    <3>1. CASE StreamNext /\ UNCHANGED <<eventVars, debugVars, opVars, callVars, tabVars, netVars, histVars>>
      BY <3>1
    <3>2. CASE EventsNext /\ UNCHANGED <<streamVars, debugVars, opVars, callVars, tabVars, netVars, histVars>>
      BY <3>2
    <3>3. CASE DebugNext /\ UNCHANGED <<streamVars, eventVars, opVars, callVars, tabVars, netVars, histVars>>
      BY <3>3
    <3>4. CASE OperationsNext /\ UNCHANGED <<streamVars, eventVars, debugVars, callVars, tabVars, netVars, histVars>>
      BY <3>4
    <3>5. CASE CallsNext /\ UNCHANGED <<streamVars, eventVars, debugVars, opVars, tabVars, netVars, histVars>>
      BY <3>5
    <3>6. CASE TabsNext /\ UNCHANGED <<streamVars, eventVars, debugVars, opVars, callVars, netVars, histVars>>
      BY <3>6
    <3>7. CASE NetworkNext /\ UNCHANGED <<streamVars, eventVars, debugVars, opVars, callVars, tabVars, histVars>>
      BY <3>7
    <3>8. CASE HistoryNext /\ UNCHANGED <<streamVars, eventVars, debugVars, opVars, callVars, tabVars, netVars>>
      BY <3>8
    <3> QED
      BY <2>2, <3>1, <3>2, <3>3, <3>4, <3>5, <3>6, <3>7, <3>8 DEF WorkbenchNext
  <2> QED
    BY <2>1, <2>2
<1> QED
  BY <1>1, <1>2, PTL DEF WorkbenchSpec, StreamSpec, EventsSpec, DebugSpec, OperationsSpec, CallsSpec,
                         TabsSpec, NetworkSpec, HistorySpec

\* Whichever component runs, the variables of all of them keep their types.
THEOREM WorkbenchTypeSafe == WorkbenchSpec => []WorkbenchTypeOK
<1>1. WorkbenchTypeOK <=> /\ StreamTypeOK /\ EventsTypeOK /\ DebugTypeOK /\ OperationsTypeOK
                          /\ CallsTypeOK /\ TabsTypeOK /\ NetworkTypeOK /\ HistoryTypeOK
  BY DEF WorkbenchTypeOK
<1> QED
  BY <1>1, EachRuns, StreamsTypeSafe, EventsTypeSafe, DebugTypeSafe, OperationsTypes, CallsTypes,
     TabsTypeSafe, NetworkTypes, HistoryTypeSafe, PTL
=============================================================================
