------------------------- MODULE WorkbenchProofs --------------------------
(*************************************************************************)
(* Proofs about the parts of the workbench that serve and observe runs:  *)
(* the stream of a runtime session's events, the events of the           *)
(* workbench, the tabs of the browser, operations with a key, calls of   *)
(* components and network sessions.                                      *)
(*************************************************************************)
EXTENDS SessionStream, WorkbenchEvents, BrowserTabs, Operations, ComponentCalls,
        NetworkSession, FilteringProofs, FiniteSetTheorems, TLAPS

---------------------------------------------------------------------------
(* SessionStream: what a client receives has no gap.                     *)

\* A history that ends with the event `last`.
EndsAt(h, last) ==
    /\ h \in Seq(StreamEvents)
    /\ Len(h) <= last
    /\ \A i \in 1 .. Len(h) : h[i].id = last - Len(h) + i

\* The history of a session is a run of ids that ends with the last one issued.
LogRuns ==
    /\ DOMAIN log = StreamSessions /\ issued \in [StreamSessions -> Nat]
    /\ \A s \in StreamSessions : EndsAt(log[s], issued[s])

\* A run of events that follows the event `after`, with no terminal event but the last.
IsRun(h, after) ==
    /\ h \in Seq(StreamEvents)
    /\ \A i \in 1 .. Len(h) - 1 : h[i + 1].id = h[i].id + 1 /\ h[i].name # "terminal"
    /\ h # <<>> => h[1].id = after + 1

\* What an external client has: nothing follows the terminal event.
Carries(c) ==
    /\ cursor[c] \in Nat /\ delivered[c] \in Seq(StreamEvents)
    /\ LET d == delivered[c]
       IN  /\ \A i \in 1 .. Len(d) - 1 : d[i + 1].id = d[i].id + 1 /\ d[i].name # "terminal"
           /\ d # <<>> => cursor[c] = d[Len(d)].id
           /\ d # <<>> /\ d[Len(d)].name = "terminal" =>
                 handler[c] = "idle" /\ client[c] # "watching"

Streaming ==
    /\ LogRuns
    /\ DOMAIN handler = StreamClients /\ DOMAIN client = StreamClients
    /\ DOMAIN cursor = StreamClients /\ DOMAIN delivered = StreamClients
    /\ \A c \in ExternalClients : Carries(c)

\* The replay is a run that follows the cursor.
LEMMA SinceIsRun ==
    ASSUME LogRuns, NEW s \in StreamSessions, NEW after \in Nat, ~Expired(s, after)
    PROVE  LET h == Since(s, after)
           IN  /\ h \in Seq(StreamEvents)
               /\ \A i \in 1 .. Len(h) - 1 : h[i + 1].id = h[i].id + 1
               /\ h # <<>> => h[1].id = after + 1
<1> DEFINE l == log[s]
           K == {e \in ToSet(l) : e.id > after}
           h == Kept(l, K)
           first == issued[s] - Len(l)
<1>1. /\ l \in Seq(StreamEvents) /\ Len(l) \in Nat /\ issued[s] \in Nat /\ Len(l) <= issued[s]
      /\ \A i \in 1 .. Len(l) : l[i].id = first + i
  BY DEF LogRuns, EndsAt
<1>2. h \in Seq(StreamEvents) /\ Len(h) \in Nat
  BY <1>1, KeptEmbeds
<1>3. PICK g : Embeds(g, h, l, K, Len(l))
  BY <1>1, KeptEmbeds
<1>4. l # <<>> => after >= first
  BY <1>1 DEF Expired
<1>5. \A i \in 1 .. Len(l) : l[i] \in K <=> first + i > after
  BY <1>1 DEF ToSet
<1> HIDE DEF h, K
<1>6. ASSUME NEW k \in 1 .. Len(h)
      PROVE  g[k] \in 1 .. Len(l) /\ h[k] = l[g[k]] /\ h[k].id = first + g[k]
             /\ first + g[k] > after
  BY <1>1, <1>3, <1>5 DEF Embeds
<1>7. ASSUME NEW i \in 1 .. Len(h) - 1
      PROVE  h[i + 1].id = h[i].id + 1
  <2>1. i \in 1 .. Len(h) /\ i + 1 \in 1 .. Len(h)
    BY <1>2
  <2>2. g[i] < g[i + 1] /\ g[i] \in 1 .. Len(l) /\ g[i + 1] \in 1 .. Len(l)
    BY <1>3, <1>6, <2>1 DEF Embeds
  <2>3. g[i] + 1 \in 1 .. Len(l) /\ l[g[i] + 1] \in K
    <3>1. g[i] + 1 \in 1 .. Len(l)
      BY <1>1, <2>2
    <3>2. first + (g[i] + 1) > after
      BY <1>1, <1>6, <2>1, <2>2
    <3> QED
      BY <1>5, <3>1, <3>2
  <2>4. PICK k \in 1 .. Len(h) : g[k] = g[i] + 1
    BY <1>3, <2>3 DEF Embeds
  <2>5. ~(k < i) /\ k # i /\ ~(i + 1 < k)
    <3>1. \A m, n \in 1 .. Len(h) : m < n => g[m] < g[n]
      BY <1>3 DEF Embeds
    <3>2. g[k] \in Nat /\ g[i] \in Nat /\ g[i + 1] \in Nat
      BY <2>2, <2>4
    <3> QED
      BY <2>1, <2>2, <2>4, <3>1, <3>2
  <2>6. k = i + 1
    BY <1>2, <2>5
  <2>7. g[i + 1] = g[i] + 1
    BY <2>4, <2>6
  <2>8. h[i + 1].id = first + g[i + 1] /\ h[i].id = first + g[i]
    BY <1>6, <2>1
  <2>9. first \in Int /\ g[i] \in Int
    BY <1>1, <2>2
  <2> HIDE DEF first
  <2> QED
    BY <2>7, <2>8, <2>9
<1>8. ASSUME h # <<>>
      PROVE  h[1].id = after + 1
  <2>1. 1 \in 1 .. Len(h)
    BY <1>2, <1>8
  <2>2. g[1] \in 1 .. Len(l) /\ first + g[1] > after /\ h[1].id = first + g[1]
    BY <1>6, <2>1
  <2>3. l # <<>>
    BY <1>1, <2>2
  <2>4. after + 1 - first \in 1 .. Len(l)
    BY <1>1, <1>4, <2>2, <2>3
  <2>5. l[after + 1 - first] \in K
    BY <1>1, <1>5, <2>4
  <2>6. PICK k \in 1 .. Len(h) : g[k] = after + 1 - first
    BY <1>3, <2>4, <2>5 DEF Embeds
  <2>7. ~(1 < k)
    BY <1>1, <1>3, <2>1, <2>2, <2>6 DEF Embeds
  <2>8. k = 1
    BY <1>2, <2>7
  <2> QED
    BY <1>1, <2>2, <2>6, <2>8
<1> QED
  BY <1>2, <1>7, <1>8 DEF Since, h, K

LEMMA UpToTerminalIsRun ==
    ASSUME NEW h \in Seq(StreamEvents), NEW after \in Nat,
           \A i \in 1 .. Len(h) - 1 : h[i + 1].id = h[i].id + 1,
           h # <<>> => h[1].id = after + 1
    PROVE  IsRun(UpToTerminal(h), after)
<1> DEFINE last == {i \in DOMAIN h : h[i].name = "terminal"}
<1>1. CASE last = {}
  BY <1>1 DEF UpToTerminal, IsRun
<1>2. CASE last # {}
  <2>1. last \subseteq Nat
    OBVIOUS
  <2>2. \E i \in last : \A j \in last : i <= j
    BY <1>2, <2>1, Least
  <2> DEFINE n == CHOOSE i \in last : \A j \in last : i <= j
  <2>3. n \in last /\ \A j \in last : n <= j
    BY <2>2
  <2> HIDE DEF n
  <2> DEFINE t == SubSeq(h, 1, n)
  <2>4. n \in 1 .. Len(h)
    BY <2>3
  <2>5. t \in Seq(StreamEvents) /\ Len(t) = n /\ \A i \in 1 .. n : t[i] = h[i]
    BY <2>4
  <2>6. \A i \in 1 .. n - 1 : h[i].name # "terminal"
    <3> SUFFICES ASSUME NEW i \in 1 .. n - 1, h[i].name = "terminal" PROVE FALSE
      OBVIOUS
    <3>1. i \in last
      BY <2>4
    <3> QED
      BY <2>3, <2>4, <3>1
  <2>7. UpToTerminal(h) = t
    BY <1>2 DEF UpToTerminal, n
  <2> HIDE DEF t
  <2> QED
    BY <2>4, <2>5, <2>6, <2>7 DEF IsRun
<1> QED
  BY <1>1, <1>2

\* What a handler writes extends what its client has.
LEMMA RunExtends ==
    ASSUME NEW d \in Seq(StreamEvents), NEW e, NEW at \in Nat, IsRun(e, at), e # <<>>,
           \A i \in 1 .. Len(d) - 1 : d[i + 1].id = d[i].id + 1 /\ d[i].name # "terminal",
           d # <<>> => at = d[Len(d)].id /\ d[Len(d)].name # "terminal"
    PROVE  LET n == d \o e
           IN  /\ n \in Seq(StreamEvents) /\ n # <<>> /\ n[Len(n)] = e[Len(e)]
               /\ \A i \in 1 .. Len(n) - 1 : n[i + 1].id = n[i].id + 1 /\ n[i].name # "terminal"
<1> DEFINE n == d \o e
<1>1. /\ e \in Seq(StreamEvents) /\ Len(e) \in Nat /\ Len(e) > 0 /\ Len(d) \in Nat
      /\ e[1].id = at + 1
      /\ \A i \in 1 .. Len(e) - 1 : e[i + 1].id = e[i].id + 1 /\ e[i].name # "terminal"
  BY DEF IsRun
<1>2. /\ n \in Seq(StreamEvents) /\ Len(n) = Len(d) + Len(e)
      /\ \A i \in 1 .. Len(d) : n[i] = d[i]
      /\ \A i \in 1 .. Len(e) : n[Len(d) + i] = e[i]
  <2>1. n \in Seq(StreamEvents) /\ Len(n) = Len(d) + Len(e)
    BY <1>1
  <2>2. \A i \in 1 .. Len(d) : n[i] = d[i]
    BY <1>1
  <2>3. ASSUME NEW i \in 1 .. Len(e) PROVE n[Len(d) + i] = e[i]
    BY <1>1
  <2> QED
    BY <2>1, <2>2, <2>3
<1> HIDE DEF n
<1>3. n # <<>> /\ n[Len(n)] = e[Len(e)]
  BY <1>1, <1>2
<1>4. ASSUME NEW i \in 1 .. Len(n) - 1
      PROVE  n[i + 1].id = n[i].id + 1 /\ n[i].name # "terminal"
  <2>1. CASE i < Len(d)
    <3>1. i \in 1 .. Len(d) - 1 /\ i \in 1 .. Len(d) /\ i + 1 \in 1 .. Len(d)
      BY <1>1, <2>1
    <3> QED
      BY <1>2, <3>1
  <2>2. CASE i = Len(d)
    <3>1. d # <<>> /\ i \in 1 .. Len(d) /\ 1 \in 1 .. Len(e)
      BY <1>1, <2>2
    <3>2. n[i] = d[Len(d)] /\ n[i + 1] = e[1]
      BY <1>2, <2>2, <3>1
    <3> QED
      BY <1>1, <3>1, <3>2
  <2>3. CASE i > Len(d)
    <3> DEFINE k == i - Len(d)
    <3>1. k \in 1 .. Len(e) - 1 /\ k \in 1 .. Len(e) /\ k + 1 \in 1 .. Len(e)
          /\ i = Len(d) + k /\ i + 1 = Len(d) + (k + 1)
      <4>1. Len(n) = Len(d) + Len(e)
        BY <1>2
      <4>2. i \in Int /\ 1 <= i /\ i <= Len(n) - 1
        BY <1>1, <4>1
      <4>3. Len(d) \in Nat /\ Len(e) \in Nat
        BY <1>1
      <4> QED
        BY <2>3, <4>1, <4>2, <4>3
    <3> HIDE DEF k
    <3> QED
      BY <1>1, <1>2, <3>1
  <2> QED
    BY <1>1, <2>1, <2>2, <2>3
<1> QED
  BY <1>2, <1>3, <1>4 DEF n

\* The steps of the broker keep its history a run.
LEMMA NextEnds ==
    ASSUME NEW last \in Nat, NEW h, EndsAt(h, last), NEW name \in {"snapshot", "event", "terminal"}
    PROVE  EndsAt(Append(h, [id |-> last + 1, name |-> name]), last + 1)
<1> DEFINE e == [id |-> last + 1, name |-> name]
           n == Append(h, e)
<1>1. h \in Seq(StreamEvents) /\ Len(h) \in Nat /\ Len(h) <= last
  BY DEF EndsAt
<1>2. e \in StreamEvents /\ e.id = last + 1
  BY DEF StreamEvents
<1> HIDE DEF e
<1>3. /\ n \in Seq(StreamEvents) /\ Len(n) = Len(h) + 1 /\ n[Len(h) + 1] = e
      /\ \A i \in 1 .. Len(h) : n[i] = h[i]
  BY <1>1, <1>2
<1> HIDE DEF n
<1>4. ASSUME NEW i \in 1 .. Len(n)
      PROVE  n[i].id = last + 1 - Len(n) + i
  <2>1. CASE i \in 1 .. Len(h)
    BY <1>1, <1>3, <2>1 DEF EndsAt
  <2>2. CASE i = Len(h) + 1
    BY <1>1, <1>2, <1>3, <2>2
  <2> QED
    BY <1>1, <1>3, <2>1, <2>2
<1> QED
  BY <1>1, <1>3, <1>4 DEF EndsAt, n, e

LEMMA BoundedEnds ==
    ASSUME NEW last \in Nat, NEW h, EndsAt(h, last)
    PROVE  EndsAt(Bounded(h), last)
<1>1. CASE Len(h) > HistoryLimit
  <2> DEFINE b == Tail(h)
  <2>1. h \in Seq(StreamEvents) /\ Len(h) \in Nat /\ Len(h) <= last /\ Len(h) > 0
    BY <1>1, StreamLimits DEF EndsAt
  <2>2. h # <<>>
    BY <2>1
  <2>3. /\ b \in Seq(StreamEvents) /\ Len(b) = Len(h) - 1
        /\ \A i \in 1 .. Len(b) : b[i] = h[i + 1]
    BY <2>1, <2>2
  <2> HIDE DEF b
  <2>4. ASSUME NEW i \in 1 .. Len(b)
        PROVE  b[i].id = last - Len(b) + i
    <3>1. i + 1 \in 1 .. Len(h)
      BY <2>1, <2>3
    <3>2. h[i + 1].id = last - Len(h) + (i + 1)
      BY <3>1 DEF EndsAt
    <3>3. b[i] = h[i + 1]
      BY <2>3
    <3>4. last - Len(h) + (i + 1) = last - (Len(h) - 1) + i
      BY <2>1
    <3> QED
      BY <2>3, <3>2, <3>3, <3>4
  <2>5. EndsAt(b, last)
    <3>1. Len(b) <= last
      BY <2>1, <2>3
    <3> QED
      BY <2>3, <2>4, <3>1 DEF EndsAt
  <2> QED
    BY <1>1, <2>5 DEF Bounded, b
<1>2. CASE ~(Len(h) > HistoryLimit)
  BY <1>2 DEF Bounded
<1> QED
  BY <1>1, <1>2

LEMMA PublishKeepsLog ==
    ASSUME LogRuns, NEW s \in StreamSessions, NEW name \in {"snapshot", "event", "terminal"},
           Publish(s, name)
    PROVE  LogRuns'
<1>1. CASE s \in Closed
  BY <1>1 DEF Publish, LogRuns
<1>2. CASE s \notin Closed
  <2> DEFINE b == Bounded(Append(log[s], [id |-> issued[s] + 1, name |-> name]))
  <2>1. /\ issued' = [issued EXCEPT ![s] = @ + 1]
        /\ log' = [log EXCEPT ![s] = b]
    BY <1>2 DEF Publish
  <2>2. issued[s] \in Nat /\ issued[s] + 1 \in Nat
    BY DEF LogRuns
  <2>3. EndsAt(b, issued[s] + 1)
    BY <2>2, NextEnds, BoundedEnds DEF LogRuns
  <2> HIDE DEF b
  <2> QED
    BY <2>1, <2>2, <2>3 DEF LogRuns
<1> QED
  BY <1>1, <1>2

LEMMA CloseKeepsLog ==
    ASSUME LogRuns, NEW s \in StreamSessions, Close(s)
    PROVE  LogRuns'
<1>1. PICK gone :
        /\ log' = [x \in StreamSessions |-> IF x \in gone THEN <<>> ELSE log[x]]
        /\ issued' = [x \in StreamSessions |-> IF x \in gone THEN 0 ELSE issued[x]]
  BY DEF Close
<1>2. EndsAt(<<>>, 0)
  BY DEF EndsAt
<1> QED
  BY <1>1, <1>2 DEF LogRuns

\* The steps of the handlers, as an external client sees them.
LEMMA ReturnKeepsOthers ==
    ASSUME Streaming, NEW c \in StreamClients, NEW state, state # "watching" \/ state = client[c],
           Return(c, state)
    PROVE  /\ DOMAIN handler' = StreamClients /\ DOMAIN client' = StreamClients
           /\ \A d \in StreamClients \ {c} : handler'[d] = handler[d] /\ client'[d] = client[d]
           /\ handler'[c] = "idle" /\ client'[c] \in {client[c], state}
           /\ client'[c] = "watching" => state = "watching"
  BY DEF Return, Streaming

LEMMA FlushKeepsHolds ==
    ASSUME Streaming, NEW c \in ExternalClients, NEW next,
           ~Expired(Watched[c], cursor[c]), Flush(c, next),
           handler[c] # "idle" \/ client[c] = "watching",
           UNCHANGED log
    PROVE  /\ DOMAIN handler' = StreamClients /\ DOMAIN client' = StreamClients
           /\ DOMAIN cursor' = StreamClients /\ DOMAIN delivered' = StreamClients
           /\ \A d \in ExternalClients : Carries(d)'
<1> DEFINE s == Watched[c]
           e == UpToTerminal(Since(s, cursor[c]))
           final == e # <<>> /\ Last(e).name = "terminal"
           missed == client[c] = "left" /\ e # <<>>
<1>1. c \in StreamClients /\ s \in StreamSessions /\ Carries(c) /\ LogRuns
  BY WatchedAssumption DEF StreamClients, Streaming
<1>2. IsRun(e, cursor[c])
  BY <1>1, SinceIsRun, UpToTerminalIsRun DEF Carries
<1>3. /\ IF missed \/ final \/ next = "idle"
         THEN Return(c, IF final THEN "served" ELSE client[c])
         ELSE handler' = [handler EXCEPT ![c] = next] /\ UNCHANGED client
      /\ IF missed
         THEN UNCHANGED <<cursor, delivered>>
         ELSE /\ delivered' = [delivered EXCEPT ![c] = @ \o e]
              /\ cursor' = [cursor EXCEPT ![c] = IF e = <<>> THEN @ ELSE Last(e).id]
  BY DEF Flush
<1> HIDE DEF e
<1>4. /\ DOMAIN handler' = StreamClients /\ DOMAIN client' = StreamClients
      /\ DOMAIN cursor' = StreamClients /\ DOMAIN delivered' = StreamClients
      /\ \A d \in StreamClients \ {c} :
            /\ handler'[d] = handler[d] /\ client'[d] = client[d]
            /\ cursor'[d] = cursor[d] /\ delivered'[d] = delivered[d]
  <2>1. /\ DOMAIN handler' = StreamClients /\ DOMAIN client' = StreamClients
        /\ \A d \in StreamClients \ {c} : handler'[d] = handler[d] /\ client'[d] = client[d]
    BY <1>1, <1>3, ReturnKeepsOthers DEF Streaming
  <2> QED
    BY <1>3, <2>1 DEF Streaming
<1>5. ASSUME NEW d \in ExternalClients \ {c} PROVE Carries(d)'
  BY <1>4 DEF Carries, Streaming, StreamClients
<1>6. delivered[c] # <<>> => delivered[c][Len(delivered[c])].name # "terminal"
  BY <1>1 DEF Carries
<1>7. Carries(c)'
  <2>1. CASE missed \/ e = <<>>
    <3>1. cursor'[c] = cursor[c] /\ delivered'[c] = delivered[c]
      <4>1. CASE missed
        BY <1>3, <4>1
      <4>2. CASE e = <<>> /\ ~missed
        <5>1. delivered[c] \o <<>> = delivered[c]
          BY <1>1 DEF Carries
        <5> QED
          BY <1>1, <1>3, <4>2, <5>1 DEF Streaming
      <4> QED
        BY <2>1, <4>1, <4>2
    <3> QED
      BY <1>1, <1>6, <3>1 DEF Carries
  <2>2. CASE ~missed /\ e # <<>>
    <3>1. delivered'[c] = delivered[c] \o e /\ cursor'[c] = Last(e).id
      BY <1>1, <1>3, <2>2 DEF Streaming
    <3>2. e \in Seq(StreamEvents) /\ Last(e) = e[Len(e)] /\ Len(e) \in 1 .. Len(e)
      BY <1>2, <2>2 DEF IsRun, Last
    <3>3. Last(e).id \in Nat
      <4>1. e[Len(e)] \in StreamEvents
        BY <3>2
      <4> QED
        BY <3>2, <4>1 DEF StreamEvents
    <3>4. LET n == delivered[c] \o e
          IN  /\ n \in Seq(StreamEvents) /\ n # <<>> /\ n[Len(n)] = e[Len(e)]
              /\ \A i \in 1 .. Len(n) - 1 : n[i + 1].id = n[i].id + 1 /\ n[i].name # "terminal"
      BY <1>1, <1>2, <1>6, <2>2, RunExtends DEF Carries
    <3>5. final => handler'[c] = "idle" /\ client'[c] # "watching"
      <4>1. CASE final
        <5>1. Return(c, "served")
          BY <1>3, <4>1
        <5> QED
          BY <1>1, <5>1 DEF Return, Streaming
      <4> QED
        BY <4>1
    <3> QED
      BY <2>2, <3>1, <3>2, <3>3, <3>4, <3>5 DEF Carries
  <2> QED
    BY <2>1, <2>2
<1> QED
  BY <1>4, <1>5, <1>7

\* A step that writes nothing to a client and wakes none that is through.
LEMMA QuietStepKeepsStreaming ==
    ASSUME Streaming, LogRuns', UNCHANGED <<cursor, delivered>>,
           DOMAIN handler' = StreamClients, DOMAIN client' = StreamClients,
           \A d \in ExternalClients :
              handler[d] = "idle" /\ client[d] # "watching" =>
                 handler'[d] = "idle" /\ client'[d] # "watching"
    PROVE  Streaming'
<1>1. ASSUME NEW d \in ExternalClients PROVE Carries(d)'
  BY DEF Carries, Streaming
<1> QED
  BY <1>1 DEF Streaming

LEMMA ReturnKeepsStreaming ==
    ASSUME Streaming, NEW c \in StreamClients, NEW state, state # "watching" \/ state = client[c],
           Return(c, state), UNCHANGED <<log, issued, cursor, delivered>>
    PROVE  Streaming'
<1>1. LogRuns'
  BY DEF Streaming, LogRuns
<1>2. ASSUME NEW d \in ExternalClients, handler[d] = "idle", client[d] # "watching"
      PROVE  handler'[d] = "idle" /\ client'[d] # "watching"
  BY <1>2, ReturnKeepsOthers DEF StreamClients
<1> QED
  BY <1>1, <1>2, ReturnKeepsOthers, QuietStepKeepsStreaming

LEMMA FlushKeepsStreaming ==
    ASSUME Streaming, NEW c \in ExternalClients, NEW next, FlushOrBreak(c, next),
           handler[c] # "idle", UNCHANGED <<log, issued>>
    PROVE  Streaming'
<1>1. CASE Expired(Watched[c], cursor[c])
  <2>1. Return(c, client[c]) /\ UNCHANGED <<cursor, delivered>>
    BY <1>1 DEF FlushOrBreak
  <2> QED
    BY <2>1, ReturnKeepsStreaming DEF StreamClients
<1>2. CASE ~Expired(Watched[c], cursor[c])
  <2>1. Flush(c, next)
    BY <1>2 DEF FlushOrBreak
  <2>2. LogRuns'
    BY DEF Streaming, LogRuns
  <2> QED
    BY <1>2, <2>1, <2>2, FlushKeepsHolds DEF Streaming
<1> QED
  BY <1>1, <1>2

LEMMA StreamingStarts == StreamInit => Streaming
<1> SUFFICES ASSUME StreamInit PROVE Streaming
  OBVIOUS
<1> DEFINE first == [id |-> 1, name |-> "snapshot"]
<1>1. first \in StreamEvents /\ first.id = 1
  BY DEF StreamEvents
<1> HIDE DEF first
<1>2. EndsAt(<<first>>, 1)
  BY <1>1 DEF EndsAt
<1>3. LogRuns
  BY <1>2 DEF StreamInit, LogRuns, first
<1>4. ASSUME NEW c \in ExternalClients PROVE Carries(c)
  BY DEF StreamInit, Carries, StreamClients
<1> QED
  BY <1>3, <1>4 DEF StreamInit, Streaming

LEMMA StreamingStays == Streaming /\ [StreamNext]_streamVars => Streaming'
<1> SUFFICES ASSUME Streaming, [StreamNext]_streamVars PROVE Streaming'
  OBVIOUS
<1>1. ASSUME LogRuns', QuietClients PROVE Streaming'
  BY <1>1, QuietStepKeepsStreaming DEF QuietClients, Streaming
<1>2. ASSUME UNCHANGED <<log, issued>> PROVE LogRuns'
  BY <1>2 DEF Streaming, LogRuns
<1>3. ASSUME NEW s \in StreamSessions, Record(s) PROVE Streaming'
  BY <1>1, <1>2, <1>3 DEF Record, brokerVars, clientVars, QuietClients
<1>4. ASSUME NEW s \in StreamSessions, ShowOutcome(s) PROVE Streaming'
  BY <1>1, <1>4, PublishKeepsLog DEF ShowOutcome, Streaming
<1>5. ASSUME NEW s \in StreamSessions, Announce(s) PROVE Streaming'
  BY <1>1, <1>5, PublishKeepsLog DEF Announce, Streaming
<1>6. ASSUME NEW s \in StreamSessions, CloseStream(s) PROVE Streaming'
  BY <1>1, <1>6, CloseKeepsLog DEF CloseStream, Streaming
<1>7. ASSUME NEW s \in StreamSessions, LateEvent(s) PROVE Streaming'
  BY <1>1, <1>7, PublishKeepsLog DEF LateEvent, Streaming
<1>8. ASSUME NEW s \in StreamSessions, NEW name \in {"snapshot", "event"}, Progress(s, name)
      PROVE  Streaming'
  BY <1>1, <1>8, PublishKeepsLog DEF Progress, Streaming
<1>9. ASSUME NEW c \in StreamClients, Leave(c) PROVE Streaming'
  <2>1. UNCHANGED <<log, issued, cursor, delivered, handler>> /\ client' = [client EXCEPT ![c] = "left"]
    BY <1>9 DEF Leave, Quiet
  <2> QED
    BY <1>2, <2>1, QuietStepKeepsStreaming DEF Streaming
<1>10. ASSUME NEW c \in UiClients, UiOpen(c) PROVE Streaming'
  <2>1. /\ UNCHANGED <<log, issued, cursor, delivered, client>>
        /\ handler' = [handler EXCEPT ![c] = "opened"]
    BY <1>10 DEF UiOpen, Quiet
  <2>2. c \notin ExternalClients
    BY ClientsAssumption
  <2> QED
    BY <1>2, <2>1, <2>2, QuietStepKeepsStreaming DEF Streaming
<1>11. ASSUME NEW c \in UiClients, UiFirst(c) PROVE Streaming'
  <2>1. UNCHANGED <<log, issued, cursor, delivered>>
    BY <1>11 DEF UiFirst, Quiet
  <2>2. CASE Return(c, "served")
    BY <2>1, <2>2, ReturnKeepsStreaming DEF StreamClients
  <2>3. CASE handler' = [handler EXCEPT ![c] = "looked"] /\ UNCHANGED client
    BY <1>2, <2>1, <2>3, ClientsAssumption, QuietStepKeepsStreaming DEF Streaming
  <2> QED
    BY <1>11, <2>2, <2>3 DEF UiFirst
<1>12. ASSUME NEW c \in StreamClients, Subscribe(c) PROVE Streaming'
  <2>1. /\ UNCHANGED <<log, issued, cursor, delivered, client>> /\ handler[c] = "looked"
        /\ handler' = [handler EXCEPT ![c] = "streaming"]
    BY <1>12 DEF Subscribe, Quiet
  <2> QED
    BY <1>2, <2>1, QuietStepKeepsStreaming DEF Streaming
<1>13. ASSUME NEW c \in UiClients, UiTake(c) PROVE Streaming'
  <2>1. UNCHANGED <<log, issued, cursor, delivered>>
    BY <1>13 DEF UiTake, Quiet
  <2>2. CASE \E state : Return(c, state) /\ (state = "served" \/ state = client[c])
    BY <2>1, <2>2, ReturnKeepsStreaming DEF StreamClients
  <2>3. CASE UNCHANGED <<handler, client>>
    BY <1>2, <2>1, <2>3, QuietStepKeepsStreaming DEF Streaming
  <2>4. (\E state : Return(c, state) /\ (state = "served" \/ state = client[c]))
        \/ UNCHANGED <<handler, client>>
    BY <1>13 DEF UiTake, UiAfterStop
  <2> QED
    BY <2>2, <2>3, <2>4
<1>14. ASSUME NEW c \in ExternalClients, ExternalReplay(c) PROVE Streaming'
  <2>1. UNCHANGED <<log, issued>> /\ handler[c] = "idle" /\ client[c] = "watching"
    BY <1>14 DEF ExternalReplay, Quiet
  <2>2. CASE Expired(Watched[c], cursor[c])
    <3>1. UNCHANGED <<cursor, delivered, handler>> /\ client' = [client EXCEPT ![c] = "expired"]
      BY <1>14, <2>2 DEF ExternalReplay
    <3> QED
      BY <1>2, <2>1, <3>1, QuietStepKeepsStreaming DEF Streaming
  <2>3. CASE ~Expired(Watched[c], cursor[c])
    <3>1. Flush(c, "replayed")
      BY <1>14, <2>3 DEF ExternalReplay
    <3> QED
      BY <1>2, <2>1, <2>3, <3>1, FlushKeepsHolds DEF Streaming
  <2> QED
    BY <2>2, <2>3
<1>15. ASSUME NEW c \in ExternalClients, ExternalLook(c) PROVE Streaming'
  <2>1. UNCHANGED <<log, issued>> /\ handler[c] = "replayed"
    BY <1>15 DEF ExternalLook, Quiet
  <2>2. CASE Watched[c] \in ended
    <3>1. FlushOrBreak(c, "idle")
      BY <1>15, <2>2 DEF ExternalLook
    <3> QED
      BY <2>1, <3>1, FlushKeepsStreaming
  <2>3. CASE Watched[c] \notin ended
    <3>1. /\ UNCHANGED <<cursor, delivered, client>>
          /\ handler' = [handler EXCEPT ![c] = "looked"]
      BY <1>15, <2>3 DEF ExternalLook
    <3> QED
      BY <1>2, <2>1, <3>1, QuietStepKeepsStreaming DEF Streaming
  <2> QED
    BY <2>2, <2>3
<1>16. ASSUME NEW c \in ExternalClients, ExternalTake(c) PROVE Streaming'
  <2>1. UNCHANGED <<log, issued>> /\ handler[c] = "streaming"
    BY <1>16 DEF ExternalTake, Quiet
  <2>2. PICK next : FlushOrBreak(c, next)
    BY <1>16 DEF ExternalTake
  <2> QED
    BY <2>1, <2>2, FlushKeepsStreaming
<1>17. ASSUME NEW c \in ExternalClients, Heartbeat(c) PROVE Streaming'
  <2>1. UNCHANGED <<log, issued, cursor, delivered>> /\ Return(c, "left")
    BY <1>17 DEF Heartbeat, Quiet
  <2> QED
    BY <2>1, ReturnKeepsStreaming DEF StreamClients
<1>18. CASE UNCHANGED streamVars
  BY <1>1, <1>2, <1>18 DEF streamVars, QuietClients
<1>19. CASE StreamNext
  <2>1. CASE \E s \in StreamSessions :
               \/ Worker(s) \/ LateEvent(s)
               \/ \E name \in {"snapshot", "event"} : Progress(s, name)
    BY <1>3, <1>4, <1>5, <1>6, <1>7, <1>8, <2>1 DEF Worker
  <2>2. CASE \E c \in UiClients : UiOpen(c) \/ UiHandler(c)
    BY <1>10, <1>11, <1>12, <1>13, <2>2 DEF UiHandler, StreamClients
  <2>3. CASE \E c \in ExternalClients : ExternalReplay(c) \/ ExternalHandler(c)
    BY <1>12, <1>14, <1>15, <1>16, <1>17, <2>3 DEF ExternalHandler, StreamClients
  <2> QED
    BY <1>9, <1>19, <2>1, <2>2, <2>3 DEF StreamNext
<1> QED
  BY <1>18, <1>19

\* Whatever was published, lost, expired or replayed, an external client of
\* /api/external/v1/executions/<id>/events holds consecutive events that end
\* with its cursor, and nothing follows the terminal event.
THEOREM StreamsAreGapless == StreamSpec => []ReplayIsGapless
<1>1. Streaming => ReplayIsGapless
  BY DEF Streaming, Carries, ReplayIsGapless
<1> QED
  BY <1>1, StreamingStarts, StreamingStays, PTL DEF StreamSpec

---------------------------------------------------------------------------
(* SessionStream: types, and the slots.                                  *)

\* The handlers of the UI that run, each with a slot.
Attending == {c \in UiClients : handler[c] # "idle"}

SlotsAreCounted == IsFiniteSet(Attending) /\ slots + Cardinality(Attending) = MaxSubscribers

Slotted == StreamTypeOK /\ SlotsAreCounted

LEMMA SlottedFacts ==
    ASSUME Slotted
    PROVE  /\ slots \in Nat /\ Cardinality(Attending) \in Nat /\ MaxSubscribers \in Nat
           /\ slots \in 0 .. MaxSubscribers
           /\ \A c \in UiClients : handler[c] # "idle" => c \in Attending /\ Cardinality(Attending) >= 1
<1>1. MaxSubscribers \in Nat
  BY StreamLimits
<1>2. IsFiniteSet(Attending) /\ Cardinality(Attending) \in Nat
  BY FS_CardinalityType DEF Slotted, SlotsAreCounted
<1>3. ASSUME NEW c \in UiClients, handler[c] # "idle" PROVE c \in Attending /\ Cardinality(Attending) >= 1
  <2>1. c \in Attending
    BY <1>3 DEF Attending
  <2>2. Cardinality(Attending) # 0
    BY <1>2, <2>1, FS_EmptySet
  <2> QED
    BY <1>2, <2>1, <2>2
<1> QED
  BY <1>1, <1>2, <1>3 DEF Slotted, StreamTypeOK

\* As long as no handler starts or returns the slots stay.
LEMMA SlotsStay ==
    ASSUME Slotted, slots' = slots,
           \A c \in UiClients : (handler'[c] = "idle") <=> (handler[c] = "idle")
    PROVE  SlotsAreCounted' /\ slots' \in 0 .. MaxSubscribers
<1>1. Attending' = Attending
  BY DEF Attending
<1> QED
  BY <1>1, SlottedFacts DEF SlotsAreCounted, Slotted

LEMMA ReturnTyped ==
    ASSUME Slotted, NEW c \in StreamClients, NEW state \in {"watching", "served", "expired", "left"},
           Return(c, state), handler[c] # "idle" \/ c \notin UiClients
    PROVE  /\ SlotsAreCounted' /\ slots' \in 0 .. MaxSubscribers
           /\ handler' \in [StreamClients -> {"idle", "opened", "looked", "replayed", "streaming"}]
           /\ client' \in [StreamClients -> {"watching", "served", "expired", "left"}]
           /\ queue' \in [StreamClients -> Seq(Items)]
           /\ subscribed' \subseteq StreamClients
<1>1. /\ handler' \in [StreamClients -> {"idle", "opened", "looked", "replayed", "streaming"}]
      /\ handler' = [handler EXCEPT ![c] = "idle"]
  BY DEF Return, Slotted, StreamTypeOK
<1>2. client' \in [StreamClients -> {"watching", "served", "expired", "left"}]
  BY DEF Return, Slotted, StreamTypeOK
<1>3. queue' \in [StreamClients -> Seq(Items)]
  BY DEF Return, Slotted, StreamTypeOK
<1>4. subscribed' \subseteq StreamClients
  BY DEF Return, Slotted, StreamTypeOK
<1>5. SlotsAreCounted' /\ slots' \in 0 .. MaxSubscribers
  <2>1. CASE c \in UiClients
    <3>1. slots' = slots + 1 /\ handler[c] # "idle"
      BY <2>1 DEF Return
    <3>2. Attending' = Attending \ {c} /\ c \in Attending
      BY <1>1, <2>1, <3>1 DEF Attending, Slotted, StreamTypeOK, StreamClients
    <3>3. IsFiniteSet(Attending \ {c}) /\ Cardinality(Attending \ {c}) = Cardinality(Attending) - 1
      BY <3>2, FS_RemoveElement DEF Slotted, SlotsAreCounted
    <3>4. slots + Cardinality(Attending) = MaxSubscribers /\ Cardinality(Attending) >= 1
      BY <2>1, <3>1, SlottedFacts DEF Slotted, SlotsAreCounted
    <3> HIDE DEF Attending
    <3>5. slots \in Nat /\ Cardinality(Attending) \in Nat /\ MaxSubscribers \in Nat
      BY SlottedFacts
    <3>6. slots' \in 0 .. MaxSubscribers
      BY <3>1, <3>4, <3>5
    <3> QED
      BY <3>1, <3>2, <3>3, <3>4, <3>5, <3>6 DEF SlotsAreCounted
  <2>2. CASE c \notin UiClients
    <3>1. slots' = slots
      BY <2>2 DEF Return
    <3>2. \A d \in UiClients : handler'[d] = handler[d]
      BY <1>1, <2>2 DEF Slotted, StreamTypeOK, StreamClients
    <3> QED
      BY <3>1, <3>2, SlotsStay
  <2> QED
    BY <2>1, <2>2
<1> QED
  BY <1>1, <1>2, <1>3, <1>4, <1>5

\* What the broker keeps.
BrokerTyped ==
    /\ log \in [StreamSessions -> Seq(StreamEvents)] /\ issued \in [StreamSessions -> Nat]
    /\ latest \subseteq StreamSessions /\ closedIds \in Seq(StreamSessions)
    /\ subscribed \subseteq StreamClients /\ queue \in [StreamClients -> Seq(Items)]

LEMMA PutToTyped ==
    ASSUME BrokerTyped, NEW s, NEW item \in Items, PutTo(s, item)
    PROVE  queue' \in [StreamClients -> Seq(Items)]
<1>1. ASSUME NEW c \in StreamClients PROVE Append(queue[c], item) \in Seq(Items)
  BY DEF BrokerTyped
<1> QED
  BY <1>1 DEF PutTo, BrokerTyped

LEMMA PublishTyped ==
    ASSUME BrokerTyped, NEW s \in StreamSessions, NEW name \in {"snapshot", "event", "terminal"},
           Publish(s, name), UNCHANGED <<closedIds, subscribed>>
    PROVE  BrokerTyped'
<1>1. CASE s \in Closed
  BY <1>1 DEF Publish, BrokerTyped
<1>2. CASE s \notin Closed
  <2> DEFINE n == Append(log[s], [id |-> issued[s] + 1, name |-> name])
  <2>1. n \in Seq(StreamEvents) /\ n # <<>>
    <3>1. [id |-> issued[s] + 1, name |-> name] \in StreamEvents
      BY DEF BrokerTyped, StreamEvents
    <3>2. log[s] \in Seq(StreamEvents)
      BY DEF BrokerTyped
    <3> QED
      BY <3>1, <3>2
  <2>2. Bounded(n) \in Seq(StreamEvents)
    BY <2>1 DEF Bounded
  <2>3. log' = [log EXCEPT ![s] = Bounded(n)]
    BY <1>2 DEF Publish
  <2> HIDE DEF n
  <2>4. log' \in [StreamSessions -> Seq(StreamEvents)]
    BY <2>2, <2>3 DEF BrokerTyped
  <2>5. name \in Items /\ PutTo(s, name)
    BY <1>2 DEF Publish, Items
  <2>6. issued' \in [StreamSessions -> Nat]
    <3>1. issued' = [issued EXCEPT ![s] = @ + 1]
      BY <1>2 DEF Publish
    <3> QED
      BY <3>1 DEF BrokerTyped
  <2>7. latest' \subseteq StreamSessions
    <3>1. latest' = latest \cup (IF name = "snapshot" THEN {s} ELSE {})
      BY <1>2 DEF Publish
    <3> QED
      BY <3>1 DEF BrokerTyped
  <2> QED
    BY <2>7, <2>4, <2>5, <2>6, PutToTyped DEF BrokerTyped
<1> QED
  BY <1>1, <1>2

LEMMA CloseTyped ==
    ASSUME BrokerTyped, NEW s \in StreamSessions, Close(s)
    PROVE  BrokerTyped'
<1> DEFINE ids == IF s \in Closed THEN closedIds ELSE Append(closedIds, s)
           gone == IF Len(ids) > ClosedLimit THEN {Head(ids)} ELSE {}
<1>1. ids \in Seq(StreamSessions)
  BY DEF BrokerTyped
<1>2. gone # {} => ids # <<>>
  BY StreamLimits
<1>3. /\ PutTo(s, "stop") /\ subscribed' = {c \in subscribed : Watched[c] # s}
      /\ closedIds' = IF gone = {} THEN ids ELSE Tail(ids)
      /\ latest' = latest \ gone
      /\ log' = [x \in StreamSessions |-> IF x \in gone THEN <<>> ELSE log[x]]
      /\ issued' = [x \in StreamSessions |-> IF x \in gone THEN 0 ELSE issued[x]]
  BY DEF Close
<1> HIDE DEF ids, gone
<1>4. closedIds' \in Seq(StreamSessions)
  BY <1>1, <1>2, <1>3
<1>5. log' \in [StreamSessions -> Seq(StreamEvents)]
  <2>1. <<>> \in Seq(StreamEvents)
    OBVIOUS
  <2> QED
    BY <1>3, <2>1 DEF BrokerTyped
<1>6. issued' \in [StreamSessions -> Nat] /\ latest' \subseteq StreamSessions
  BY <1>3 DEF BrokerTyped
<1>7. "stop" \in Items /\ subscribed' \subseteq StreamClients
  BY <1>3 DEF Items, BrokerTyped
<1> QED
  BY <1>3, <1>4, <1>5, <1>6, <1>7, PutToTyped DEF BrokerTyped

\* The tokens of the clients.
ClientsTyped ==
    /\ handler \in [StreamClients -> {"idle", "opened", "looked", "replayed", "streaming"}]
    /\ client \in [StreamClients -> {"watching", "served", "expired", "left"}]
    /\ cursor \in [StreamClients -> Nat] /\ delivered \in [StreamClients -> Seq(StreamEvents)]
    /\ slots \in 0 .. MaxSubscribers

LEMMA TypesSplit ==
    StreamTypeOK <=> /\ ended \subseteq StreamSessions /\ stage \in [StreamSessions -> Stages]
                     /\ BrokerTyped /\ ClientsTyped
BY DEF StreamTypeOK, BrokerTyped, ClientsTyped

LEMMA SlottedStarts == StreamInit => Slotted
<1> SUFFICES ASSUME StreamInit PROVE Slotted
  OBVIOUS
<1>1. StreamTypeOK
  <2>1. <<[id |-> 1, name |-> "snapshot"]>> \in Seq(StreamEvents)
    BY DEF StreamEvents
  <2>2. log \in [StreamSessions -> Seq(StreamEvents)]
    BY <2>1 DEF StreamInit
  <2>3. /\ \A c \in StreamClients : client[c] \in {"watching", "served", "expired", "left"}
        /\ client \in [StreamClients -> {"watching", "served", "expired", "left"}]
    BY DEF StreamInit
  <2> QED
    BY <2>2, <2>3, StreamLimits DEF StreamInit, StreamTypeOK, Stages
<1>2. Attending = {}
  BY DEF StreamInit, Attending, StreamClients
<1>3. IsFiniteSet({}) /\ Cardinality({}) = 0
  BY FS_EmptySet
<1> QED
  BY <1>1, <1>2, <1>3, StreamLimits DEF Slotted, SlotsAreCounted, StreamInit

LEMMA FlushTyped ==
    ASSUME Slotted, Streaming, NEW c \in ExternalClients, NEW next \in {"idle", "replayed", "streaming"},
           Flush(c, next), ~Expired(Watched[c], cursor[c]), UNCHANGED <<log, issued>>
    PROVE  /\ SlotsAreCounted' /\ ClientsTyped'
           /\ queue' \in [StreamClients -> Seq(Items)] /\ subscribed' \subseteq StreamClients
<1> DEFINE e == UpToTerminal(Since(Watched[c], cursor[c]))
           final == e # <<>> /\ Last(e).name = "terminal"
           missed == client[c] = "left" /\ e # <<>>
<1>1. c \in StreamClients /\ c \notin UiClients /\ Watched[c] \in StreamSessions /\ LogRuns
      /\ cursor[c] \in Nat
  BY WatchedAssumption, ClientsAssumption DEF StreamClients, Streaming, Slotted, StreamTypeOK
<1>2. e \in Seq(StreamEvents)
  BY <1>1, SinceIsRun, UpToTerminalIsRun DEF IsRun
<1>3. /\ IF missed \/ final \/ next = "idle"
         THEN Return(c, IF final THEN "served" ELSE client[c])
         ELSE /\ handler' = [handler EXCEPT ![c] = next]
              /\ queue' = [queue EXCEPT ![c] = IF @ = <<>> THEN @ ELSE Tail(@)]
              /\ UNCHANGED <<subscribed, client, slots>>
      /\ IF missed
         THEN UNCHANGED <<cursor, delivered>>
         ELSE /\ delivered' = [delivered EXCEPT ![c] = @ \o e]
              /\ cursor' = [cursor EXCEPT ![c] = IF e = <<>> THEN @ ELSE Last(e).id]
  BY DEF Flush
<1> HIDE DEF e
<1>4. cursor' \in [StreamClients -> Nat] /\ delivered' \in [StreamClients -> Seq(StreamEvents)]
  <2>1. delivered[c] \in Seq(StreamEvents) /\ delivered[c] \o e \in Seq(StreamEvents)
    BY <1>1, <1>2 DEF Slotted, StreamTypeOK
  <2>2. e # <<>> => Last(e).id \in Nat
    <3>1. e # <<>> => e[Len(e)] \in StreamEvents
      BY <1>2
    <3> QED
      BY <3>1 DEF Last, StreamEvents
  <2>3. (IF e = <<>> THEN cursor[c] ELSE Last(e).id) \in Nat
    BY <1>1, <2>2
  <2>4. cursor \in [StreamClients -> Nat] /\ delivered \in [StreamClients -> Seq(StreamEvents)]
    BY DEF Slotted, StreamTypeOK
  <2> QED
    BY <1>3, <2>1, <2>3, <2>4
<1>5. CASE missed \/ final \/ next = "idle"
  <2> DEFINE state == IF final THEN "served" ELSE client[c]
  <2>1. state \in {"watching", "served", "expired", "left"} /\ Return(c, state)
    BY <1>1, <1>3, <1>5 DEF Slotted, StreamTypeOK
  <2> HIDE DEF state
  <2> QED
    BY <1>1, <1>4, <2>1, ReturnTyped DEF ClientsTyped
<1>6. CASE ~(missed \/ final \/ next = "idle")
  <2>1. /\ handler' = [handler EXCEPT ![c] = next]
        /\ queue' = [queue EXCEPT ![c] = IF @ = <<>> THEN @ ELSE Tail(@)]
        /\ UNCHANGED <<subscribed, client, slots>>
    BY <1>3, <1>6
  <2>2. queue[c] \in Seq(Items) /\ queue \in [StreamClients -> Seq(Items)]
    BY <1>1 DEF Slotted, StreamTypeOK
  <2>3. (IF queue[c] = <<>> THEN queue[c] ELSE Tail(queue[c])) \in Seq(Items)
    BY <2>2
  <2>4. \A d \in UiClients : handler'[d] = handler[d]
    BY <1>1, <2>1 DEF Slotted, StreamTypeOK, StreamClients
  <2>5. SlotsAreCounted'
    BY <2>1, <2>4, SlotsStay
  <2> QED
    BY <1>1, <1>4, <2>1, <2>2, <2>3, <2>5 DEF ClientsTyped, Slotted, StreamTypeOK
<1> QED
  BY <1>5, <1>6

LEMMA FlushOrBreakTyped ==
    ASSUME Slotted, Streaming, NEW c \in ExternalClients, NEW next \in {"idle", "replayed", "streaming"},
           FlushOrBreak(c, next), UNCHANGED <<log, issued>>
    PROVE  /\ SlotsAreCounted' /\ ClientsTyped'
           /\ queue' \in [StreamClients -> Seq(Items)] /\ subscribed' \subseteq StreamClients
<1>1. CASE Expired(Watched[c], cursor[c])
  <2>1. c \in StreamClients /\ c \notin UiClients
    BY ClientsAssumption DEF StreamClients
  <2>2. Return(c, client[c]) /\ UNCHANGED <<cursor, delivered>>
    BY <1>1 DEF FlushOrBreak
  <2>3. client[c] \in {"watching", "served", "expired", "left"}
    BY <2>1 DEF Slotted, StreamTypeOK
  <2> QED
    BY <2>1, <2>2, <2>3, ReturnTyped DEF ClientsTyped, Slotted, StreamTypeOK
<1>2. CASE ~Expired(Watched[c], cursor[c])
  BY <1>2, FlushTyped DEF FlushOrBreak
<1> QED
  BY <1>1, <1>2

LEMMA SlottedStays == Slotted /\ Streaming /\ [StreamNext]_streamVars => Slotted'
<1> SUFFICES ASSUME Slotted, Streaming, [StreamNext]_streamVars PROVE Slotted'
  OBVIOUS
<1>0. /\ ended \subseteq StreamSessions /\ stage \in [StreamSessions -> Stages]
      /\ BrokerTyped /\ ClientsTyped /\ SlotsAreCounted
  BY TypesSplit DEF Slotted
<1>1. ASSUME BrokerTyped', QuietClients, ended' \subseteq StreamSessions,
             stage' \in [StreamSessions -> Stages]
      PROVE  Slotted'
  <2>1. ClientsTyped' /\ SlotsAreCounted'
    BY <1>0, <1>1, SlotsStay DEF QuietClients, ClientsTyped
  <2>2. StreamTypeOK'
    BY <1>1, <2>1 DEF StreamTypeOK, BrokerTyped, ClientsTyped
  <2> QED
    BY <2>1, <2>2 DEF Slotted
<1>2. ASSUME Quiet, ClientsTyped', SlotsAreCounted', queue' \in [StreamClients -> Seq(Items)],
             subscribed' \subseteq StreamClients
      PROVE  Slotted'
  BY <1>0, <1>2 DEF Slotted, StreamTypeOK, BrokerTyped, ClientsTyped, Quiet
<1>3. ASSUME NEW s \in StreamSessions, NEW from \in Stages, NEW to \in Stages, Step(s, from, to)
      PROVE  stage' \in [StreamSessions -> Stages]
  BY <1>0, <1>3 DEF Step
<1>4. ASSUME NEW s \in StreamSessions, Record(s) PROVE Slotted'
  <2>1. stage' \in [StreamSessions -> Stages]
    BY <1>3, <1>4 DEF Record, Stages
  <2> QED
    BY <1>0, <1>1, <1>4, <2>1 DEF Record, brokerVars, clientVars, QuietClients, BrokerTyped
<1>5. ASSUME NEW s \in StreamSessions, ShowOutcome(s) \/ Announce(s) PROVE Slotted'
  <2>1. stage' \in [StreamSessions -> Stages]
    BY <1>3, <1>5 DEF ShowOutcome, Announce, Stages
  <2> QED
    BY <1>0, <1>1, <1>5, <2>1, PublishTyped DEF ShowOutcome, Announce
<1>6. ASSUME NEW s \in StreamSessions, CloseStream(s) PROVE Slotted'
  <2>1. stage' \in [StreamSessions -> Stages]
    BY <1>3, <1>6 DEF CloseStream, Stages
  <2> QED
    BY <1>0, <1>1, <1>6, <2>1, CloseTyped DEF CloseStream
<1>7. ASSUME NEW s \in StreamSessions, LateEvent(s) PROVE Slotted'
  BY <1>0, <1>1, <1>7, PublishTyped DEF LateEvent
<1>8. ASSUME NEW s \in StreamSessions, NEW name \in {"snapshot", "event"}, Progress(s, name)
      PROVE  Slotted'
  BY <1>0, <1>1, <1>8, PublishTyped DEF Progress
<1>9. ASSUME NEW c \in StreamClients, Leave(c) PROVE Slotted'
  <2>1. SlotsAreCounted'
    BY <1>9, SlotsStay DEF Leave
  <2> QED
    BY <1>0, <1>2, <1>9, <2>1 DEF Leave, ClientsTyped, BrokerTyped
<1>10. ASSUME NEW c \in UiClients, UiOpen(c) PROVE Slotted'
  <2>1. c \in StreamClients /\ c \notin Attending
    BY <1>10 DEF UiOpen, StreamClients, Attending
  <2>2. handler' = [handler EXCEPT ![c] = "opened"] /\ slots' = slots - 1 /\ slots > 0
    BY <1>10 DEF UiOpen
  <2>3. Attending' = Attending \cup {c}
    BY <1>0, <2>1, <2>2 DEF Attending, ClientsTyped, StreamClients
  <2>4. IsFiniteSet(Attending \cup {c}) /\ Cardinality(Attending \cup {c}) = Cardinality(Attending) + 1
    BY <1>0, <2>1, FS_AddElement DEF SlotsAreCounted
  <2>5. slots + Cardinality(Attending) = MaxSubscribers
    BY <1>0 DEF SlotsAreCounted
  <2> HIDE DEF Attending
  <2>6. slots \in Nat /\ Cardinality(Attending) \in Nat /\ MaxSubscribers \in Nat
    BY SlottedFacts
  <2>7. slots' \in 0 .. MaxSubscribers /\ SlotsAreCounted'
    BY <2>2, <2>3, <2>4, <2>5, <2>6 DEF SlotsAreCounted
  <2>8. handler' \in [StreamClients -> {"idle", "opened", "looked", "replayed", "streaming"}]
    BY <1>0, <2>1, <2>2 DEF ClientsTyped
  <2> QED
    BY <1>0, <1>2, <1>10, <2>7, <2>8 DEF UiOpen, ClientsTyped, BrokerTyped
<1>11. ASSUME NEW c \in UiClients, UiFirst(c) PROVE Slotted'
  <2>1. c \in StreamClients /\ handler[c] = "opened" /\ Quiet /\ UNCHANGED <<cursor, delivered>>
    BY <1>11 DEF UiFirst, StreamClients
  <2>2. CASE Return(c, "served")
    BY <1>0, <1>2, <2>1, <2>2, ReturnTyped DEF ClientsTyped
  <2>3. CASE handler' = [handler EXCEPT ![c] = "looked"] /\ UNCHANGED <<subscribed, queue, client, slots>>
    <3>1. SlotsAreCounted'
      BY <1>0, <2>1, <2>3, SlotsStay DEF ClientsTyped, StreamClients
    <3> QED
      BY <1>0, <1>2, <2>1, <2>3, <3>1 DEF ClientsTyped, BrokerTyped
  <2> QED
    BY <1>11, <2>2, <2>3 DEF UiFirst
<1>12. ASSUME NEW c \in StreamClients, Subscribe(c) PROVE Slotted'
  <2> DEFINE first == IF Watched[c] \in latest THEN <<"snapshot">> ELSE <<>>
             stop == IF Watched[c] \in Closed THEN <<"stop">> ELSE <<>>
  <2>1. /\ handler[c] = "looked" /\ handler' = [handler EXCEPT ![c] = "streaming"]
        /\ queue' = [queue EXCEPT ![c] = first \o stop]
        /\ subscribed' = IF Watched[c] \in Closed THEN subscribed ELSE subscribed \cup {c}
        /\ Quiet /\ UNCHANGED <<client, cursor, delivered, slots>>
    BY <1>12 DEF Subscribe
  <2>2. first \in Seq(Items) /\ stop \in Seq(Items)
    <3>1. "snapshot" \in Items /\ "stop" \in Items
      BY DEF Items
    <3>2. <<"snapshot">> \in Seq(Items) /\ <<"stop">> \in Seq(Items) /\ <<>> \in Seq(Items)
      BY <3>1
    <3> QED
      BY <3>2
  <2> HIDE DEF first, stop
  <2>3. first \o stop \in Seq(Items)
    BY <2>2
  <2>4. SlotsAreCounted'
    BY <1>0, <2>1, SlotsStay DEF ClientsTyped, StreamClients
  <2> QED
    BY <1>0, <1>2, <2>1, <2>3, <2>4 DEF ClientsTyped, BrokerTyped
<1>13. ASSUME NEW c \in UiClients, UiTake(c) PROVE Slotted'
  <2>1. /\ c \in StreamClients /\ handler[c] = "streaming" /\ queue[c] # <<>>
        /\ Quiet /\ UNCHANGED <<cursor, delivered>>
    BY <1>13 DEF UiTake, StreamClients
  <2>2. CASE \E state \in {"watching", "served", "expired", "left"} : Return(c, state)
    BY <1>0, <1>2, <2>1, <2>2, ReturnTyped DEF ClientsTyped
  <2>3. CASE queue' = [queue EXCEPT ![c] = Tail(@)] /\ UNCHANGED <<subscribed, handler, client, slots>>
    <3>1. Tail(queue[c]) \in Seq(Items)
      BY <1>0, <2>1 DEF BrokerTyped
    <3>2. SlotsAreCounted'
      BY <2>3, SlotsStay
    <3> QED
      BY <1>0, <1>2, <2>1, <2>3, <3>1, <3>2 DEF ClientsTyped, BrokerTyped
  <2>4. client[c] \in {"watching", "served", "expired", "left"}
    BY <1>0, <2>1 DEF ClientsTyped
  <2> QED
    BY <1>13, <2>2, <2>3, <2>4 DEF UiTake, UiAfterStop
<1>14. ASSUME NEW c \in ExternalClients, ExternalReplay(c) PROVE Slotted'
  <2>1. c \in StreamClients /\ c \notin UiClients /\ Quiet
    BY <1>14, ClientsAssumption DEF ExternalReplay, StreamClients
  <2>2. CASE Expired(Watched[c], cursor[c])
    <3>1. /\ client' = [client EXCEPT ![c] = "expired"]
          /\ UNCHANGED <<subscribed, queue, handler, cursor, delivered, slots>>
      BY <1>14, <2>2 DEF ExternalReplay
    <3>2. SlotsAreCounted'
      BY <3>1, SlotsStay
    <3> QED
      BY <1>0, <1>2, <2>1, <3>1, <3>2 DEF ClientsTyped, BrokerTyped
  <2>3. CASE ~Expired(Watched[c], cursor[c])
    <3>1. Flush(c, "replayed") /\ UNCHANGED <<log, issued>>
      BY <1>14, <2>3 DEF ExternalReplay, Quiet
    <3> QED
      BY <1>2, <2>1, <2>3, <3>1, FlushTyped
  <2> QED
    BY <2>2, <2>3
<1>15. ASSUME NEW c \in ExternalClients, ExternalLook(c) PROVE Slotted'
  <2>1. c \in StreamClients /\ c \notin UiClients /\ Quiet /\ UNCHANGED <<log, issued>>
    BY <1>15, ClientsAssumption DEF ExternalLook, StreamClients, Quiet
  <2>2. CASE FlushOrBreak(c, "idle")
    BY <1>2, <2>1, <2>2, FlushOrBreakTyped
  <2>3. CASE /\ handler' = [handler EXCEPT ![c] = "looked"]
             /\ UNCHANGED <<subscribed, queue, client, cursor, delivered, slots>>
    <3>1. SlotsAreCounted'
      BY <1>0, <2>1, <2>3, SlotsStay DEF ClientsTyped, StreamClients
    <3> QED
      BY <1>0, <1>2, <2>1, <2>3, <3>1 DEF ClientsTyped, BrokerTyped
  <2> QED
    BY <1>15, <2>2, <2>3 DEF ExternalLook
<1>16. ASSUME NEW c \in ExternalClients, ExternalTake(c) PROVE Slotted'
  <2>1. Quiet /\ UNCHANGED <<log, issued>>
    BY <1>16 DEF ExternalTake, Quiet
  <2>2. PICK next \in {"idle", "replayed", "streaming"} : FlushOrBreak(c, next)
    BY <1>16 DEF ExternalTake
  <2> QED
    BY <1>2, <2>1, <2>2, FlushOrBreakTyped
<1>17. ASSUME NEW c \in ExternalClients, Heartbeat(c) PROVE Slotted'
  <2>1. c \in StreamClients /\ c \notin UiClients
    BY ClientsAssumption DEF StreamClients
  <2>2. Quiet /\ UNCHANGED <<cursor, delivered>> /\ Return(c, "left")
    BY <1>17 DEF Heartbeat
  <2> QED
    BY <1>0, <1>2, <2>1, <2>2, ReturnTyped DEF ClientsTyped
<1>18. CASE UNCHANGED streamVars
  BY <1>0, <1>1, <1>18 DEF streamVars, QuietClients, BrokerTyped
<1>19. CASE StreamNext
  <2>1. CASE \E s \in StreamSessions :
               \/ Worker(s) \/ LateEvent(s)
               \/ \E name \in {"snapshot", "event"} : Progress(s, name)
    BY <1>4, <1>5, <1>6, <1>7, <1>8, <2>1 DEF Worker
  <2>2. CASE \E c \in UiClients : UiOpen(c) \/ UiHandler(c)
    BY <1>10, <1>11, <1>12, <1>13, <2>2 DEF UiHandler, StreamClients
  <2>3. CASE \E c \in ExternalClients : ExternalReplay(c) \/ ExternalHandler(c)
    BY <1>12, <1>14, <1>15, <1>16, <1>17, <2>3 DEF ExternalHandler, StreamClients
  <2> QED
    BY <1>9, <1>19, <2>1, <2>2, <2>3 DEF StreamNext
<1> QED
  BY <1>18, <1>19

\* Every variable of the streams keeps its type; in particular no more
\* handlers of the UI run than there are slots, and every one gives its slot
\* back, however they end.
THEOREM StreamsTypeSafe == StreamSpec => []StreamTypeOK
<1>1. Slotted => StreamTypeOK
  BY DEF Slotted
<1> QED
  BY <1>1, SlottedStarts, SlottedStays, StreamingStarts, StreamingStays, PTL DEF StreamSpec

---------------------------------------------------------------------------
(* WorkbenchEvents: types.                                               *)

\* An answer is there only while the handler waits for it.
Answering == EventsTypeOK /\ (reply > 0 => job # "none")

LEMMA AfterType ==
    ASSUME history \in Seq(BusEvents), NEW id
    PROVE  After(id) \in Seq(BusEvents)
BY KeptEmbeds DEF After

LEMMA EventIsTyped ==
    ASSUME NEW n \in Nat, NEW k \in Topics \cup {"snapshot"}, NEW r \in Nat
    PROVE  [id |-> n, topic |-> k, revision |-> r] \in BusEvents
BY DEF BusEvents

LEMMA ChangedTyped ==
    ASSUME EventsTypeOK, NEW k \in Topics, Changed(k)
    PROVE  version' \in [Topics -> Nat] /\ unsaid' \in [Topics -> Nat]
<1>1. version \in [Topics -> Nat] /\ unsaid \in [Topics -> Nat]
  BY DEF EventsTypeOK
<1>2. version' = [version EXCEPT ![k] = @ + 1] /\ unsaid' = [unsaid EXCEPT ![k] = @ + 1]
  BY DEF Changed
<1>3. version[k] + 1 \in Nat /\ unsaid[k] + 1 \in Nat
  BY <1>1
<1> QED
  BY <1>1, <1>2, <1>3

LEMMA ReconcileTyped ==
    ASSUME EventsTypeOK, NEW r \in Nat, Reconcile(r)
    PROVE  /\ job' \in Topics \cup {"none", "snapshot"} /\ conflict' \in Nat
           /\ ignored' \in Nat
BY DEF EventsTypeOK, Reconcile, Mark, Topics

LEMMA AnsweringStarts == EventsInit => Answering
<1> SUFFICES ASSUME EventsInit PROVE Answering
  OBVIOUS
<1>1. <<>> \in Seq(BusEvents)
  OBVIOUS
<1>2. version \in [Topics -> Nat] /\ unsaid \in [Topics -> Nat] /\ view \in [Topics -> Nat]
  BY DEF EventsInit
<1>3. history \in Seq(BusEvents) /\ inbox \in Seq(BusEvents)
      /\ captured \in [base : Nat, events : Seq(BusEvents)]
  BY <1>1 DEF EventsInit
<1>4. /\ lastId = 0 /\ link = "down" /\ shown = 0 /\ lastSeen = 0
      /\ dirty = FALSE /\ conflict = 0 /\ job = "none" /\ reply = 0
      /\ asked = "none" /\ answer = 0 /\ overrun = {} /\ overtaken = FALSE
      /\ loading = FALSE /\ ignored = 0
  BY DEF EventsInit
<1>5. /\ overrun \subseteq Topics /\ overtaken \in BOOLEAN /\ dirty \in BOOLEAN
      /\ loading \in BOOLEAN
  BY <1>4
<1>6. job \in Topics \cup {"none", "snapshot"} /\ asked \in {"none", "save", "reload", "refused"}
  BY <1>4
<1> QED
  BY <1>2, <1>3, <1>4, <1>5, <1>6 DEF Answering, EventsTypeOK

LEMMA AnsweringStays == Answering /\ [EventsNext]_eventVars => Answering'
<1> SUFFICES ASSUME Answering, [EventsNext]_eventVars PROVE Answering'
  OBVIOUS
<1>0. EventsTypeOK /\ (reply > 0 => job # "none")
  BY DEF Answering
<1>1. ASSUME NEW k \in Topics, Change(k) PROVE Answering'
  BY <1>0, <1>1, ChangedTyped DEF Change, Answering, EventsTypeOK, linkVars, userVars
<1>2. ASSUME NEW k \in Topics, Say(k) PROVE Answering'
  <2> DEFINE event == [id |-> lastId + 1, topic |-> k, revision |-> version[k]]
             all == Append(history, event)
  <2>1. event \in BusEvents
    BY <1>0, EventIsTyped DEF EventsTypeOK
  <2>2. /\ unsaid[k] > 0
        /\ unsaid' = [unsaid EXCEPT ![k] = @ - 1]
        /\ lastId' = lastId + 1
        /\ history' = IF Len(all) > HistoryRoom THEN Tail(all) ELSE all
        /\ inbox' = IF link = "up" THEN Append(inbox, event) ELSE inbox
    BY <1>2 DEF Say
  <2> HIDE DEF event
  <2>3. all \in Seq(BusEvents) /\ all # <<>> /\ Append(inbox, event) \in Seq(BusEvents)
    <3>1. history \in Seq(BusEvents) /\ inbox \in Seq(BusEvents)
      BY <1>0 DEF EventsTypeOK
    <3> QED
      BY <2>1, <3>1
  <2>4. history' \in Seq(BusEvents) /\ inbox' \in Seq(BusEvents)
    <3> HIDE DEF all
    <3> QED
      BY <1>0, <2>2, <2>3 DEF EventsTypeOK
  <2>5. unsaid' \in [Topics -> Nat]
    <3>1. unsaid \in [Topics -> Nat] /\ unsaid[k] - 1 \in Nat
      BY <1>0, <2>2 DEF EventsTypeOK
    <3> QED
      BY <2>2, <3>1
  <2>6. lastId' \in Nat
    BY <1>0, <2>2 DEF EventsTypeOK
  <2>7. UNCHANGED <<version, link, captured, shown, lastSeen, view, dirty,
                    conflict, job, reply, userVars, overrun>>
    BY <1>2 DEF Say
  <2> QED
    BY <1>0, <2>4, <2>5, <2>6, <2>7 DEF Answering, EventsTypeOK, userVars
<1>3. ASSUME Capture PROVE Answering'
  <2>1. captured' \in [base : Nat, events : Seq(BusEvents)]
    BY <1>0, <1>3 DEF Capture, EventsTypeOK
  <2> QED
    BY <1>0, <1>3, <2>1 DEF Capture, Answering, EventsTypeOK, serverVars, userVars
<1>4. ASSUME TakeSnapshot PROVE Answering'
  <2>1. shown' \in Nat
    BY <1>0, <1>4 DEF TakeSnapshot, EventsTypeOK, Topics
  <2> QED
    BY <1>0, <1>4, <2>1 DEF TakeSnapshot, Answering, EventsTypeOK, serverVars, userVars
<1>5. ASSUME Register PROVE Answering'
  <2> DEFINE told == [id |-> captured.base, topic |-> "snapshot", revision |-> shown]
  <2>1. captured.base \in Nat /\ captured.events \in Seq(BusEvents) /\ shown \in Nat
    BY <1>0 DEF EventsTypeOK
  <2>2. told \in BusEvents
    BY <2>1, EventIsTyped
  <2>3. Newer \in Seq(BusEvents)
    BY <1>0, AfterType DEF Newer, EventsTypeOK
  <2>4. inbox' = captured.events \o <<told>> \o Newer
    BY <1>5 DEF Register
  <2> HIDE DEF told
  <2>5. inbox' \in Seq(BusEvents)
    BY <2>1, <2>2, <2>3, <2>4
  <2>6. captured' \in [base : Nat, events : Seq(BusEvents)] /\ shown' \in Nat /\ link' = "up"
    BY <1>5 DEF Register
  <2>7. overrun' \subseteq Topics
    <3>1. overrun' \in {Topics, overrun \cup {"resources"}, overrun}
      BY <1>5 DEF Register
    <3> QED
      BY <1>0, <3>1 DEF EventsTypeOK, Topics
  <2>8. UNCHANGED <<serverVars, lastSeen, view, dirty, conflict, job, reply, userVars>>
    BY <1>5 DEF Register
  <2> QED
    BY <1>0, <2>5, <2>6, <2>7, <2>8 DEF Answering, EventsTypeOK, serverVars, userVars
<1>6. ASSUME Resume PROVE Answering'
  <2>1. After(lastSeen) \in Seq(BusEvents)
    BY <1>0, AfterType DEF EventsTypeOK
  <2>2. /\ link' \in {"down", "up"} /\ inbox' \in {inbox, After(lastSeen)}
        /\ lastSeen' \in {0, lastSeen} /\ job' \in {job, "snapshot"}
        /\ overrun' \in {overrun, overrun \cup {"resources"}} /\ job = "none"
    BY <1>6 DEF Resume
  <2>3. inbox' \in Seq(BusEvents) /\ lastSeen' \in Nat /\ overrun' \subseteq Topics
    BY <1>0, <2>1, <2>2 DEF EventsTypeOK, Topics
  <2>4. UNCHANGED <<serverVars, captured, shown, view, dirty, conflict, reply, userVars>>
    BY <1>6 DEF Resume
  <2> QED
    BY <1>0, <2>2, <2>3, <2>4 DEF Answering, EventsTypeOK, serverVars, userVars
<1>7. ASSUME Break \/ End PROVE Answering'
  <2>1. /\ link' = "down" /\ inbox' = <<>>
        /\ job' = job \/ (job = "none" /\ job' = "snapshot")
        /\ overrun' \in {overrun, overrun \cup {"graph"}}
        /\ UNCHANGED <<serverVars, captured, shown, lastSeen, view, dirty, conflict, reply, userVars>>
    BY <1>7 DEF Break, End
  <2>2. inbox' \in Seq(BusEvents) /\ overrun' \subseteq Topics
    BY <1>0, <2>1 DEF EventsTypeOK, Topics
  <2> QED
    BY <1>0, <2>1, <2>2 DEF Answering, EventsTypeOK, serverVars, userVars
<1>8. ASSUME Receive PROVE Answering'
  <2> DEFINE e == Head(inbox)
  <2>1. link = "up" /\ job = "none" /\ inbox # <<>> /\ inbox' = Tail(inbox)
    BY <1>8 DEF Receive
  <2>2. inbox' \in Seq(BusEvents) /\ e \in BusEvents
    BY <1>0, <2>1 DEF EventsTypeOK
  <2>3. e.id \in Nat /\ e.topic \in {"graph", "resources", "snapshot"} /\ e.revision \in Nat
    BY <2>2 DEF BusEvents, Topics
  <2>4. /\ lastSeen' = IF e.id > 0 THEN e.id ELSE lastSeen
        /\ CASE e.topic = "snapshot" -> Reconcile(e.revision)
             [] e.topic = "graph" ->
                  /\ IF dirty THEN Mark(e.revision) /\ UNCHANGED job
                              ELSE job' = "graph" /\ UNCHANGED conflict
                  /\ UNCHANGED ignored
             [] e.topic = "resources" -> job' = "resources" /\ UNCHANGED <<conflict, ignored>>
        /\ loading' = (loading \/ job' = "graph")
        /\ UNCHANGED <<serverVars, link, captured, shown, view, dirty, reply, asked, answer,
                       overrun, overtaken>>
    BY <1>8 DEF Receive
  <2> HIDE DEF e
  <2>5. job' \in Topics \cup {"none", "snapshot"} /\ conflict' \in Nat /\ ignored' \in Nat
    <3>1. CASE e.topic = "snapshot"
      BY <1>0, <2>3, <2>4, <3>1, ReconcileTyped
    <3>2. CASE e.topic = "graph"
      BY <1>0, <2>3, <2>4, <3>2 DEF EventsTypeOK, Mark, Topics
    <3>3. CASE e.topic = "resources"
      BY <1>0, <2>3, <2>4, <3>3 DEF EventsTypeOK, Topics
    <3> QED
      BY <2>3, <3>1, <3>2, <3>3
  <2>6. reply' = reply /\ ~(reply > 0)
    BY <1>0, <2>1, <2>4
  <2>7. lastSeen' \in Nat /\ loading' \in BOOLEAN
    BY <1>0, <2>3, <2>4 DEF EventsTypeOK
  <2> QED
    BY <1>0, <2>2, <2>4, <2>5, <2>6, <2>7 DEF Answering, EventsTypeOK, serverVars, userVars
<1>9. ASSUME Fetch PROVE Answering'
  <2>1. version[IF job = "snapshot" THEN "graph" ELSE job] \in Nat /\ job # "none"
    BY <1>0, <1>9 DEF Fetch, EventsTypeOK, Topics
  <2> QED
    BY <1>0, <1>9, <2>1 DEF Fetch, Answering, EventsTypeOK, serverVars, linkVars, userVars
<1>10. ASSUME Apply PROVE Answering'
  <2>1. /\ reply > 0 /\ reply' = 0
        /\ UNCHANGED <<serverVars, linkVars, lastSeen, asked, answer, overrun, overtaken>>
    BY <1>10 DEF Apply
  <2>2. job \in {"graph", "resources", "snapshot"} /\ reply \in Nat
    BY <1>0, <2>1 DEF EventsTypeOK, Topics
  <2>3. /\ job' \in Topics \cup {"none", "snapshot"} /\ conflict' \in Nat
        /\ view' \in [Topics -> Nat] /\ dirty' \in BOOLEAN
        /\ loading' \in BOOLEAN /\ ignored' \in Nat
    <3>1. CASE job = "snapshot"
      <4>1. /\ Reconcile(reply) /\ UNCHANGED <<view, dirty>>
            /\ loading' = (loading \/ job' = "graph")
        BY <1>10, <3>1 DEF Apply
      <4> QED
        BY <1>0, <2>2, <4>1, ReconcileTyped DEF EventsTypeOK
    <3>2. CASE job = "graph"
      <4>1. /\ view' = [view EXCEPT !["graph"] = reply]
            /\ dirty' = FALSE /\ conflict' = 0 /\ job' = "none"
            /\ loading' = FALSE /\ UNCHANGED ignored
        BY <1>10, <3>2 DEF Apply
      <4> QED
        BY <1>0, <2>2, <4>1 DEF EventsTypeOK
    <3>3. CASE job = "resources"
      <4>1. /\ view' = [view EXCEPT !["resources"] = reply]
            /\ job' = "none" /\ UNCHANGED <<dirty, conflict, loading, ignored>>
        BY <1>10, <3>3 DEF Apply
      <4> QED
        BY <1>0, <2>2, <4>1 DEF EventsTypeOK
    <3> QED
      BY <2>2, <3>1, <3>2, <3>3
  <2>4. reply' = 0 /\ UNCHANGED <<version, unsaid, history, lastId, link, captured, shown, inbox,
                                 lastSeen, asked, answer, overtaken, overrun>>
    BY <2>1 DEF serverVars, linkVars
  <2>5. EventsTypeOK'
    BY <1>0, <2>3, <2>4 DEF EventsTypeOK
  <2> QED
    BY <2>4, <2>5 DEF Answering
<1>11. ASSUME User PROVE Answering'
  BY <1>0, <1>11 DEF User, Edit, Ask, Answering, EventsTypeOK, serverVars, linkVars, userVars
<1>12. ASSUME ServeSave PROVE Answering'
  <2>1. version["graph"] \in Nat
    BY <1>0 DEF EventsTypeOK, Topics
  <2>2. version' \in [Topics -> Nat] /\ unsaid' \in [Topics -> Nat]
    BY <1>0, <1>12, ChangedTyped DEF ServeSave, EventsTypeOK, Topics
  <2>3. /\ asked' \in {asked, "refused"} /\ answer' \in {version["graph"], version["graph"] + 1}
        /\ UNCHANGED <<history, lastId, linkVars, lastSeen, view, dirty, conflict,
                       job, reply, loading, overrun, ignored, overtaken>>
    BY <1>12 DEF ServeSave
  <2>4. answer' \in Nat
    BY <2>1, <2>3
  <2> QED
    BY <1>0, <2>2, <2>3, <2>4 DEF Answering, EventsTypeOK, linkVars
<1>13. ASSUME ServeReload PROVE Answering'
  <2>1. version["graph"] \in Nat
    BY <1>0 DEF EventsTypeOK, Topics
  <2> QED
    BY <1>0, <1>13, <2>1 DEF ServeReload, Answering, EventsTypeOK, serverVars, linkVars
<1>14. ASSUME AnswerArrives PROVE Answering'
  <2>1. /\ view' \in [Topics -> Nat] /\ dirty' \in BOOLEAN /\ conflict' \in Nat
        /\ overtaken' \in BOOLEAN /\ ignored' \in Nat /\ loading' \in BOOLEAN
    <3>1. /\ answer \in Nat /\ conflict \in Nat /\ view \in [Topics -> Nat] /\ ignored \in Nat
          /\ dirty \in BOOLEAN /\ overtaken \in BOOLEAN /\ loading' \in BOOLEAN
      BY <1>0, <1>14 DEF EventsTypeOK, AnswerArrives
    <3>2. CASE asked = "refused"
      <4>1. Mark(answer) /\ UNCHANGED <<view, dirty, ignored, overtaken>>
        BY <1>14, <3>2 DEF AnswerArrives
      <4> QED
        BY <3>1, <4>1 DEF Mark
    <3>3. CASE asked # "refused"
      <4>1. /\ view' = [view EXCEPT !["graph"] = answer]
            /\ dirty' = FALSE /\ conflict' = 0 /\ ignored' = 0
            /\ overtaken' \in BOOLEAN
        BY <1>14, <3>3 DEF AnswerArrives
      <4> QED
        BY <3>1, <4>1
    <3> QED
      BY <3>2, <3>3
  <2> QED
    BY <1>0, <1>14, <2>1 DEF AnswerArrives, Answering, EventsTypeOK, serverVars, linkVars
<1>15. CASE UNCHANGED eventVars
  BY <1>0, <1>15 DEF eventVars, Answering, EventsTypeOK
<1> QED
  BY <1>1, <1>2, <1>3, <1>4, <1>5, <1>6, <1>7, <1>8, <1>9, <1>10, <1>11, <1>12, <1>13, <1>14, <1>15
     DEF EventsNext, Server, Connection, Handler

\* Every variable of the event bus and of the UI that follows it keeps its
\* type, and the UI never applies an answer that nobody awaits.
THEOREM EventsTypeSafe == EventsSpec => []EventsTypeOK
<1>1. Answering => EventsTypeOK
  BY DEF Answering
<1> QED
  BY <1>1, AnsweringStarts, AnsweringStays, PTL DEF EventsSpec

---------------------------------------------------------------------------
(* BrowserTabs: nodes act on the tab that was chosen.                    *)

\* The chosen tab is the active one, the remembered index is its place, and
\* every tab in front of it is open.
ChosenIsInPlace ==
    /\ page = chosen
    /\ index + 1 \in 1 .. Len(pages) /\ pages[index + 1] = chosen
    /\ \A i \in 1 .. index + 1 : pages[i] \in alive

\* Before the launch there is nothing.
NotLaunched ==
    /\ alive = {} /\ pages = <<>> /\ popups = <<>> /\ chosen = NoTab
    /\ stack = <<>> /\ inFrame = FALSE /\ opening = "no"

Aimed ==
    /\ TabsTypeOK
    /\ page = NoTab => NotLaunched
    /\ inFrame => stack # <<>>
    /\ \A i \in 1 .. Len(stack) : stack[i].tab = page
    /\ page # NoTab /\ ~lost => ChosenIsInPlace

\* The tabs that are still open.
LEMMA OpenOnes ==
    ASSUME NEW A
    PROVE  pages \in Seq(Tabs) =>
              /\ Kept(pages, A) \in Seq(Tabs)
              /\ \A i \in 1 .. Len(Kept(pages, A)) : Kept(pages, A)[i] \in A
BY KeptElements

LEMMA RegisteredTabs ==
    ASSUME NEW seq \in Seq(Tabs), NEW t \in Tabs
    PROVE  LET offered == RegisteredTab(seq, t)
           IN  /\ offered \in Seq(Tabs) /\ Len(offered) >= Len(seq)
               /\ \A i \in 1 .. Len(seq) : offered[i] = seq[i]
               /\ \E i \in DOMAIN offered : offered[i] = t
               /\ \A i \in 1 .. Len(offered) :
                     offered[i] = t \/ \E j \in 1 .. Len(seq) : offered[i] = seq[j]
<1>1. CASE t \in ToSet(seq)
  BY <1>1 DEF RegisteredTab, ToSet
<1>2. CASE t \notin ToSet(seq)
  <2> DEFINE n == Append(seq, t)
  <2>1. /\ n \in Seq(Tabs) /\ Len(n) = Len(seq) + 1 /\ n[Len(seq) + 1] = t /\ Len(seq) \in Nat
        /\ \A i \in 1 .. Len(seq) : n[i] = seq[i]
    OBVIOUS
  <2>2. RegisteredTab(seq, t) = n
    BY <1>2 DEF RegisteredTab
  <2> HIDE DEF n
  <2>3. Len(seq) + 1 \in DOMAIN n
    BY <2>1
  <2>4. ASSUME NEW i \in 1 .. Len(n)
        PROVE  n[i] = t \/ \E j \in 1 .. Len(seq) : n[i] = seq[j]
    BY <2>1
  <2> QED
    BY <2>1, <2>2, <2>3, <2>4
<1> QED
  BY <1>1, <1>2

\* _set_active_browser_page: the tab is in its place.
LEMMA ActivateAims ==
    ASSUME NEW seq \in Seq(Tabs), NEW t \in Tabs, Activate(seq, t),
           NEW A, \A i \in 1 .. Len(seq) : seq[i] \in A
    PROVE  /\ page' = t /\ pages' \in Seq(Tabs) /\ index' \in Nat
           /\ index' + 1 \in 1 .. Len(pages') /\ pages'[index' + 1] = t
           /\ t \in A => \A i \in 1 .. Len(pages') : pages'[i] \in A
           /\ stack' = <<>> /\ inFrame' = FALSE
<1> DEFINE offered == RegisteredTab(seq, t)
           at == CHOOSE i \in DOMAIN offered : offered[i] = t
<1>1. page' = t /\ pages' = offered /\ index' = at - 1 /\ stack' = <<>> /\ inFrame' = FALSE
  BY DEF Activate, ResetFrames
<1>2. /\ offered \in Seq(Tabs)
      /\ \E i \in DOMAIN offered : offered[i] = t
      /\ \A i \in 1 .. Len(offered) :
            offered[i] = t \/ \E j \in 1 .. Len(seq) : offered[i] = seq[j]
  BY RegisteredTabs
<1>3. at \in DOMAIN offered /\ offered[at] = t
  BY <1>2
<1> HIDE DEF at, offered
<1>4. at \in 1 .. Len(offered) /\ Len(offered) \in Nat
  BY <1>2, <1>3
<1> QED
  BY <1>1, <1>2, <1>3, <1>4

\* A tab that is reported goes to the end of the list.
LEMMA ReportedLast ==
    ASSUME Aimed, NEW t \in Tabs, Reported(t)
    PROVE  /\ pages' \in Seq(Tabs) /\ Len(pages') >= Len(pages)
           /\ \A i \in 1 .. Len(pages) : pages'[i] = pages[i]
           /\ popups' \in Seq(Tabs) /\ Len(popups') <= RecordLimit
           /\ suppress' \in 0 .. MaxAnnounced
<1>1. pages \in Seq(Tabs) /\ popups \in Seq(Tabs) /\ Len(popups) <= RecordLimit
      /\ suppress \in 0 .. MaxAnnounced
  BY DEF Aimed, TabsTypeOK
<1>2. pages' = RegisteredTab(pages, t)
  BY DEF Reported
<1>3. suppress' \in 0 .. MaxAnnounced
  BY <1>1, TabsAssumption DEF Reported
<1>4. popups' \in Seq(Tabs) /\ Len(popups') <= RecordLimit
  <2> DEFINE all == Append(popups, t)
  <2>1. all \in Seq(Tabs) /\ Len(all) = Len(popups) + 1 /\ Len(popups) \in Nat
    BY <1>1
  <2>2. all # <<>> => Tail(all) \in Seq(Tabs) /\ Len(Tail(all)) = Len(all) - 1
    BY <2>1
  <2>3. RecordLimit \in Nat \ {0}
    BY TabsAssumption
  <2>4. Recorded(popups, t) = IF Len(all) > RecordLimit THEN Tail(all) ELSE all
    BY DEF Recorded
  <2>5. popups' = popups \/ popups' = Recorded(popups, t)
    BY DEF Reported
  <2>6. all # <<>>
    BY <2>1
  <2>7. Recorded(popups, t) \in Seq(Tabs) /\ Len(Recorded(popups, t)) <= RecordLimit
    <3>1. CASE Len(all) > RecordLimit
      <4>1. Recorded(popups, t) = Tail(all)
        BY <2>4, <3>1
      <4>2. Tail(all) \in Seq(Tabs) /\ Len(Tail(all)) = Len(popups)
        BY <2>1, <2>2, <2>6
      <4> QED
        BY <1>1, <4>1, <4>2
    <3>2. CASE ~(Len(all) > RecordLimit)
      <4>1. Recorded(popups, t) = all
        BY <2>4, <3>2
      <4> HIDE DEF all
      <4> QED
        BY <2>1, <2>3, <3>2, <4>1
    <3> QED
      BY <3>1, <3>2
  <2> QED
    BY <1>1, <2>5, <2>7
<1> QED
  BY <1>1, <1>2, <1>3, <1>4, RegisteredTabs

\* What is appended behind it leaves the chosen tab in its place.
LEMMA ReportKeepsAim ==
    ASSUME Aimed, NEW t \in Tabs, Reported(t), page # NoTab, UNCHANGED <<Shown, chosen, lost>>,
           alive \subseteq alive', alive' \in SUBSET Tabs, opened' \in 0 .. MaxTabs,
           opening' \in {"no", "asks", "has"}, own' \in Tabs \cup {NoTab}
    PROVE  Aimed'
<1>1. /\ pages' \in Seq(Tabs) /\ Len(pages') >= Len(pages)
      /\ \A i \in 1 .. Len(pages) : pages'[i] = pages[i]
      /\ popups' \in Seq(Tabs) /\ Len(popups') <= RecordLimit
      /\ suppress' \in 0 .. MaxAnnounced
  BY ReportedLast
<1>2. TabsTypeOK'
  BY <1>1 DEF Aimed, TabsTypeOK, Shown
<1>3. ASSUME ~lost PROVE ChosenIsInPlace'
  <2>1. /\ page = chosen /\ index + 1 \in 1 .. Len(pages) /\ pages[index + 1] = chosen
        /\ \A i \in 1 .. index + 1 : pages[i] \in alive
    BY <1>3 DEF Aimed, ChosenIsInPlace
  <2>2. pages \in Seq(Tabs) /\ index \in Nat /\ Len(pages) \in Nat /\ Len(pages') \in Nat
    BY <1>1 DEF Aimed, TabsTypeOK
  <2>3. index + 1 \in 1 .. Len(pages') /\ pages'[index + 1] = chosen
    BY <1>1, <2>1, <2>2
  <2>4. \A i \in 1 .. index + 1 : pages'[i] \in alive'
    BY <1>1, <2>1, <2>2, SMTT(30)
  <2> QED
    BY <2>1, <2>3, <2>4 DEF ChosenIsInPlace, Shown
<1> QED
  BY <1>2, <1>3 DEF Aimed, Shown

\* A frame stack that was reset.
LEMMA NoFrames == <<>> \in Seq(FrameRecord) /\ Len(<<>>) = 0 /\ 0 <= MaxFrames
<1>1. MaxFrames \in Nat
  BY TabsAssumption
<1> QED
  BY <1>1

LEMMA FrontOfList ==
    ASSUME NEW p, NEW n \in Nat, NEW A, Len(p) \in Nat, n + 1 <= Len(p),
           \A i \in 1 .. Len(p) : p[i] \in A
    PROVE  \A i \in 1 .. n + 1 : p[i] \in A
OBVIOUS

\* A tab that was made active, from a list of open tabs, is in its place.
LEMMA ActivateKeepsAim ==
    ASSUME Aimed, NEW seq \in Seq(Tabs), NEW t \in Tabs, Activate(seq, t),
           \A i \in 1 .. Len(seq) : seq[i] \in alive',
           ~lost' => t = chosen' /\ t \in alive', lost' \in BOOLEAN,
           UNCHANGED <<popups, suppress, opened>>, alive' \in SUBSET Tabs,
           opening' \in {"no", "asks", "has"}, own' \in Tabs \cup {NoTab},
           chosen' \in Tabs \cup {NoTab}
    PROVE  Aimed'
<1>1. /\ page' = t /\ pages' \in Seq(Tabs) /\ index' \in Nat
      /\ index' + 1 \in 1 .. Len(pages') /\ pages'[index' + 1] = t
      /\ t \in alive' => \A i \in 1 .. Len(pages') : pages'[i] \in alive'
      /\ stack' = <<>> /\ inFrame' = FALSE
  BY ActivateAims
<1>2. TabsTypeOK'
  <2>1. stack' \in Seq(FrameRecord) /\ Len(stack') <= MaxFrames
    BY <1>1, NoFrames
  <2> QED
    BY <1>1, <2>1 DEF Aimed, TabsTypeOK
<1>3. page' # NoTab
  BY <1>1, TabsAssumption DEF Tabs
<1>4. ASSUME ~lost' PROVE ChosenIsInPlace'
  <2>1. t = chosen' /\ \A i \in 1 .. Len(pages') : pages'[i] \in alive'
    BY <1>1, <1>4
  <2>2. Len(pages') \in Nat /\ index' \in Nat /\ index' + 1 <= Len(pages')
    <3>1. pages' \in Seq(Tabs) /\ index' \in Nat /\ index' + 1 \in 1 .. Len(pages')
      BY <1>1
    <3> QED
      BY <3>1
  <2>3. \A i \in 1 .. index' + 1 : pages'[i] \in alive'
    BY <2>1, <2>2, FrontOfList
  <2> QED
    BY <1>1, <2>1, <2>3 DEF ChosenIsInPlace
<1> QED
  BY <1>1, <1>2, <1>3, <1>4 DEF Aimed

\* Dropping the tabs that are not in A, when none of them is in front of the
\* chosen one, leaves it where it is.
LEMMA OpenOnesKeepPlace ==
    ASSUME Aimed, ChosenIsInPlace, NEW A, \A i \in 1 .. index + 1 : pages[i] \in A
    PROVE  LET left == Kept(pages, A)
           IN  /\ index + 1 \in 1 .. Len(left) /\ left[index + 1] = chosen
               /\ \A i \in 1 .. index + 1 : left[i] = pages[i]
<1>1. pages \in Seq(Tabs) /\ index \in Nat /\ Len(pages) \in Nat
  BY DEF Aimed, TabsTypeOK
<1>2. index + 1 \in Nat /\ index + 1 <= Len(pages) /\ index + 1 \in 1 .. index + 1
      /\ pages[index + 1] = chosen
  BY <1>1 DEF ChosenIsInPlace
<1>3. index + 1 <= Len(Kept(pages, A)) /\ \A i \in 1 .. index + 1 : Kept(pages, A)[i] = pages[i]
  BY <1>1, <1>2, KeptStart
<1>4. Len(Kept(pages, A)) \in Nat
  BY <1>1, KeptElements
<1> QED
  BY <1>1, <1>2, <1>3, <1>4

LEMMA AimedStarts == TabsInit => Aimed
<1> SUFFICES ASSUME TabsInit PROVE Aimed
  OBVIOUS
<1>1. /\ page = NoTab /\ pages = <<>> /\ index = 0 /\ popups = <<>> /\ suppress = 0
      /\ stack = <<>> /\ inFrame = FALSE /\ opening = "no" /\ own = NoTab
      /\ opened = 0 /\ alive = {} /\ chosen = NoTab /\ lost = FALSE
  BY DEF TabsInit
<1>2. pages \in Seq(Tabs) /\ popups \in Seq(Tabs) /\ Len(popups) = 0
  BY <1>1
<1>3. stack \in Seq(FrameRecord) /\ Len(stack) <= MaxFrames
  BY <1>1, NoFrames
<1>4. suppress \in 0 .. MaxAnnounced /\ opened \in 0 .. MaxTabs /\ index \in Nat
      /\ Len(popups) <= RecordLimit
  BY <1>1, <1>2, TabsAssumption
<1>5. TabsTypeOK
  BY <1>1, <1>2, <1>3, <1>4 DEF TabsTypeOK
<1> QED
  BY <1>1, <1>5 DEF Aimed, NotLaunched

LEMMA CloseTabKeepsAim ==
    ASSUME Aimed, NEW t \in Tabs, CloseTab(t)
    PROVE  Aimed'
<1> DEFINE left == Kept(pages, alive')
           x == left[IF index < Len(left) THEN index + 1 ELSE Len(left)]
<1>1. /\ TabsTypeOK /\ page # NoTab /\ opening = "no"
      /\ alive' = alive \ {t} /\ lost' = (lost \/ NotBehindChosen(t))
      /\ UNCHANGED <<popups, suppress, opening, own, opened, chosen>>
      /\ IF left = <<>> THEN pages' = left /\ UNCHANGED Shown ELSE Activate(left, x)
  BY DEF CloseTab, Idle, Aimed
<1>2. /\ pages \in Seq(Tabs) /\ index \in Nat /\ Len(pages) \in Nat
      /\ left \in Seq(Tabs) /\ Len(left) \in Nat
      /\ \A i \in 1 .. Len(left) : left[i] \in alive'
  BY <1>1, KeptElements, OpenOnes DEF TabsTypeOK
<1>3. ASSUME ~lost'
      PROVE  index + 1 \in 1 .. Len(left) /\ left[index + 1] = chosen
  <2>1. ~lost /\ ~NotBehindChosen(t) /\ ChosenIsInPlace
    BY <1>1, <1>3 DEF Aimed
  <2>2. ASSUME NEW i \in 1 .. index + 1 PROVE pages[i] \in alive'
    <3>1. index + 1 \in DOMAIN pages /\ i \in DOMAIN pages /\ i <= index + 1
          /\ pages[index + 1] = chosen /\ pages[i] \in alive
      BY <1>2, <2>1 DEF ChosenIsInPlace
    <3>2. pages[i] # t
      BY <2>1, <3>1 DEF NotBehindChosen
    <3> QED
      BY <1>1, <3>1, <3>2
  <2> QED
    BY <2>1, <2>2, OpenOnesKeepPlace
<1>4. lost' \in BOOLEAN
  BY <1>1 DEF TabsTypeOK, NotBehindChosen
<1> HIDE DEF left, x
<1>5. CASE left = <<>>
  <2>1. lost'
    BY <1>2, <1>3, <1>5
  <2>2. TabsTypeOK'
    BY <1>1, <1>2, <1>4, <1>5 DEF TabsTypeOK, Shown
  <2> QED
    BY <1>1, <1>5, <2>1, <2>2 DEF Aimed, Shown
<1>6. CASE left # <<>>
  <2>1. Activate(left, x)
    BY <1>1, <1>6
  <2>2. x \in Tabs
    <3>1. Len(left) \in 1 .. Len(left)
      BY <1>2, <1>6
    <3>2. (IF index < Len(left) THEN index + 1 ELSE Len(left)) \in 1 .. Len(left)
      BY <1>2, <3>1
    <3> QED
      BY <1>2, <3>2 DEF x
  <2>3. ~lost' => x = chosen' /\ x \in alive'
    <3> SUFFICES ASSUME ~lost' PROVE x = chosen /\ x \in alive'
      BY <1>1
    <3>1. index + 1 \in 1 .. Len(left) /\ left[index + 1] = chosen
      BY <1>3
    <3>2. x = left[index + 1]
      BY <1>2, <3>1 DEF x
    <3> QED
      BY <1>2, <3>1, <3>2
  <2>4. alive' \in SUBSET Tabs /\ chosen' \in Tabs \cup {NoTab}
    BY <1>1 DEF TabsTypeOK
  <2> QED
    BY <1>1, <1>2, <1>4, <2>1, <2>2, <2>3, <2>4, ActivateKeepsAim DEF TabsTypeOK
<1> QED
  BY <1>5, <1>6

LEMMA AimedStays == Aimed /\ [TabsNext]_tabVars => Aimed'
<1> SUFFICES ASSUME Aimed, [TabsNext]_tabVars PROVE Aimed'
  OBVIOUS
<1> USE DEF Shown
<1>0. /\ TabsTypeOK /\ pages \in Seq(Tabs) /\ index \in Nat /\ Len(pages) \in Nat
      /\ OpenPages \in Seq(Tabs) /\ Len(OpenPages) \in Nat
      /\ \A i \in 1 .. Len(OpenPages) : OpenPages[i] \in alive
  BY KeptElements, OpenOnes DEF Aimed, TabsTypeOK, OpenPages
<1>1. ASSUME LaunchBrowser PROVE Aimed'
  <2>1. 1 \in Tabs /\ opened' \in 0 .. MaxTabs
    BY <1>1, TabsAssumption DEF Tabs, LaunchBrowser
  <2>2. /\ alive' = {1} /\ page' = 1 /\ pages' = <<1>> /\ index' = 0 /\ chosen' = 1
        /\ UNCHANGED <<popups, suppress, stack, inFrame, opening, own, lost>>
        /\ stack = <<>> /\ inFrame = FALSE
    BY <1>1 DEF LaunchBrowser, Aimed, NotLaunched
  <2>3. TabsTypeOK'
    BY <1>0, <2>1, <2>2 DEF TabsTypeOK
  <2>4. ChosenIsInPlace'
    BY <2>2 DEF ChosenIsInPlace
  <2>5. page' # NoTab
    BY <2>2, TabsAssumption
  <2> QED
    BY <2>2, <2>3, <2>4, <2>5 DEF Aimed
<1>2. ASSUME PopupOpens PROVE Aimed'
  <2>1. opened + 1 \in Tabs /\ opened' = opened + 1 /\ alive' = alive \cup {opened'}
        /\ opened' \in 0 .. MaxTabs
    BY <1>0, <1>2, TabsAssumption DEF PopupOpens, TabsTypeOK, Tabs
  <2> QED
    BY <1>0, <1>2, <2>1, ReportKeepsAim DEF PopupOpens, TabsTypeOK
<1>3. ASSUME NEW t \in Tabs, TabCloses(t) PROVE Aimed'
  <2>1. /\ t \in alive /\ alive' = alive \ {t} /\ lost' = (lost \/ NotBehindChosen(t))
        /\ UNCHANGED <<page, index, stack, inFrame, pages, popups, suppress, opening, own,
                       opened, chosen>>
    BY <1>3 DEF TabCloses
  <2>2. TabsTypeOK'
    BY <1>0, <2>1 DEF TabsTypeOK, NotBehindChosen
  <2>3. page # NoTab
    BY <2>1 DEF Aimed, NotLaunched
  <2>4. ASSUME ~lost' PROVE ChosenIsInPlace'
    <3>1. ChosenIsInPlace /\ ~NotBehindChosen(t)
      BY <2>1, <2>3, <2>4 DEF Aimed
    <3>2. ASSUME NEW i \in 1 .. index + 1 PROVE pages[i] \in alive'
      <4>1. index + 1 \in DOMAIN pages /\ i \in DOMAIN pages /\ i <= index + 1
            /\ pages[index + 1] = chosen /\ pages[i] \in alive
        BY <1>0, <3>1 DEF ChosenIsInPlace
      <4>2. pages[i] # t
        BY <3>1, <4>1 DEF NotBehindChosen
      <4> QED
        BY <2>1, <4>1, <4>2
    <3> QED
      BY <2>1, <3>1, <3>2 DEF ChosenIsInPlace
  <2> QED
    BY <2>1, <2>2, <2>3, <2>4 DEF Aimed
<1>4. ASSUME NEW t \in Tabs, SwitchTab(t) PROVE Aimed'
  <2>1. t \in alive
    BY <1>0, <1>4 DEF SwitchTab, ToSet
  <2> QED
    BY <1>0, <1>4, <2>1, ActivateKeepsAim DEF SwitchTab, Chooses, TabsTypeOK
<1>5. ASSUME NEW t \in Tabs, CloseTab(t) PROVE Aimed'
  BY <1>5, CloseTabKeepsAim
<1>6. ASSUME NEW i \in DOMAIN stack, FrameDetaches(i) PROVE Aimed'
  <2>1. stack \in Seq(FrameRecord) /\ stack[i] \in FrameRecord /\ Len(stack) \in Nat
    BY <1>0 DEF TabsTypeOK
  <2>2. stack' = [stack EXCEPT ![i] = [stack[i] EXCEPT !.attached = FALSE]]
    BY <1>6 DEF FrameDetaches
  <2>3. [stack[i] EXCEPT !.attached = FALSE] \in FrameRecord
        /\ [stack[i] EXCEPT !.attached = FALSE].tab = stack[i].tab
    BY <2>1 DEF FrameRecord
  <2>4. stack' \in Seq(FrameRecord) /\ Len(stack') = Len(stack)
        /\ \A k \in 1 .. Len(stack) : stack'[k].tab = stack[k].tab
    BY <2>1, <2>2, <2>3
  <2>5. stack' # <<>> /\ stack # <<>>
    BY <2>1, <2>4
  <2>6. UNCHANGED <<page, pages, index, popups, suppress, inFrame, opening, own, opened, alive,
                    chosen, lost>>
    BY <1>6 DEF FrameDetaches
  <2>7. TabsTypeOK'
    BY <1>0, <2>4, <2>6 DEF TabsTypeOK
  <2>8. page # NoTab
    BY <2>5 DEF Aimed, NotLaunched
  <2> QED
    BY <2>4, <2>5, <2>6, <2>7, <2>8 DEF Aimed, ChosenIsInPlace
<1>7. ASSUME ActOnTarget PROVE Aimed'
  <2>1. inFrame' = (inFrame /\ Last(stack).attached) /\ page # NoTab
        /\ UNCHANGED <<page, pages, index, popups, suppress, stack, opening, own, opened, alive,
                       chosen, lost>>
    BY <1>7 DEF ActOnTarget, Idle
  <2>2. inFrame' \in BOOLEAN /\ (inFrame' => inFrame)
    BY <2>1
  <2>3. TabsTypeOK'
    BY <1>0, <2>1, <2>2 DEF TabsTypeOK
  <2> QED
    BY <2>1, <2>2, <2>3 DEF Aimed, ChosenIsInPlace
<1>8. ASSUME Navigate \/ DefaultContent PROVE Aimed'
  <2>1. page # NoTab /\ stack' = <<>> /\ inFrame' = FALSE
        /\ UNCHANGED <<page, pages, index, popups, suppress, opening, own, opened, alive, chosen,
                       lost>>
    BY <1>8 DEF Navigate, DefaultContent, Idle, ResetFrames
  <2>2. stack' \in Seq(FrameRecord) /\ Len(stack') <= MaxFrames
    BY <2>1, NoFrames
  <2>3. TabsTypeOK'
    BY <1>0, <2>1, <2>2 DEF TabsTypeOK
  <2> QED
    BY <2>1, <2>3 DEF Aimed, ChosenIsInPlace
<1>9. ASSUME SwitchToFrame PROVE Aimed'
  <2> DEFINE f == [tab |-> page, attached |-> TRUE]
  <2>1. page # NoTab /\ Len(stack) < MaxFrames /\ stack' = Append(stack, f) /\ inFrame' = TRUE
        /\ UNCHANGED <<page, pages, index, popups, suppress, opening, own, opened, alive, chosen,
                       lost>>
    BY <1>9 DEF SwitchToFrame, Idle
  <2>2. f \in FrameRecord /\ f.tab = page
    BY <1>0, <2>1 DEF TabsTypeOK, FrameRecord
  <2> HIDE DEF f
  <2>3. stack \in Seq(FrameRecord) /\ Len(stack) \in Nat /\ \A k \in 1 .. Len(stack) : stack[k].tab = page
    BY <1>0 DEF TabsTypeOK, Aimed
  <2>4. /\ stack' \in Seq(FrameRecord) /\ Len(stack') = Len(stack) + 1 /\ stack' # <<>>
        /\ \A k \in 1 .. Len(stack') : stack'[k].tab = page
    BY <2>1, <2>2, <2>3
  <2>5. TabsTypeOK'
    BY <1>0, <2>1, <2>3, <2>4, TabsAssumption DEF TabsTypeOK
  <2> QED
    BY <2>1, <2>4, <2>5 DEF Aimed, ChosenIsInPlace
<1>10. ASSUME SwitchToParentFrame PROVE Aimed'
  <2>1. /\ page # NoTab /\ inFrame' = (stack' # <<>>)
        /\ stack' = IF stack = <<>> THEN stack ELSE Front(stack)
        /\ UNCHANGED <<page, pages, index, popups, suppress, opening, own, opened, alive, chosen,
                       lost>>
    BY <1>10 DEF SwitchToParentFrame, Idle
  <2>2. stack \in Seq(FrameRecord) /\ Len(stack) \in Nat /\ Len(stack) <= MaxFrames
        /\ \A k \in 1 .. Len(stack) : stack[k].tab = page
    BY <1>0 DEF TabsTypeOK, Aimed
  <2>3. /\ stack' \in Seq(FrameRecord) /\ Len(stack') <= Len(stack)
        /\ \A k \in 1 .. Len(stack') : stack'[k].tab = page
    <3>1. CASE stack = <<>>
      BY <2>1, <2>2, <3>1
    <3>2. CASE stack # <<>>
      <4>1. stack' = [k \in 1 .. Len(stack) - 1 |-> stack[k]]
        BY <2>1, <2>2, <3>2 DEF Front
      <4>2. Len(stack) - 1 \in Nat
        BY <2>2, <3>2
      <4>3. stack' \in Seq(FrameRecord) /\ Len(stack') = Len(stack) - 1
        BY <2>2, <4>1, <4>2
      <4> QED
        BY <2>2, <4>1, <4>2, <4>3
    <3> QED
      BY <3>1, <3>2
  <2>4. TabsTypeOK'
    <3>1. Len(stack') <= MaxFrames
      BY <2>2, <2>3, TabsAssumption
    <3>2. inFrame' \in BOOLEAN
      BY <2>1
    <3> QED
      BY <1>0, <2>1, <2>3, <3>1, <3>2 DEF TabsTypeOK
  <2> QED
    BY <2>1, <2>3, <2>4 DEF Aimed, ChosenIsInPlace
<1>11. ASSUME AskForTab PROVE Aimed'
  <2>1. suppress' \in 0 .. MaxAnnounced /\ page # NoTab /\ opening' = "asks"
        /\ UNCHANGED <<page, index, stack, inFrame, pages, popups, own, opened, alive, chosen, lost>>
    BY <1>0, <1>11, TabsAssumption DEF AskForTab, Idle, TabsTypeOK
  <2> QED
    BY <1>0, <2>1 DEF Aimed, ChosenIsInPlace, TabsTypeOK
<1>12. ASSUME TabIsThere PROVE Aimed'
  <2>1. opened + 1 \in Tabs /\ opened' = opened + 1 /\ alive' = alive \cup {opened'}
        /\ opened' \in 0 .. MaxTabs
    BY <1>0, <1>12, TabsAssumption DEF TabIsThere, TabsTypeOK, Tabs
  <2>2. page # NoTab
    BY <1>12 DEF TabIsThere, Aimed, NotLaunched
  <2> QED
    BY <1>0, <1>12, <2>1, <2>2, ReportKeepsAim DEF TabIsThere, TabsTypeOK
<1>13. ASSUME NoTabComes PROVE Aimed'
  BY <1>0, <1>13 DEF NoTabComes, Aimed, ChosenIsInPlace, TabsTypeOK, NotLaunched
<1>14. ASSUME OpenTab PROVE Aimed'
  <2>1. opening = "has" /\ opening' = "no" /\ own' = NoTab
        /\ UNCHANGED <<popups, suppress, opened, alive>>
    BY <1>14 DEF OpenTab
  <2>2. CASE UNCHANGED <<page, index, stack, inFrame, pages, chosen, lost>>
    BY <1>0, <2>1, <2>2 DEF Aimed, ChosenIsInPlace, TabsTypeOK, NotLaunched
  <2>3. CASE own \in alive /\ Activate(OpenPages, own) /\ Chooses(own)
    BY <1>0, <2>1, <2>3, ActivateKeepsAim DEF Chooses, TabsTypeOK
  <2> QED
    BY <1>14, <2>2, <2>3 DEF OpenTab
<1>15. ASSUME TabNotFound PROVE Aimed'
  <2>1. pages' = OpenPages /\ page # NoTab
        /\ UNCHANGED <<page, index, stack, inFrame, popups, suppress, opening, own, opened, alive,
                       chosen, lost>>
    BY <1>15 DEF TabNotFound, Idle
  <2>2. ASSUME ~lost PROVE ChosenIsInPlace'
    <3>1. ChosenIsInPlace
      BY <2>1, <2>2 DEF Aimed
    <3>2. /\ index + 1 \in 1 .. Len(OpenPages) /\ OpenPages[index + 1] = chosen
          /\ \A i \in 1 .. index + 1 : OpenPages[i] = pages[i]
      BY <3>1, OpenOnesKeepPlace DEF ChosenIsInPlace, OpenPages
    <3> QED
      BY <2>1, <3>1, <3>2 DEF ChosenIsInPlace
  <2>3. TabsTypeOK'
    BY <1>0, <2>1 DEF TabsTypeOK
  <2> QED
    BY <2>1, <2>2, <2>3 DEF Aimed
<1>16. ASSUME WaitForPopup PROVE Aimed'
  <2>1. Head(popups) \in Tabs
    BY <1>0, <1>16 DEF WaitForPopup, TabsTypeOK
  <2> QED
    BY <1>0, <1>16, <2>1, ActivateKeepsAim DEF WaitForPopup, Chooses, TabsTypeOK
<1>17. ASSUME ApplyStorage PROVE Aimed'
  <2>1. opened + 1 \in Tabs /\ opened' = opened + 1 /\ opened' \in 0 .. MaxTabs
    BY <1>0, <1>17, TabsAssumption DEF ApplyStorage, TabsTypeOK, Tabs
  <2> QED
    BY <1>0, <1>17, <2>1, ReportKeepsAim DEF ApplyStorage, Idle, TabsTypeOK
<1>18. CASE UNCHANGED tabVars
  BY <1>0, <1>18 DEF tabVars, Aimed, ChosenIsInPlace, TabsTypeOK, NotLaunched
<1> QED
  BY <1>1, <1>2, <1>3, <1>4, <1>5, <1>6, <1>7, <1>8, <1>9, <1>10, <1>11, <1>12, <1>13, <1>14,
     <1>15, <1>16, <1>17, <1>18 DEF TabsNext

\* The nodes of a flow act on the tab that the flow activated last, and in a
\* frame of that tab, whatever tabs open and close around it, unless that tab
\* or one in front of it has closed.
THEOREM NodesStayOnTab == TabsSpec => []NodesHitChosenTab
<1>1. Aimed => NodesHitChosenTab
  <2> SUFFICES ASSUME Aimed, ~lost PROVE (IF inFrame THEN Last(stack).tab ELSE page) = chosen
    BY DEF NodesHitChosenTab
  <2>1. page = chosen
    BY DEF Aimed, NotLaunched, ChosenIsInPlace
  <2>2. inFrame => Last(stack).tab = page
    <3>1. stack \in Seq(FrameRecord)
      BY DEF Aimed, TabsTypeOK
    <3>2. stack # <<>> => Len(stack) \in 1 .. Len(stack)
      BY <3>1
    <3> QED
      BY <3>2 DEF Aimed, Last
  <2> QED
    BY <2>1, <2>2
<1> QED
  BY <1>1, AimedStarts, AimedStays, PTL DEF TabsSpec

\* The variables of the tabs have their types.
THEOREM TabsTypeSafe == TabsSpec => []TabsTypeOK
<1>1. Aimed => TabsTypeOK
  BY DEF Aimed
<1> QED
  BY <1>1, AimedStarts, AimedStays, PTL DEF TabsSpec

---------------------------------------------------------------------------
(* Operations: a repeated key has its effect once.                       *)

USE OperationsAssumption

Entry == [key : Keys, result : Nat \cup {Reserved}]

-----------------------------------------------------------------------------
(* What the helpers do.                                                    *)

\* At most one entry is evicted, one that has its result.
LEMMA EvictsAtMostOne ==
    ASSUME NEW list \in Seq(Entry)
    PROVE  \/ Evicted(list) = {}
           \/ \E i \in DOMAIN list : Evicted(list) = {i} /\ list[i].result # Reserved
<1>1. CASE Evicted(list) = {}
  BY <1>1
<1>2. CASE Evicted(list) # {}
  <2>1. PICK i : i \in Evicted(list)
    BY <1>2
  <2>2. /\ i \in DOMAIN list /\ list[i].result # Reserved
        /\ \A j \in DOMAIN list : list[j].result # Reserved => i <= j
    BY <2>1 DEF Evicted
  <2>3. ASSUME NEW j \in Evicted(list) PROVE j = i
    <3>1. /\ j \in DOMAIN list /\ list[j].result # Reserved
          /\ j <= i
      BY <2>2, <2>3 DEF Evicted
    <3>2. i <= j /\ i \in Nat /\ j \in Nat
      BY <2>2, <3>1
    <3>3. QED
      BY <3>1, <3>2
  <2>4. QED
    BY <2>1, <2>2, <2>3
<1>3. QED
  BY <1>1, <1>2

Unique(list) == \A i, j \in DOMAIN list : list[i].key = list[j].key => i = j
Holds(list, k, v) == \E i \in DOMAIN list : list[i].key = k /\ list[i].result = v

\* What is at each index when the entry at n is taken out.
LEMMA WithoutOne ==
    ASSUME NEW list \in Seq(Entry), NEW n \in DOMAIN list, NEW rest,
           rest = WithoutEntry(list, {n})
    PROVE  /\ rest \in Seq(Entry)
           /\ DOMAIN rest = 1 .. Len(list) - 1
           /\ \A i \in DOMAIN rest : rest[i] = list[IF n <= i THEN i + 1 ELSE i]
<1>1. Cardinality({n}) = 1
  BY FS_Singleton
<1>2. /\ Len(list) \in Nat /\ DOMAIN list = 1 .. Len(list) /\ n \in 1 .. Len(list)
      /\ \A i \in 1 .. Len(list) : list[i] \in Entry
  OBVIOUS
<1>3. rest = [i \in 1 .. Len(list) - 1 |-> list[IF n <= i THEN i + 1 ELSE i]]
  BY <1>1 DEF WithoutEntry
<1>4. Len(list) - 1 \in Nat
  BY <1>2
<1>5. \A i \in 1 .. Len(list) - 1 : list[IF n <= i THEN i + 1 ELSE i] \in Entry
  BY <1>2
<1>6. rest \in Seq(Entry)
  <2>1. PICK len \in Nat : len = Len(list) - 1
    BY <1>4
  <2>2. rest \in [1 .. len -> Entry]
    BY <1>3, <1>5, <2>1
  <2>3. QED
    BY ONLY <2>2, len \in Nat
<1>7. QED
  BY <1>3, <1>6

\* Without none it is the list.
LEMMA WithoutNone ==
    ASSUME NEW list \in Seq(Entry)
    PROVE  WithoutEntry(list, {}) = list
<1>1. Cardinality({}) = 0
  BY FS_EmptySet
<1>2. WithoutEntry(list, {}) = [i \in 1 .. Len(list) |-> list[i]]
  BY <1>1 DEF WithoutEntry
<1>3. QED
  BY <1>2

\* The key of the entry that is taken out is gone, the others stay.
LEMMA WithoutKey ==
    ASSUME NEW list \in Seq(Entry), Unique(list), NEW n \in DOMAIN list, NEW rest,
           rest = WithoutEntry(list, {n})
    PROVE  /\ rest \in Seq(Entry)
           /\ Unique(rest)
           /\ \A k, v : Holds(rest, k, v) <=> Holds(list, k, v) /\ k # list[n].key
<1>1. /\ rest \in Seq(Entry)
      /\ DOMAIN rest = 1 .. Len(list) - 1
      /\ \A i \in DOMAIN rest : rest[i] = list[IF n <= i THEN i + 1 ELSE i]
  BY WithoutOne
<1>2. Len(list) \in Nat /\ DOMAIN list = 1 .. Len(list) /\ n \in 1 .. Len(list)
  OBVIOUS
<1>3. \A i, j \in 1 .. Len(list) : list[i].key = list[j].key => i = j
  BY <1>2 DEF Unique
<1>4. Unique(rest)
  <2> SUFFICES ASSUME NEW i \in DOMAIN rest, NEW j \in DOMAIN rest, rest[i].key = rest[j].key
               PROVE  i = j
    BY DEF Unique
  <2>1. list[IF n <= i THEN i + 1 ELSE i].key = list[IF n <= j THEN j + 1 ELSE j].key
    BY <1>1
  <2>2. (IF n <= i THEN i + 1 ELSE i) = (IF n <= j THEN j + 1 ELSE j)
    BY <1>1, <1>2, <1>3, <2>1
  <2>3. QED
    BY <1>1, <1>2, <2>2
<1>5. ASSUME NEW k, NEW v, Holds(rest, k, v) PROVE Holds(list, k, v) /\ k # list[n].key
  <2>1. PICK i \in DOMAIN rest : rest[i].key = k /\ rest[i].result = v
    BY <1>5 DEF Holds
  <2>2. PICK m : m = (IF n <= i THEN i + 1 ELSE i)
    OBVIOUS
  <2>3. m \in 1 .. Len(list) /\ m # n
    BY <1>1, <1>2, <2>2
  <2>4. list[m].key = k /\ list[m].result = v
    BY <1>1, <2>1, <2>2
  <2>5. QED
    BY <1>2, <1>3, <2>3, <2>4 DEF Holds
<1>6. ASSUME NEW k, NEW v, Holds(list, k, v), k # list[n].key PROVE Holds(rest, k, v)
  <2>1. PICK m \in DOMAIN list : list[m].key = k /\ list[m].result = v
    BY <1>6 DEF Holds
  <2>2. m # n /\ m \in 1 .. Len(list)
    BY <1>2, <1>6, <2>1
  <2>3. PICK i : i = (IF n < m THEN m - 1 ELSE m)
    OBVIOUS
  <2>4. i \in 1 .. Len(list) - 1 /\ (IF n <= i THEN i + 1 ELSE i) = m
    BY <1>2, <2>2, <2>3
  <2>5. rest[i].key = k /\ rest[i].result = v
    BY <1>1, <2>1, <2>4
  <2>6. QED
    BY <1>1, <2>4, <2>5 DEF Holds
<1>7. QED
  BY <1>1, <1>4, <1>5, <1>6

\* What the store holds after a change: all of list, or all but one result.
LEMMA HoldKeeps ==
    ASSUME NEW list \in Seq(Entry), Unique(list), OperationsTypeOK, Hold(list)
    PROVE  /\ entries' \in Seq(Entry)
           /\ Unique(entries')
           /\ \/ /\ entries' = list
                 /\ \A k \in Keys : forgotten'[k] = forgotten[k]
              \/ \E gone \in Keys, w \in Nat :
                    /\ Holds(list, gone, w)
                    /\ \A k, v : Holds(entries', k, v) <=> Holds(list, k, v) /\ k # gone
                    /\ \A k \in Keys :
                          forgotten'[k] = IF k = gone THEN forgotten[k] + 1 ELSE forgotten[k]
           /\ forgotten' \in [Keys -> Nat]
<1>0. forgotten \in [Keys -> Nat]
  BY DEF OperationsTypeOK
<1>1. CASE Evicted(list) = {}
  <2>1. entries' = list
    BY <1>1, WithoutNone DEF Hold
  <2>2. \A k \in Keys : forgotten'[k] = forgotten[k]
    BY <1>0, <1>1 DEF Hold
  <2>3. forgotten' \in [Keys -> Nat]
    BY <1>0, <1>1 DEF Hold
  <2>4. QED
    BY <2>1, <2>2, <2>3
<1>2. CASE Evicted(list) # {}
  <2>1. PICK i \in DOMAIN list : Evicted(list) = {i} /\ list[i].result # Reserved
    BY <1>2, EvictsAtMostOne
  <2>2. list[i] \in Entry
    OBVIOUS
  <2>3. list[i].key \in Keys /\ list[i].result \in Nat
    BY <2>1, <2>2 DEF Entry
  <2>4. entries' = WithoutEntry(list, {i})
    BY <2>1 DEF Hold
  <2>5. /\ entries' \in Seq(Entry)
        /\ Unique(entries')
        /\ \A k, v : Holds(entries', k, v) <=> Holds(list, k, v) /\ k # list[i].key
    BY <2>4, WithoutKey
  <2>6. \A k \in Keys :
           forgotten'[k] = IF k = list[i].key THEN forgotten[k] + 1 ELSE forgotten[k]
    BY <1>0, <2>1 DEF Hold
  <2>7. Holds(list, list[i].key, list[i].result)
    BY DEF Holds
  <2>8. forgotten' \in [Keys -> Nat]
    BY <1>0 DEF Hold
  <2>9. QED
    BY <2>3, <2>5, <2>6, <2>7, <2>8
<1>3. QED
  BY <1>1, <1>2

-----------------------------------------------------------------------------
\* Every variable keeps its type, and a key is in the store at most once.
Typed == OperationsTypeOK /\ Unique(entries)

RequestState == [at : RequestPlaces, key : Keys, held : BOOLEAN, result : Nat]

\* A request that goes on has its type.
LEMMA AdvanceType ==
    ASSUME NEW r \in Requests, NEW place \in RequestPlaces, NEW held \in BOOLEAN, NEW result \in Nat,
           request \in [Requests -> RequestState], AdvanceRequest(r, place, held, result)
    PROVE  request' \in [Requests -> RequestState]
<1>1. [at |-> place, key |-> request[r].key, held |-> held, result |-> result] \in RequestState
  BY DEF RequestState
<1>2. QED
  BY <1>1 DEF AdvanceRequest

LEMMA IdleType == \A k \in Keys : IdleRequest(k) \in RequestState
  BY DEF IdleRequest, RequestPlaces, RequestState

LEMMA AnyKeyIsKey == AnyKey \in Keys
  BY DEF AnyKey

\* The entry of a request that is dispatched is appended.
Reserving(k, list) == Append(list, [key |-> k, result |-> Reserved])

LEMMA AppendKeeps ==
    ASSUME NEW list \in Seq(Entry), Unique(list), NEW k \in Keys, ~Known(k, list)
    PROVE  /\ Reserving(k, list) \in Seq(Entry)
           /\ Unique(Reserving(k, list))
           /\ \A x, v : Holds(Reserving(k, list), x, v)
                          <=> Holds(list, x, v) \/ (x = k /\ v = Reserved)
<1>0. PICK longer : longer = Reserving(k, list)
  OBVIOUS
<1>1. [key |-> k, result |-> Reserved] \in Entry
  BY DEF Entry
<1>2. /\ longer \in Seq(Entry) /\ DOMAIN list = 1 .. Len(list) /\ Len(list) \in Nat
      /\ DOMAIN longer = 1 .. Len(list) + 1
      /\ \A i \in 1 .. Len(list) : longer[i] = list[i]
      /\ longer[Len(list) + 1] = [key |-> k, result |-> Reserved]
  BY <1>0, <1>1 DEF Reserving
<1>3. \A i \in 1 .. Len(list) : list[i].key # k
  BY <1>2 DEF Known
<1>4. Unique(longer)
  BY <1>2, <1>3 DEF Unique
<1>5. \A x, v : Holds(longer, x, v) <=> Holds(list, x, v) \/ (x = k /\ v = Reserved)
  BY <1>2 DEF Holds
<1>6. QED
  BY <1>0, <1>2, <1>4, <1>5

\* An entry gets its result.
LEMMA ResultKeeps ==
    ASSUME NEW list \in Seq(Entry), Unique(list), NEW k \in Keys, NEW res \in Nat
    PROVE  /\ WithResult(k, res, list) \in Seq(Entry)
           /\ Unique(WithResult(k, res, list))
           /\ \A x, v : Holds(WithResult(k, res, list), x, v)
                          <=> \/ x # k /\ Holds(list, x, v)
                              \/ x = k /\ v = res /\ Known(k, list)
<1>0. PICK done : done = WithResult(k, res, list)
  OBVIOUS
<1>1. DOMAIN list = 1 .. Len(list) /\ Len(list) \in Nat /\ \A i \in 1 .. Len(list) : list[i] \in Entry
  OBVIOUS
<1>2. \A i \in 1 .. Len(list) : done[i] = IF list[i].key = k THEN [list[i] EXCEPT !.result = res]
                                          ELSE list[i]
  BY <1>0, <1>1 DEF WithResult
<1>3. \A i \in 1 .. Len(list) :
         /\ done[i] \in Entry /\ done[i].key = list[i].key
         /\ done[i].result = IF list[i].key = k THEN res ELSE list[i].result
  BY <1>1, <1>2 DEF Entry
<1>4. done \in Seq(Entry) /\ DOMAIN done = DOMAIN list
  <2>1. done \in [1 .. Len(list) -> Entry]
    BY <1>0, <1>1, <1>3 DEF WithResult
  <2>2. PICK len \in Nat : len = Len(list)
    BY <1>1
  <2>3. done \in [1 .. len -> Entry]
    BY <2>1, <2>2
  <2>4. done \in Seq(Entry)
    BY ONLY <2>3, len \in Nat
  <2>5. QED
    BY <1>0, <2>4 DEF WithResult
<1>5. Unique(done)
  BY <1>1, <1>3, <1>4 DEF Unique
<1>6. ASSUME NEW x, NEW v
      PROVE  Holds(done, x, v) <=> \/ x # k /\ Holds(list, x, v)
                                   \/ x = k /\ v = res /\ Known(k, list)
  BY <1>1, <1>3, <1>4 DEF Holds, Known
<1>7. QED
  BY <1>0, <1>4, <1>5, <1>6

\* A key is given up.
LEMMA DroppingKeeps ==
    ASSUME NEW list \in Seq(Entry), Unique(list), NEW k \in Keys, Known(k, list),
           NEW rest, rest = Dropping(k, list)
    PROVE  /\ rest \in Seq(Entry)
           /\ Unique(rest)
           /\ \A x, v : Holds(rest, x, v) <=> Holds(list, x, v) /\ x # k
<1>1. PICK n \in DOMAIN list : list[n].key = k
  BY DEF Known
<1>2. {i \in DOMAIN list : list[i].key = k} = {n}
  BY <1>1 DEF Unique
<1>3. rest = WithoutEntry(list, {n})
  BY <1>2 DEF Dropping
<1>4. QED
  BY <1>1, <1>3, WithoutKey

LEMMA TypedStep == Typed /\ [OperationsNext]_opVars => Typed'
<1> SUFFICES ASSUME Typed, [OperationsNext]_opVars PROVE Typed'
  OBVIOUS
<1>0. /\ entries \in Seq(Entry) /\ Unique(entries)
      /\ request \in [Requests -> RequestState]
      /\ effects \in [Keys -> Nat]
      /\ forgotten \in [Keys -> Nat]
      /\ hostStops \in 0 .. MaxHostStops
      /\ OperationsTypeOK
  BY DEF Typed, OperationsTypeOK, Entry, RequestState
<1>9. \A r \in Requests : request[r].key \in Keys /\ request[r].result \in Nat
  BY <1>0 DEF RequestState
<1>1. ASSUME NEW r \in Requests, SendRequest(r) PROVE Typed'
  <2>1. PICK k \in Keys : request' = [request EXCEPT ![r] = [at |-> "reserve", key |-> k,
                                                       held |-> FALSE, result |-> 0]]
    BY <1>1 DEF SendRequest
  <2>2. [at |-> "reserve", key |-> k, held |-> FALSE, result |-> 0] \in RequestState
    BY DEF RequestState, RequestPlaces
  <2>3. request' \in [Requests -> RequestState]
    BY <1>0, <2>1, <2>2
  <2>4. QED
    BY <1>0, <1>1, <2>3 DEF SendRequest, Typed, OperationsTypeOK, Entry, RequestState, Unique
<1>2. ASSUME NEW r \in Requests, Reserve(r) PROVE Typed'
  <2>1. request' \in [Requests -> RequestState]
    <3>1. CASE AdvanceRequest(r, "dispatch", TRUE, 0)
      BY <1>0, <3>1, AdvanceType DEF RequestPlaces
    <3>2. CASE AdvanceRequest(r, "failed", FALSE, 0)
      BY <1>0, <3>2, AdvanceType DEF RequestPlaces
    <3>3. CASE request' = [request EXCEPT ![r] = IdleRequest(AnyKey)]
      BY <1>0, <3>3, IdleType, AnyKeyIsKey
    <3>4. QED
      BY <1>2, <3>1, <3>2, <3>3 DEF Reserve, Refuse
  <2>2. effects' = effects /\ hostStops' = hostStops
    BY <1>2 DEF Reserve
  <2>3. request[r].key \in Keys
    BY <1>0, <1>9
  <2>4. /\ entries' \in Seq(Entry) /\ Unique(entries')
        /\ forgotten' \in [Keys -> Nat]
    <3>1. CASE ~Known(request[r].key, entries)
      <4>1. PICK longer : longer = Reserving(request[r].key, entries)
        OBVIOUS
      <4>2. longer \in Seq(Entry) /\ Unique(longer)
        BY <1>0, <2>3, <3>1, <4>1, AppendKeeps
      <4>3. Hold(longer)
        BY <1>2, <3>1, <4>1 DEF Reserve, Reserving
      <4>4. QED
        BY <1>0, <4>2, <4>3, HoldKeeps
    <3>2. CASE Known(request[r].key, entries)
      BY <1>0, <1>2, <3>2 DEF Reserve
    <3>3. QED
      BY <3>1, <3>2
  <2>5. QED
    BY <1>0, <2>1, <2>2, <2>4 DEF Typed, OperationsTypeOK, Entry, RequestState
<1>3. ASSUME NEW r \in Requests, Dispatch(r) PROVE Typed'
  <2>1. request[r].key \in Keys /\ effects[request[r].key] \in Nat
    BY <1>0, <1>9
  <2>2. effects' \in [Keys -> Nat]
    BY <1>0, <1>3, <2>1 DEF Dispatch, AdvanceRequest
  <2>3. request' \in [Requests -> RequestState]
    <3>1. ASSUME NEW next \in {"done", "failed"},
                 AdvanceRequest(r, next, TRUE, effects[request[r].key] + 1)
          PROVE  request' \in [Requests -> RequestState]
      <4>1. PICK res \in Nat : res = effects[request[r].key] + 1
        BY <2>1
      <4>2. AdvanceRequest(r, next, TRUE, res) /\ next \in RequestPlaces
        BY <3>1, <4>1 DEF RequestPlaces
      <4>3. QED
        BY <1>0, <4>2, AdvanceType
    <3>2. CASE AdvanceRequest(r, "failed", TRUE, 0)
      BY <1>0, <3>2, AdvanceType DEF RequestPlaces
    <3>3. QED
      BY <1>3, <3>1, <3>2 DEF Dispatch
  <2>4. QED
    BY <1>0, <1>3, <2>2, <2>3 DEF Dispatch, Typed, OperationsTypeOK, Entry, RequestState, Unique
<1>4. ASSUME NEW r \in Requests, Complete(r) PROVE Typed'
  <2>1. request' \in [Requests -> RequestState]
    BY <1>0, <1>4, IdleType, AnyKeyIsKey DEF Complete
  <2>2. effects' = effects /\ hostStops' = hostStops
    BY <1>4 DEF Complete
  <2>3. request[r].key \in Keys /\ request[r].result \in Nat
    BY <1>0, <1>9
  <2>4. /\ entries' \in Seq(Entry) /\ Unique(entries')
        /\ forgotten' \in [Keys -> Nat]
    <3>1. CASE Known(request[r].key, entries)
      <4>1. PICK done : done = WithResult(request[r].key, request[r].result, entries)
        OBVIOUS
      <4>2. done \in Seq(Entry) /\ Unique(done)
        <5>1. PICK k \in Keys, res \in Nat : k = request[r].key /\ res = request[r].result
          BY <2>3
        <5>2. done = WithResult(k, res, entries)
          BY <4>1, <5>1
        <5>3. entries \in Seq(Entry) /\ Unique(entries)
          BY <1>0
        <5>4. QED
          BY ONLY <5>2, <5>3, k \in Keys, res \in Nat, ResultKeeps
      <4>3. Hold(done)
        BY <1>4, <3>1, <4>1 DEF Complete
      <4>4. QED
        BY <1>0, <4>2, <4>3, HoldKeeps
    <3>2. CASE ~Known(request[r].key, entries)
      BY <1>0, <1>4, <3>2 DEF Complete
    <3>3. QED
      BY <3>1, <3>2
  <2>5. QED
    BY <1>0, <2>1, <2>2, <2>4 DEF Typed, OperationsTypeOK, Entry, RequestState
<1>5. ASSUME NEW r \in Requests, GiveUp(r) PROVE Typed'
  <2>1. request' \in [Requests -> RequestState]
    BY <1>0, <1>5, IdleType, AnyKeyIsKey DEF GiveUp
  <2>2. effects' = effects /\ hostStops' = hostStops
    BY <1>5 DEF GiveUp
  <2>3. request[r].key \in Keys
    BY <1>0, <1>9
  <2>4. forgotten' \in [Keys -> Nat]
    BY <1>0, <1>5, <2>3 DEF GiveUp
  <2>5. entries' \in Seq(Entry) /\ Unique(entries')
    <3>1. CASE request[r].held /\ Known(request[r].key, entries)
      <4>1. entries' = Dropping(request[r].key, entries)
        BY <1>5, <3>1 DEF GiveUp
      <4>2. QED
        BY <1>0, <2>3, <3>1, <4>1, DroppingKeeps
    <3>2. CASE ~(request[r].held /\ Known(request[r].key, entries))
      BY <1>0, <1>5, <3>2 DEF GiveUp
    <3>3. QED
      BY <3>1, <3>2
  <2>6. QED
    BY <1>0, <2>1, <2>2, <2>4, <2>5 DEF Typed, OperationsTypeOK, Entry, RequestState
<1>6. ASSUME HostStop PROVE Typed'
  <2>1. entries' \in Seq(Entry) /\ Unique(entries')
    BY <1>6 DEF HostStop, Unique
  <2>2. request' \in [Requests -> RequestState] /\ forgotten' \in [Keys -> Nat]
    BY <1>0, <1>6, IdleType, AnyKeyIsKey DEF HostStop
  <2>3. hostStops' \in 0 .. MaxHostStops /\ effects' = effects
    BY <1>0, <1>6 DEF HostStop
  <2>4. QED
    BY <1>0, <2>1, <2>2, <2>3 DEF Typed, OperationsTypeOK, Entry, RequestState
<1>7. ASSUME UNCHANGED opVars PROVE Typed'
  BY <1>7 DEF opVars, Typed, OperationsTypeOK, Unique
<1>8. QED
  BY <1>1, <1>2, <1>3, <1>4, <1>5, <1>6, <1>7 DEF OperationsNext

LEMMA TypedInit == OperationsInit => Typed
<1> SUFFICES ASSUME OperationsInit PROVE Typed
  OBVIOUS
<1>1. entries \in Seq(Entry) /\ Unique(entries)
  BY DEF OperationsInit, Unique
<1>2. request \in [Requests -> RequestState]
  BY IdleType, AnyKeyIsKey DEF OperationsInit
<1>3. effects \in [Keys -> Nat] /\ forgotten \in [Keys -> Nat] /\ hostStops \in 0 .. MaxHostStops
  BY DEF OperationsInit
<1>4. QED
  BY <1>1, <1>2, <1>3 DEF Typed, OperationsTypeOK, Entry, RequestState

\* The types of the operation service (Operations.tla).
THEOREM OperationsTypes == OperationsSpec => []OperationsTypeOK
<1>1. Typed => OperationsTypeOK
  BY DEF Typed
<1>2. QED
  BY <1>1, TypedInit, TypedStep, PTL DEF OperationsSpec

-----------------------------------------------------------------------------
(* Each key has its effect once.                                           *)

\* A request holds its key from its reservation to its end, and then the store
\* has the key without a result; nobody else holds it. A result is there from
\* the effect of the operation on.
HeldIsReserved ==
    /\ \A r \in Requests :
          /\ request[r].held => Holds(entries, request[r].key, Reserved)
          /\ request[r].at \in {"dispatch", "done"} => request[r].held
          /\ request[r].at \in {"idle", "reserve"} => ~request[r].held
          /\ ~request[r].held \/ request[r].at = "dispatch" => request[r].result = 0
    /\ \A r, q \in Requests :
          request[r].held /\ request[q].held /\ request[r].key = request[q].key => r = q

\* What is still known of the effect of a key: by its entry or by its request.
Remembered(k) ==
    \/ \E v \in Nat : Holds(entries, k, v)
    \/ \E r \in Requests : request[r].held /\ request[r].key = k /\ request[r].result # 0

EffectsCounted ==
    \A k \in Keys : effects[k] <= forgotten[k] + IF Remembered(k) THEN 1 ELSE 0

OpInv == Typed /\ HeldIsReserved /\ EffectsCounted

\* No other request holds the key of a request that does, nor has its entry a
\* result.
LEMMA HeldAlone ==
    ASSUME Typed, HeldIsReserved, NEW r \in Requests, request[r].held
    PROVE  /\ \A v \in Nat : ~Holds(entries, request[r].key, v)
           /\ Known(request[r].key, entries)
           /\ request[r].result = 0 => ~Remembered(request[r].key)
<1>1. Holds(entries, request[r].key, Reserved)
  BY DEF HeldIsReserved
<1>2. \A v \in Nat : ~Holds(entries, request[r].key, v)
  BY <1>1 DEF Holds, Typed, Unique
<1>3. Known(request[r].key, entries)
  BY <1>1 DEF Holds, Known
<1>4. \A q \in Requests : request[q].held /\ request[q].key = request[r].key => q = r
  BY DEF HeldIsReserved
<1>5. QED
  BY <1>2, <1>3, <1>4 DEF Remembered

LEMMA OpInvInit == OperationsInit => OpInv
<1> SUFFICES ASSUME OperationsInit PROVE OpInv
  OBVIOUS
<1>1. Typed
  BY TypedInit
<1>2. HeldIsReserved
  BY DEF OperationsInit, HeldIsReserved, IdleRequest
<1>3. EffectsCounted
  BY DEF OperationsInit, EffectsCounted
<1>4. QED
  BY <1>1, <1>2, <1>3 DEF OpInv

\* The store forgets no reservation, and a result only as forgotten counts it.
LEMMA HoldForgets ==
    ASSUME Typed, NEW list \in Seq(Entry), Unique(list), Hold(list)
    PROVE  /\ \A k : Holds(list, k, Reserved) => Holds(entries', k, Reserved)
           /\ \A k \in Keys :
                 \/ /\ forgotten'[k] = forgotten[k]
                    /\ \A v : Holds(entries', k, v) <=> Holds(list, k, v)
                 \/ /\ forgotten'[k] = forgotten[k] + 1
                    /\ \E v \in Nat : Holds(list, k, v)
<1>1. OperationsTypeOK
  BY DEF Typed
<1>2. CASE entries' = list /\ \A k \in Keys : forgotten'[k] = forgotten[k]
  BY <1>2
<1>3. CASE \E gone \in Keys, w \in Nat :
             /\ Holds(list, gone, w)
             /\ \A k, v : Holds(entries', k, v) <=> Holds(list, k, v) /\ k # gone
             /\ \A k \in Keys :
                   forgotten'[k] = IF k = gone THEN forgotten[k] + 1 ELSE forgotten[k]
  <2>1. PICK gone \in Keys, w \in Nat :
             /\ Holds(list, gone, w)
             /\ \A k, v : Holds(entries', k, v) <=> Holds(list, k, v) /\ k # gone
             /\ \A k \in Keys :
                   forgotten'[k] = IF k = gone THEN forgotten[k] + 1 ELSE forgotten[k]
    BY <1>3
  <2>2. ~Holds(list, gone, Reserved)
    BY <2>1 DEF Holds, Unique
  <2>3. QED
    BY <2>1, <2>2
<1>4. QED
  BY <1>1, <1>2, <1>3, HoldKeeps

\* What the other requests have stays as it is.
Others(r) == \A q \in Requests : q # r => request'[q] = request[q]

LEMMA IdleOthers ==
    ASSUME Typed, NEW r \in Requests, request' = [request EXCEPT ![r] = IdleRequest(AnyKey)]
    PROVE  Others(r) /\ request'[r].at = "idle" /\ ~request'[r].held /\ request'[r].result = 0
  BY DEF Typed, OperationsTypeOK, IdleRequest, Others

LEMMA SendKeeps ==
    ASSUME OpInv, NEW r \in Requests, SendRequest(r)
    PROVE  HeldIsReserved' /\ EffectsCounted'
<1>1. Others(r) /\ request'[r].at = "reserve" /\ ~request'[r].held /\ request'[r].result = 0
  BY DEF OpInv, Typed, OperationsTypeOK, SendRequest, Others
<1>2. ~request[r].held /\ UNCHANGED <<entries, effects, forgotten>>
  BY DEF OpInv, HeldIsReserved, SendRequest, OpAt
<1>3. HeldIsReserved'
  BY <1>1, <1>2 DEF OpInv, HeldIsReserved, Others
<1>4. ASSUME NEW k \in Keys PROVE Remembered(k) => Remembered(k)'
  BY <1>1, <1>2 DEF Remembered, Others
<1>5. EffectsCounted'
  BY <1>2, <1>4 DEF OpInv, EffectsCounted, Typed, OperationsTypeOK
<1>6. QED
  BY <1>3, <1>5

LEMMA ReserveKeeps ==
    ASSUME OpInv, NEW r \in Requests, Reserve(r)
    PROVE  HeldIsReserved' /\ EffectsCounted'
<1>1. PICK k \in Keys : k = request[r].key
  BY DEF OpInv, Typed, OperationsTypeOK
<1>2. /\ Typed /\ HeldIsReserved /\ EffectsCounted
      /\ entries \in Seq(Entry) /\ Unique(entries)
      /\ ~request[r].held /\ effects' = effects
      /\ \A x \in Keys : effects[x] \in Nat /\ forgotten[x] \in Nat
      /\ \A q \in Requests : request[q].key \in Keys
  BY DEF OpInv, Typed, OperationsTypeOK, Entry, HeldIsReserved, Reserve, OpAt
<1>3. CASE ~Known(k, entries)
  <2>1. PICK list : list = Reserving(k, entries)
    OBVIOUS
  <2>2. Hold(list) /\ AdvanceRequest(r, "dispatch", TRUE, 0)
    BY <1>1, <1>3, <2>1 DEF Reserve, Reserving
  <2>3. /\ list \in Seq(Entry) /\ Unique(list)
        /\ \A x, v : Holds(list, x, v) <=> Holds(entries, x, v) \/ (x = k /\ v = Reserved)
    <3>1. entries \in Seq(Entry)
      BY <1>2
    <3>2. Unique(entries)
      BY <1>2
    <3>3. QED
      BY ONLY k \in Keys, <1>3, <2>1, <3>1, <3>2, AppendKeeps
  <2>4. /\ \A x : Holds(list, x, Reserved) => Holds(entries', x, Reserved)
        /\ \A x \in Keys :
                 \/ /\ forgotten'[x] = forgotten[x]
                    /\ \A v : Holds(entries', x, v) <=> Holds(list, x, v)
                 \/ /\ forgotten'[x] = forgotten[x] + 1
                    /\ \E v \in Nat : Holds(list, x, v)
    BY <1>2, <2>2, <2>3, HoldForgets
  <2>5. Others(r) /\ request'[r] = [at |-> "dispatch", key |-> k, held |-> TRUE, result |-> 0]
    BY <1>1, <1>2, <2>2 DEF AdvanceRequest, Others, Typed, OperationsTypeOK
  <2>6. \A q \in Requests : request[q].held => request[q].key # k
    BY <1>2, <1>3 DEF HeldIsReserved, Known, Holds
  <2>7. HeldIsReserved'
    BY <1>2, <2>3, <2>4, <2>5, <2>6 DEF HeldIsReserved, Others
  <2>8. ASSUME NEW x \in Keys PROVE effects'[x] <= forgotten'[x] + IF Remembered(x)' THEN 1 ELSE 0
    <3>1. CASE /\ forgotten'[x] = forgotten[x]
               /\ \A v : Holds(entries', x, v) <=> Holds(list, x, v)
      <4>1. Remembered(x) => Remembered(x)'
        BY <1>2, <2>3, <2>5, <3>1 DEF Remembered, Others
      <4>2. QED
        BY <1>2, <3>1, <4>1 DEF EffectsCounted
    <3>2. CASE forgotten'[x] = forgotten[x] + 1
      BY <1>2, <3>2 DEF EffectsCounted
    <3>3. QED
      BY <2>4, <3>1, <3>2
  <2>9. QED
    BY <2>7, <2>8 DEF EffectsCounted
<1>4. CASE Known(k, entries)
  <2>1. UNCHANGED <<entries, effects, forgotten>>
    BY <1>1, <1>4 DEF Reserve
  <2>2. /\ Others(r) /\ ~request'[r].held /\ request'[r].result = 0
        /\ request'[r].at \in {"idle", "failed"}
    <3>1. CASE AdvanceRequest(r, "failed", FALSE, 0)
      BY <1>2, <3>1 DEF AdvanceRequest, Others, Typed, OperationsTypeOK
    <3>2. CASE request' = [request EXCEPT ![r] = IdleRequest(AnyKey)]
      BY <1>2, <3>2, IdleOthers
    <3>3. QED
      BY <1>1, <1>4, <3>1, <3>2 DEF Reserve, Refuse
  <2>3. HeldIsReserved'
    BY <1>2, <2>1, <2>2 DEF HeldIsReserved, Others
  <2>4. ASSUME NEW x \in Keys PROVE Remembered(x) => Remembered(x)'
    BY <1>2, <2>1, <2>2 DEF Remembered, Others
  <2>5. QED
    BY <1>2, <2>1, <2>3, <2>4 DEF EffectsCounted
<1>5. QED
  BY <1>3, <1>4

LEMMA DispatchKeeps ==
    ASSUME OpInv, NEW r \in Requests, Dispatch(r)
    PROVE  HeldIsReserved' /\ EffectsCounted'
<1>1. PICK k \in Keys : k = request[r].key
  BY DEF OpInv, Typed, OperationsTypeOK
<1>2. /\ Typed /\ HeldIsReserved /\ EffectsCounted
      /\ request[r].held /\ request[r].result = 0
      /\ UNCHANGED <<entries, forgotten>>
      /\ effects \in [Keys -> Nat]
      /\ \A x \in Keys : effects[x] \in Nat /\ forgotten[x] \in Nat
  BY DEF OpInv, Typed, OperationsTypeOK, HeldIsReserved, Dispatch, OpAt
<1>3. ~Remembered(k)
  BY <1>1, <1>2, HeldAlone
<1>4. ASSUME NEW place \in {"done", "failed"}, NEW n \in Nat,
             AdvanceRequest(r, place, TRUE, n),
             \/ n = effects[k] + 1 /\ effects' = [effects EXCEPT ![k] = effects[k] + 1]
             \/ place = "failed" /\ n = 0 /\ effects' = effects
      PROVE  HeldIsReserved' /\ EffectsCounted'
  <2>1. /\ Others(r)
        /\ request'[r] = [at |-> place, key |-> k, held |-> TRUE, result |-> n]
    BY <1>1, <1>2, <1>4 DEF AdvanceRequest, Others, Typed, OperationsTypeOK
  <2>2. HeldIsReserved'
    BY <1>1, <1>2, <1>4, <2>1 DEF HeldIsReserved, Others
  <2>3. ASSUME NEW x \in Keys PROVE effects'[x] <= forgotten'[x] + IF Remembered(x)' THEN 1 ELSE 0
    <3>1. Remembered(x) => Remembered(x)'
      BY <1>2, <2>1 DEF Remembered, Others
    <3>2. CASE x = k /\ n # 0
      <4>1. Remembered(x)'
        BY <2>1, <3>2 DEF Remembered
      <4>2. effects[k] <= forgotten[k]
        BY <1>2, <1>3 DEF EffectsCounted
      <4>3. QED
        BY <1>2, <1>4, <3>2, <4>1, <4>2
    <3>3. CASE ~(x = k /\ n # 0)
      <4>1. effects'[x] = effects[x]
        BY <1>2, <1>4, <3>3
      <4>2. QED
        BY <1>2, <3>1, <4>1 DEF EffectsCounted
    <3>4. QED
      BY <3>2, <3>3
  <2>4. QED
    BY <2>2, <2>3 DEF EffectsCounted
<1>5. CASE AdvanceRequest(r, "failed", TRUE, 0) /\ effects' = effects
  BY <1>4, <1>5
<1>6. ASSUME NEW next \in {"done", "failed"}, AdvanceRequest(r, next, TRUE, effects[k] + 1),
             effects' = [effects EXCEPT ![k] = effects[k] + 1]
      PROVE  HeldIsReserved' /\ EffectsCounted'
  <2>1. PICK n \in Nat : n = effects[k] + 1
    BY <1>2
  <2>2. QED
    BY <1>4, <1>6, <2>1
<1>7. QED
  BY <1>1, <1>5, <1>6 DEF Dispatch

LEMMA CompleteKeeps ==
    ASSUME OpInv, NEW r \in Requests, Complete(r)
    PROVE  HeldIsReserved' /\ EffectsCounted'
<1>1. PICK k \in Keys, res \in Nat : k = request[r].key /\ res = request[r].result
  BY DEF OpInv, Typed, OperationsTypeOK
<1>2. /\ Typed /\ HeldIsReserved /\ EffectsCounted
      /\ entries \in Seq(Entry) /\ Unique(entries)
      /\ request[r].held /\ effects' = effects
      /\ request' = [request EXCEPT ![r] = IdleRequest(AnyKey)]
      /\ \A x \in Keys : effects[x] \in Nat /\ forgotten[x] \in Nat
  BY DEF OpInv, Typed, OperationsTypeOK, Entry, HeldIsReserved, Complete, OpAt
<1>3. Known(k, entries) /\ \A q \in Requests \ {r} : request[q].held => request[q].key # k
  BY <1>1, <1>2, HeldAlone DEF HeldIsReserved
<1>4. PICK list : list = WithResult(k, res, entries)
  OBVIOUS
<1>5. Hold(list)
  BY <1>1, <1>3, <1>4 DEF Complete
<1>6. /\ list \in Seq(Entry) /\ Unique(list)
      /\ \A x, v : Holds(list, x, v) <=> \/ x # k /\ Holds(entries, x, v)
                                         \/ x = k /\ v = res /\ Known(k, entries)
  <2>1. entries \in Seq(Entry)
    BY <1>2
  <2>2. Unique(entries)
    BY <1>2
  <2>3. QED
    BY ONLY k \in Keys, res \in Nat, <1>4, <2>1, <2>2, ResultKeeps
<1>7. /\ \A x : Holds(list, x, Reserved) => Holds(entries', x, Reserved)
      /\ \A x \in Keys :
               \/ /\ forgotten'[x] = forgotten[x]
                  /\ \A v : Holds(entries', x, v) <=> Holds(list, x, v)
               \/ /\ forgotten'[x] = forgotten[x] + 1
                  /\ \E v \in Nat : Holds(list, x, v)
  BY <1>2, <1>5, <1>6, HoldForgets
<1>8. Others(r) /\ request'[r].at = "idle" /\ ~request'[r].held /\ request'[r].result = 0
  BY <1>2, IdleOthers
<1>9. HeldIsReserved'
  BY <1>1, <1>2, <1>3, <1>6, <1>7, <1>8 DEF HeldIsReserved, Others
<1>10. ASSUME NEW x \in Keys PROVE effects'[x] <= forgotten'[x] + IF Remembered(x)' THEN 1 ELSE 0
  <2>1. CASE /\ forgotten'[x] = forgotten[x]
             /\ \A v : Holds(entries', x, v) <=> Holds(list, x, v)
    <3>1. Remembered(x) => Remembered(x)'
      BY <1>1, <1>3, <1>6, <1>8, <2>1 DEF Remembered, Others
    <3>2. QED
      BY <1>2, <2>1, <3>1 DEF EffectsCounted
  <2>2. CASE forgotten'[x] = forgotten[x] + 1
    BY <1>2, <2>2 DEF EffectsCounted
  <2>3. QED
    BY <1>7, <2>1, <2>2
<1>11. QED
  BY <1>9, <1>10 DEF EffectsCounted

LEMMA GiveUpKeeps ==
    ASSUME OpInv, NEW r \in Requests, GiveUp(r)
    PROVE  HeldIsReserved' /\ EffectsCounted'
<1>1. PICK k \in Keys : k = request[r].key
  BY DEF OpInv, Typed, OperationsTypeOK
<1>2. /\ Typed /\ HeldIsReserved /\ EffectsCounted
      /\ entries \in Seq(Entry) /\ Unique(entries)
      /\ effects' = effects
      /\ request' = [request EXCEPT ![r] = IdleRequest(AnyKey)]
      /\ forgotten \in [Keys -> Nat]
      /\ \A x \in Keys : effects[x] \in Nat /\ forgotten[x] \in Nat
  BY DEF OpInv, Typed, OperationsTypeOK, Entry, GiveUp
<1>3. Others(r) /\ request'[r].at = "idle" /\ ~request'[r].held /\ request'[r].result = 0
  BY <1>2, IdleOthers
<1>4. CASE request[r].held
  <2>1. /\ Known(k, entries) /\ (request[r].result = 0 => ~Remembered(k))
        /\ \A q \in Requests \ {r} : request[q].held => request[q].key # k
    BY <1>1, <1>2, <1>4, HeldAlone DEF HeldIsReserved
  <2>2. entries' = Dropping(k, entries)
    BY <1>1, <1>4, <2>1 DEF GiveUp
  <2>3. \A x, v : Holds(entries', x, v) <=> Holds(entries, x, v) /\ x # k
    BY <1>2, <2>1, <2>2, DroppingKeeps
  <2>4. forgotten' = [forgotten EXCEPT ![k] = @ + IF request[r].result # 0 THEN 1 ELSE 0]
    BY <1>1, <1>4, <2>1 DEF GiveUp
  <2>5. HeldIsReserved'
    BY <1>2, <1>3, <2>1, <2>3 DEF HeldIsReserved, Others
  <2>6. ASSUME NEW x \in Keys PROVE effects'[x] <= forgotten'[x] + IF Remembered(x)' THEN 1 ELSE 0
    <3>1. CASE x # k
      <4>1. Remembered(x) => Remembered(x)'
        BY <1>1, <1>3, <2>3, <3>1 DEF Remembered, Others
      <4>2. forgotten'[x] = forgotten[x]
        BY <1>2, <2>4, <3>1
      <4>3. QED
        BY <1>2, <4>1, <4>2 DEF EffectsCounted
    <3>2. CASE x = k /\ request[r].result # 0
      <4>1. forgotten'[x] = forgotten[x] + 1
        BY <1>2, <2>4, <3>2
      <4>2. QED
        BY <1>2, <4>1 DEF EffectsCounted
    <3>3. CASE x = k /\ request[r].result = 0
      <4>1. forgotten'[x] = forgotten[x]
        BY <1>2, <2>4, <3>3
      <4>2. effects[x] <= forgotten[x]
        BY <1>2, <2>1, <3>3 DEF EffectsCounted
      <4>3. QED
        BY <1>2, <4>1, <4>2
    <3>4. QED
      BY <3>1, <3>2, <3>3
  <2>7. QED
    BY <2>5, <2>6 DEF EffectsCounted
<1>5. CASE ~request[r].held
  <2>1. entries' = entries
    BY <1>5 DEF GiveUp
  <2>2. \A x \in Keys : forgotten'[x] = forgotten[x]
    BY <1>2, <1>5 DEF GiveUp
  <2>3. HeldIsReserved'
    BY <1>2, <1>3, <2>1 DEF HeldIsReserved, Others
  <2>4. ASSUME NEW x \in Keys PROVE Remembered(x) => Remembered(x)'
    BY <1>3, <1>5, <2>1 DEF Remembered, Others
  <2>5. QED
    BY <1>2, <2>2, <2>3, <2>4 DEF EffectsCounted
<1>6. QED
  BY <1>4, <1>5

LEMMA StopKeeps ==
    ASSUME OpInv, HostStop
    PROVE  HeldIsReserved' /\ EffectsCounted'
<1>1. /\ EffectsCounted /\ effects' = effects
      /\ \A x \in Keys : effects[x] \in Nat /\ forgotten[x] \in Nat
  BY DEF OpInv, Typed, OperationsTypeOK, HostStop
<1>2. HeldIsReserved'
  BY DEF HostStop, HeldIsReserved, IdleRequest
<1>3. \A x \in Keys : forgotten'[x] = forgotten[x] + IF effects[x] > forgotten[x] THEN 1 ELSE 0
  BY DEF HostStop
<1>4. \A x \in Keys : effects[x] <= forgotten[x] + 1
  BY <1>1 DEF EffectsCounted
<1>5. \A x \in Keys : effects'[x] <= forgotten'[x]
  BY <1>1, <1>3, <1>4
<1>6. \A x \in Keys : forgotten'[x] \in Nat /\ effects'[x] \in Nat
  BY <1>1, <1>3
<1>7. EffectsCounted'
  BY <1>5, <1>6 DEF EffectsCounted
<1>8. QED
  BY <1>2, <1>7

LEMMA OpInvStep == OpInv /\ [OperationsNext]_opVars => OpInv'
<1> SUFFICES ASSUME OpInv, [OperationsNext]_opVars PROVE OpInv'
  OBVIOUS
<1>1. Typed'
  BY TypedStep DEF OpInv
<1>2. HeldIsReserved' /\ EffectsCounted'
  <2>1. CASE UNCHANGED opVars
    BY <2>1 DEF opVars, OpInv, HeldIsReserved, EffectsCounted, Remembered
  <2>2. QED
    BY <2>1, SendKeeps, ReserveKeeps, DispatchKeeps, CompleteKeeps, GiveUpKeeps, StopKeeps
       DEF OperationsNext
<1>3. QED
  BY <1>1, <1>2 DEF OpInv

\* Requests that repeat a key run its operation one at a time, and it has its
\* effect again only when the store has lost the key (Operations.tla).
THEOREM KeyedEffectHappensOnce == OperationsSpec => []EffectOncePerKey
<1>1. OpInv => EffectOncePerKey
  <2> SUFFICES ASSUME OpInv, NEW k \in Keys
               PROVE  /\ effects[k] <= 1 + forgotten[k]
                      /\ Cardinality({r \in Requests : OpAt(r, "dispatch") /\ request[r].key = k}) <= 1
    BY DEF EffectOncePerKey
  <2>1. effects[k] <= 1 + forgotten[k]
    <3>1. effects[k] \in Nat /\ forgotten[k] \in Nat
      BY DEF OpInv, Typed, OperationsTypeOK
    <3>2. effects[k] <= forgotten[k] + IF Remembered(k) THEN 1 ELSE 0
      BY DEF OpInv, EffectsCounted
    <3>3. QED
      BY <3>1, <3>2
  <2>2. PICK atWork : atWork = {r \in Requests : OpAt(r, "dispatch") /\ request[r].key = k}
    OBVIOUS
  <2>3. \A r, q \in atWork : r = q
    BY <2>2 DEF OpInv, HeldIsReserved, OpAt
  <2>4. Cardinality(atWork) <= 1
    <3>1. CASE atWork = {}
      BY <3>1, FS_EmptySet
    <3>2. CASE atWork # {}
      <4>1. PICK r : atWork = {r}
        BY <2>3, <3>2
      <4>2. Cardinality({r}) = 1
        BY FS_Singleton
      <4>3. QED
        BY <4>1, <4>2
    <3>3. QED
      BY <3>1, <3>2
  <2>5. QED
    BY <2>1, <2>2, <2>4
<1>2. QED
  BY <1>1, OpInvInit, OpInvStep, PTL DEF OperationsSpec

---------------------------------------------------------------------------
(* ComponentCalls: calls nest, and an abort is no failure.               *)

USE CallsAssumption

-----------------------------------------------------------------------------
(* Sequences.                                                              *)

LEMMA FrontIsSeq ==
    ASSUME NEW S, NEW s \in Seq(S), s # <<>>
    PROVE  /\ Front(s) \in Seq(S) /\ Len(Front(s)) = Len(s) - 1
           /\ DOMAIN Front(s) = 1 .. Len(s) - 1
           /\ \A i \in 1 .. Len(s) - 1 : Front(s)[i] = s[i]
           /\ Len(s) \in DOMAIN s /\ Last(s) = s[Len(s)] /\ Len(s) \in Nat
           /\ DOMAIN s = 1 .. Len(s)
<1>1. Len(s) \in Nat /\ Len(s) >= 1 /\ DOMAIN s = 1 .. Len(s)
  OBVIOUS
<1>2. PICK n \in Nat : n = Len(s) - 1
  <2>1. Len(s) - 1 \in Nat
    BY <1>1
  <2>2. QED
    BY <2>1
<1>3. Front(s) = SubSeq(s, 1, n)
  BY <1>2 DEF Front
<1>4. /\ Front(s) \in Seq(S) /\ Len(Front(s)) = n
      /\ \A i \in 1 .. n : Front(s)[i] = s[i]
  BY <1>1, <1>2, <1>3
<1>5. QED
  BY <1>1, <1>2, <1>4 DEF Last

LEMMA AppendIsSeq ==
    ASSUME NEW S, NEW s \in Seq(S), NEW x \in S, NEW t, t = Append(s, x)
    PROVE  /\ t \in Seq(S) /\ Len(t) = Len(s) + 1
           /\ DOMAIN t = 1 .. Len(s) + 1 /\ DOMAIN s = 1 .. Len(s) /\ Len(s) \in Nat
           /\ \A i \in 1 .. Len(s) : t[i] = s[i]
           /\ t[Len(s) + 1] = x
  OBVIOUS

-----------------------------------------------------------------------------
(* The calls and the contexts they run in.                                 *)

\* The context of the calls up to the i-th.
ContextAt(i) == IF i = 0 THEN 1 ELSE frames[i].context

\* The calls use the contexts in their order, and a call with a context of its
\* own the next one; the innermost call uses the last.
Placed ==
    /\ Len(contexts) = ContextAt(Len(frames))
    /\ \A i \in DOMAIN frames :
          frames[i].context = IF frames[i].own THEN ContextAt(i - 1) + 1 ELSE ContextAt(i - 1)
    /\ \A i, j \in DOMAIN frames : i <= j => frames[i].context <= frames[j].context
    /\ \A i \in DOMAIN frames : frames[i].context >= 1

\* The stack of a context has every call that is under way in it.
Stacked ==
    \A i \in DOMAIN frames, x \in DOMAIN contexts :
        x >= frames[i].context =>
            /\ i <= Len(contexts[x])
            /\ \E n \in DOMAIN contexts[x] : contexts[x][n] = frames[i].component

Nested ==
    /\ Len(frames) <= MaxDepth
    /\ \A i, j \in DOMAIN frames : frames[i].component = frames[j].component => i = j

\* Without shared contexts it has no other.
Exact ==
    ~shared =>
        /\ ~undeserved
        /\ Len(contexts) = Len(frames) + 1
        /\ \A i \in DOMAIN frames : frames[i].own
        /\ \A x \in DOMAIN contexts :
              /\ Len(contexts[x]) = x - 1
              /\ \A n \in DOMAIN contexts[x] : contexts[x][n] = frames[n].component

CallInv == CallsTypeOK /\ Placed /\ Stacked /\ Nested /\ Exact

LEMMA HereIsLast ==
    ASSUME CallInv
    PROVE  /\ Here = Len(contexts) /\ Here \in DOMAIN contexts /\ Here = ContextAt(Len(frames))
           /\ contexts \in Seq(Seq(Components)) /\ frames \in Seq(Frame)
           /\ DOMAIN contexts = 1 .. Len(contexts) /\ Len(contexts) \in Nat
           /\ DOMAIN frames = 1 .. Len(frames) /\ Len(frames) \in Nat
           /\ \A i \in DOMAIN frames : /\ frames[i].context \in Nat /\ frames[i].component \in Components
                                       /\ frames[i].context <= Len(contexts)
           /\ \A x \in DOMAIN contexts : /\ contexts[x] \in Seq(Components)
                                         /\ DOMAIN contexts[x] = 1 .. Len(contexts[x])
                                         /\ Len(contexts[x]) \in Nat
<1>1. /\ contexts \in Seq(Seq(Components)) /\ frames \in Seq(Frame) /\ Len(contexts) > 0
  BY DEF CallInv, CallsTypeOK
<1>2. /\ DOMAIN contexts = 1 .. Len(contexts) /\ Len(contexts) \in Nat
      /\ DOMAIN frames = 1 .. Len(frames) /\ Len(frames) \in Nat
  BY <1>1
<1>3. \A i \in DOMAIN frames : frames[i].context \in Nat /\ frames[i].component \in Components
  <2>1. \A i \in DOMAIN frames : frames[i] \in Frame
    BY <1>1
  <2>2. QED
    BY <2>1 DEF Frame
<1>4. \A x \in DOMAIN contexts : /\ contexts[x] \in Seq(Components)
                                 /\ DOMAIN contexts[x] = 1 .. Len(contexts[x])
                                 /\ Len(contexts[x]) \in Nat
  BY <1>1
<1>5. (frames = <<>>) <=> Len(frames) = 0
  BY <1>1
<1>6. Here = ContextAt(Len(frames))
  BY <1>5 DEF Here, ContextAt, Last
<1>7. Here = Len(contexts)
  BY <1>6 DEF CallInv, Placed
<1>8. \A i \in DOMAIN frames : frames[i].context <= Len(contexts)
  <2> SUFFICES ASSUME NEW i \in DOMAIN frames PROVE frames[i].context <= Len(contexts)
    OBVIOUS
  <2>1. Len(frames) \in DOMAIN frames /\ i <= Len(frames) /\ Len(frames) # 0
    BY <1>2
  <2>2. frames[i].context <= frames[Len(frames)].context
    BY <2>1 DEF CallInv, Placed
  <2>3. Len(contexts) = frames[Len(frames)].context
    BY <1>6, <1>7, <2>1 DEF ContextAt
  <2>4. QED
    BY <2>2, <2>3
<1>9. QED
  BY <1>1, <1>2, <1>3, <1>4, <1>6, <1>7, <1>8

\* A call that returns takes with it a context of its own.
LEMMA LeaveKeeps ==
    ASSUME CallInv, frames # <<>>, NEW result \in {"succeeded", "failed"}, LeaveCall(result),
           cutShort' \in BOOLEAN
    PROVE  CallInv'
<1>1. PICK n \in Nat : n = Len(frames) - 1
  <2>1. Len(frames) \in Nat /\ Len(frames) # 0
    BY HereIsLast
  <2>2. Len(frames) - 1 \in Nat
    BY <2>1
  <2>3. QED
    BY <2>2
<1>2. /\ frames' \in Seq(Frame) /\ Len(frames') = n /\ DOMAIN frames' = 1 .. n
      /\ \A i \in 1 .. n : frames'[i] = frames[i]
      /\ Len(frames) = n + 1 /\ DOMAIN frames = 1 .. n + 1
      /\ Last(frames) = frames[n + 1]
  BY <1>1, HereIsLast, FrontIsSeq DEF LeaveCall
<1>3. /\ Placed /\ Stacked /\ Nested /\ Exact /\ CallsTypeOK
      /\ Len(contexts) = frames[n + 1].context
  BY <1>2, HereIsLast DEF CallInv, ContextAt
<1>4. ContextAt(n)' = ContextAt(n)
  BY <1>2 DEF ContextAt
<1>5. ContextAt(n) \in Nat /\ ContextAt(n) >= 1
  <2>1. CASE n = 0
    BY <2>1 DEF ContextAt
  <2>2. CASE n # 0
    <3>1. n \in DOMAIN frames
      BY <1>2, <2>2
    <3>2. frames[n].context \in Nat /\ frames[n].context >= 1
      BY <1>3, <3>1, HereIsLast DEF Placed
    <3>3. QED
      BY <2>2, <3>2 DEF ContextAt
  <2>3. QED
    BY <2>1, <2>2
<1>6. PICK m \in Nat : m = ContextAt(n)
  BY <1>5
<1>7. /\ contexts' \in Seq(Seq(Components)) /\ Len(contexts') = m /\ DOMAIN contexts' = 1 .. m
      /\ m <= Len(contexts)
      /\ \A x \in 1 .. m : contexts'[x] = contexts[x]
  <2>1. CASE frames[n + 1].own
    <3>1. frames[n + 1].context = m + 1
      <4>1. n + 1 \in DOMAIN frames /\ (n + 1) - 1 = n
        BY <1>2
      <4>2. frames[n + 1].context = ContextAt((n + 1) - 1) + 1
        BY <1>3, <2>1, <4>1 DEF Placed
      <4>3. QED
        BY <1>6, <4>1, <4>2
    <3>2. contexts' = Front(contexts) /\ contexts # <<>>
      BY <1>2, <1>3, <2>1, HereIsLast DEF LeaveCall
    <3>3. contexts \in Seq(Seq(Components)) /\ Len(contexts) = m + 1
      BY <1>3, <3>1, HereIsLast
    <3>4. /\ Front(contexts) \in Seq(Seq(Components))
          /\ Len(Front(contexts)) = Len(contexts) - 1
          /\ DOMAIN Front(contexts) = 1 .. Len(contexts) - 1
          /\ \A i \in 1 .. Len(contexts) - 1 : Front(contexts)[i] = contexts[i]
      BY <3>2, <3>3, FrontIsSeq
    <3>5. Len(contexts) - 1 = m
      BY <3>3
    <3>6. QED
      BY <3>2, <3>3, <3>4, <3>5
  <2>2. CASE ~frames[n + 1].own
    <3>1. frames[n + 1].context = m
      BY <1>2, <1>3, <1>6, <2>2 DEF Placed
    <3>2. contexts' = contexts
      BY <1>2, <2>2 DEF LeaveCall
    <3>3. QED
      BY <1>3, <3>1, <3>2, HereIsLast
  <2>3. QED
    BY <2>1, <2>2
<1>8. CallsTypeOK'
  BY <1>2, <1>3, <1>5, <1>6, <1>7 DEF CallsTypeOK, LeaveCall, Results
<1>9. Placed'
  <2>1. \A i \in 1 .. n : ContextAt(i - 1)' = ContextAt(i - 1)
    BY <1>2 DEF ContextAt
  <2>2. Len(contexts') = ContextAt(Len(frames))'
    BY <1>2, <1>4, <1>6, <1>7
  <2>3. \A i \in 1 .. n + 1 :
           frames[i].context = IF frames[i].own THEN ContextAt(i - 1) + 1 ELSE ContextAt(i - 1)
    BY <1>2, <1>3 DEF Placed
  <2>4. \A i \in DOMAIN frames' :
           frames'[i].context = IF frames'[i].own THEN ContextAt(i - 1)' + 1 ELSE ContextAt(i - 1)'
    BY <1>2, <2>1, <2>3
  <2>5. \A i, j \in DOMAIN frames' : i <= j => frames'[i].context <= frames'[j].context
    BY <1>2, <1>3 DEF Placed
  <2>6. \A i \in DOMAIN frames' : frames'[i].context >= 1
    BY <1>2, <1>3 DEF Placed
  <2>7. QED
    BY <2>2, <2>4, <2>5, <2>6 DEF Placed
<1>10. Stacked'
  <2> SUFFICES ASSUME NEW i \in DOMAIN frames', NEW x \in DOMAIN contexts', x >= frames'[i].context
               PROVE  /\ i <= Len(contexts'[x])
                      /\ \E k \in DOMAIN contexts'[x] : contexts'[x][k] = frames'[i].component
    BY DEF Stacked
  <2>1. i \in DOMAIN frames /\ frames'[i] = frames[i]
    BY <1>2
  <2>2. x \in DOMAIN contexts /\ contexts'[x] = contexts[x]
    BY <1>7, HereIsLast
  <2>3. QED
    BY <1>3, <2>1, <2>2 DEF Stacked
<1>11. Nested'
  BY <1>2, <1>3 DEF Nested
<1>12. Exact'
  <2> SUFFICES ASSUME ~shared'
               PROVE  /\ ~undeserved'
                      /\ Len(contexts') = Len(frames') + 1
                      /\ \A i \in DOMAIN frames' : frames'[i].own
                      /\ \A x \in DOMAIN contexts' :
                            /\ Len(contexts'[x]) = x - 1
                            /\ \A k \in DOMAIN contexts'[x] : contexts'[x][k] = frames'[k].component
    BY DEF Exact
  <2>1. ~shared /\ undeserved' = undeserved
    BY DEF LeaveCall
  <2>2. /\ ~undeserved /\ Len(contexts) = n + 2
        /\ \A i \in 1 .. n + 1 : frames[i].own
        /\ \A x \in DOMAIN contexts :
              /\ Len(contexts[x]) = x - 1
              /\ \A k \in DOMAIN contexts[x] : contexts[x][k] = frames[k].component
    BY <1>2, <1>3, <2>1 DEF Exact
  <2>3. m = n + 1
    <3>1. n + 1 \in DOMAIN frames /\ (n + 1) - 1 = n
      BY <1>2
    <3>2. frames[n + 1].context = m + 1
      BY <1>2, <1>3, <1>6, <2>2, <3>1 DEF Placed
    <3>3. Len(contexts) = frames[n + 1].context /\ Len(contexts) = n + 2
      BY <1>3, <2>2
    <3>4. n + 2 = m + 1
      BY <3>2, <3>3
    <3>5. QED
      BY <3>4
  <2>4. \A x \in 1 .. m : x \in DOMAIN contexts
    BY <1>7, HereIsLast
  <2>5. ASSUME NEW x \in DOMAIN contexts'
        PROVE  /\ Len(contexts'[x]) = x - 1
               /\ \A k \in DOMAIN contexts'[x] : contexts'[x][k] = frames'[k].component
    <3>1. x \in DOMAIN contexts /\ contexts'[x] = contexts[x] /\ x \in 1 .. n + 1
      BY <1>7, <2>3, <2>4
    <3>2. Len(contexts[x]) = x - 1 /\ DOMAIN contexts[x] = 1 .. Len(contexts[x])
      BY <2>2, <3>1, HereIsLast
    <3>3. \A k \in DOMAIN contexts[x] : k \in 1 .. n
      BY <3>1, <3>2
    <3>4. QED
      BY <1>2, <2>2, <3>1, <3>2, <3>3
  <2>6. \A i \in DOMAIN frames' : frames'[i].own
    BY <1>2, <2>2
  <2>7. QED
    BY <1>2, <1>7, <2>1, <2>2, <2>3, <2>5, <2>6
<1>13. QED
  BY <1>8, <1>9, <1>10, <1>11, <1>12 DEF CallInv

\* Only the call of a component that is under way, or one too deep, is refused,
\* unless contexts were shared.
LEMMA RefusalIsDeserved ==
    ASSUME CallInv, NEW c \in Components,
           c \in ToSet(contexts[Here]) \/ Len(contexts[Here]) >= MaxDepth,
           undeserved' = (undeserved \/ ~(Calling(c) \/ Len(frames) >= MaxDepth)),
           UNCHANGED shared
    PROVE  ~shared' => ~undeserved'
<1> SUFFICES ASSUME ~shared PROVE Calling(c) \/ Len(frames) >= MaxDepth
  BY DEF CallInv, Exact
<1>1. /\ Len(contexts) = Len(frames) + 1
      /\ \A x \in DOMAIN contexts :
            /\ Len(contexts[x]) = x - 1
            /\ \A n \in DOMAIN contexts[x] : contexts[x][n] = frames[n].component
  BY DEF CallInv, Exact
<1>2. /\ Here \in DOMAIN contexts /\ Here = Len(contexts) /\ Len(frames) \in Nat
      /\ DOMAIN contexts[Here] = 1 .. Len(contexts[Here]) /\ DOMAIN frames = 1 .. Len(frames)
  BY HereIsLast
<1>3. Len(contexts[Here]) = Len(frames)
  BY <1>1, <1>2
<1>4. CASE c \in ToSet(contexts[Here])
  <2>1. PICK n \in DOMAIN contexts[Here] : contexts[Here][n] = c
    BY <1>4 DEF ToSet
  <2>2. n \in DOMAIN frames /\ frames[n].component = c
    BY <1>1, <1>2, <1>3, <2>1
  <2>3. QED
    BY <2>2 DEF Calling
<1>5. QED
  BY <1>3, <1>4

\* A call that is entered.
LEMMA EnterKeeps ==
    ASSUME CallInv, NEW kind \in CallKinds, NEW c \in Components, NEW share \in BOOLEAN,
           EnterCall(kind, c, share), UNCHANGED <<cancelled, outcome>>,
           inLoop' \in BOOLEAN, calls' \in Nat, cutShort' \in BOOLEAN
    PROVE  CallInv'
<1>1. PICK top : top = contexts[Here]
  OBVIOUS
<1>2. /\ top \in Seq(Components) /\ DOMAIN top = 1 .. Len(top) /\ Len(top) \in Nat
      /\ Placed /\ Stacked /\ Nested /\ Exact /\ CallsTypeOK
  BY <1>1, HereIsLast DEF CallInv
<1>3. CASE c \in ToSet(top) \/ Len(top) >= MaxDepth
  <2>1. /\ UNCHANGED <<frames, contexts, shared>> /\ node' = "failed"
        /\ undeserved' = (undeserved \/ ~(Calling(c) \/ Len(frames) >= MaxDepth))
    BY <1>1, <1>3 DEF EnterCall
  <2>2. ~shared' => ~undeserved'
    BY <1>1, <1>3, <2>1, RefusalIsDeserved
  <2>3. undeserved' \in BOOLEAN
    BY <2>1
  <2>4. CallsTypeOK'
    BY <1>2, <2>1, <2>3 DEF CallsTypeOK, Results
  <2>5. Placed' /\ Stacked' /\ Nested'
    BY <1>2, <2>1 DEF Placed, Stacked, Nested, ContextAt
  <2>6. Exact'
    BY <1>2, <2>1, <2>2 DEF Exact
  <2>7. QED
    BY <2>4, <2>5, <2>6 DEF CallInv
<1>4. CASE c \notin ToSet(top) /\ Len(top) < MaxDepth
  <2>1. PICK n \in Nat : n = Len(frames)
    BY HereIsLast
  <2>2. PICK m \in Nat : m = Len(contexts)
    BY HereIsLast
  <2>3. PICK h : h = IF share THEN m ELSE m + 1
    OBVIOUS
  <2>4. /\ Here = m /\ m \in DOMAIN contexts /\ m >= 1 /\ DOMAIN contexts = 1 .. m
        /\ DOMAIN frames = 1 .. n /\ m = ContextAt(n) /\ h \in Nat
        /\ contexts \in Seq(Seq(Components)) /\ frames \in Seq(Frame)
    BY <2>1, <2>2, <2>3, HereIsLast
  <2>5. PICK frame : frame = [component |-> c, kind |-> kind, own |-> ~share, context |-> h]
    OBVIOUS
  <2>6. frame \in Frame
    BY <2>4, <2>5 DEF Frame
  <2>7. frames' = Append(frames, frame)
    BY <1>1, <1>3, <1>4, <2>2, <2>3, <2>4, <2>5 DEF EnterCall
  <2>8. /\ frames' \in Seq(Frame) /\ Len(frames') = n + 1 /\ DOMAIN frames' = 1 .. n + 1
        /\ \A i \in 1 .. n : frames'[i] = frames[i]
        /\ frames'[n + 1] = frame
    BY <2>1, <2>4, <2>6, <2>7, AppendIsSeq
  <2>9. PICK longer : longer = Append(top, c)
    OBVIOUS
  <2>10. /\ longer \in Seq(Components) /\ Len(longer) = Len(top) + 1
         /\ DOMAIN longer = 1 .. Len(top) + 1
         /\ \A i \in 1 .. Len(top) : longer[i] = top[i]
         /\ longer[Len(top) + 1] = c
    BY <1>2, <2>9, AppendIsSeq
  <2>11. /\ contexts' \in Seq(Seq(Components)) /\ Len(contexts') = h /\ DOMAIN contexts' = 1 .. h
         /\ contexts'[h] = longer
         /\ \A x \in 1 .. h - 1 : x \in 1 .. m /\ contexts'[x] = contexts[x]
    <3>1. CASE share
      <4>1. contexts' = [contexts EXCEPT ![m] = longer]
        BY <1>1, <1>4, <2>4, <2>9, <3>1 DEF EnterCall, Extended
      <4>2. QED
        BY <2>2, <2>3, <2>4, <2>10, <3>1, <4>1
    <3>2. CASE ~share
      <4>1. contexts' = Append(contexts, longer)
        BY <1>1, <1>4, <2>9, <3>2 DEF EnterCall, Extended
      <4>2. QED
        BY <2>2, <2>3, <2>4, <2>10, <3>2, <4>1
    <3>3. QED
      BY <3>1, <3>2
  <2>12. /\ node' = node /\ undeserved' = undeserved /\ shared' = (shared \/ share)
    BY <1>1, <1>4 DEF EnterCall
  <2>13. CallsTypeOK'
    BY <1>2, <2>3, <2>4, <2>8, <2>11, <2>12 DEF CallsTypeOK
  <2>14. \A i \in 1 .. n : /\ frames[i].context \in Nat /\ frames[i].context <= m
                           /\ frames[i].context >= 1 /\ i <= Len(top)
                           /\ \E k \in DOMAIN top : top[k] = frames[i].component
    BY <1>1, <1>2, <2>2, <2>4, HereIsLast DEF Placed, Stacked
  <2>15. Placed'
    <3>1. \A i \in 1 .. n + 1 : ContextAt(i - 1)' = ContextAt(i - 1)
      BY <2>8 DEF ContextAt
    <3>2. ContextAt(n + 1)' = h /\ Len(contexts') = h
      BY <2>5, <2>8, <2>11 DEF ContextAt
    <3>3. \A i \in 1 .. n :
             frames[i].context = IF frames[i].own THEN ContextAt(i - 1) + 1 ELSE ContextAt(i - 1)
      BY <1>2, <2>4 DEF Placed
    <3>4. frame.context = IF frame.own THEN ContextAt(n) + 1 ELSE ContextAt(n)
      BY <2>3, <2>4, <2>5
    <3>5. ContextAt((n + 1) - 1)' = ContextAt(n)
      BY <3>1
    <3>6. \A i \in DOMAIN frames' :
             frames'[i].context = IF frames'[i].own THEN ContextAt(i - 1)' + 1
                                  ELSE ContextAt(i - 1)'
      BY <2>8, <3>1, <3>3, <3>4, <3>5
    <3>7. ASSUME NEW i \in DOMAIN frames' PROVE frames'[i].context >= 1
      <4>1. CASE i \in 1 .. n
        BY <2>8, <2>14, <4>1
      <4>2. CASE i = n + 1
        BY <2>3, <2>4, <2>5, <2>8, <4>2
      <4>3. QED
        BY <2>8, <4>1, <4>2
    <3>8. ASSUME NEW i \in DOMAIN frames', NEW j \in DOMAIN frames', i <= j
          PROVE  frames'[i].context <= frames'[j].context
      <4>1. CASE j = n + 1
        <5>1. frames'[j].context = h /\ h >= m
          BY <2>2, <2>3, <2>5, <2>8, <4>1
        <5>2. CASE i = n + 1
          BY <2>4, <4>1, <5>1, <5>2
        <5>3. CASE i # n + 1
          <6>1. i \in 1 .. n
            BY <2>8, <5>3
          <6>2. frames'[i].context \in Nat /\ frames'[i].context <= m
            BY <2>8, <2>14, <6>1
          <6>3. QED
            BY <2>4, <5>1, <6>2
        <5>4. QED
          BY <5>2, <5>3
      <4>2. CASE j # n + 1
        <5>1. i \in 1 .. n /\ j \in 1 .. n
          BY <2>8, <3>8, <4>2
        <5>2. frames[i].context <= frames[j].context
          BY <1>2, <2>4, <3>8, <5>1 DEF Placed
        <5>3. QED
          BY <2>8, <5>1, <5>2
      <4>3. QED
        BY <4>1, <4>2
    <3>9. QED
      BY <2>8, <3>2, <3>6, <3>7, <3>8 DEF Placed
  <2>16. Stacked'
    <3> SUFFICES ASSUME NEW i \in DOMAIN frames', NEW x \in DOMAIN contexts',
                        x >= frames'[i].context
                 PROVE  /\ i <= Len(contexts'[x])
                        /\ \E k \in DOMAIN contexts'[x] : contexts'[x][k] = frames'[i].component
      BY DEF Stacked
    <3>1. CASE x = h /\ i = n + 1
      <4>1. n <= Len(top)
        BY <1>2, <2>14
      <4>2. Len(top) + 1 \in DOMAIN longer
        BY <1>2, <2>10
      <4>3. contexts'[x] = longer /\ frames'[i].component = c
        BY <2>5, <2>8, <2>11, <3>1
      <4>4. n + 1 <= Len(longer) /\ longer[Len(top) + 1] = c
        BY <1>2, <2>10, <4>1
      <4>5. QED
        BY <3>1, <4>2, <4>3, <4>4
    <3>2. CASE x = h /\ i # n + 1
      <4>1. i \in 1 .. n /\ frames'[i] = frames[i]
        BY <2>8, <3>2
      <4>2. PICK k \in DOMAIN top : top[k] = frames[i].component
        BY <2>14, <4>1
      <4>3. k \in DOMAIN longer /\ longer[k] = frames[i].component
        BY <1>2, <2>10, <4>2
      <4>4. i <= Len(longer)
        BY <1>2, <2>10, <2>14, <4>1
      <4>5. QED
        BY <2>11, <3>2, <4>1, <4>3, <4>4
    <3>3. CASE x # h
      <4>1. x \in DOMAIN contexts /\ contexts'[x] = contexts[x] /\ x < h
        <5>1. x \in 1 .. h
          BY <2>11
        <5>2. x \in 1 .. h - 1
          BY <2>4, <3>3, <5>1
        <5>3. QED
          BY <2>4, <2>11, <5>2
      <4>2. i # n + 1
        <5>1. frame.context = h
          BY <2>5
        <5>2. QED
          BY <2>4, <2>8, <4>1, <5>1
      <4>3. i \in DOMAIN frames /\ frames'[i] = frames[i]
        BY <2>4, <2>8, <4>2
      <4>4. QED
        BY <1>2, <4>1, <4>3 DEF Stacked
    <3>4. QED
      BY <3>1, <3>2, <3>3
  <2>17. Nested'
    <3>1. n + 1 <= MaxDepth
      <4>1. n <= Len(top)
        BY <1>2, <2>14
      <4>2. QED
        BY <1>2, <1>4, <4>1
    <3>2. \A i \in 1 .. n : frames[i].component # c
      BY <1>4, <2>14 DEF ToSet
    <3>3. \A i, j \in 1 .. n : frames[i].component = frames[j].component => i = j
      BY <1>2, <2>4 DEF Nested
    <3>4. QED
      BY <2>5, <2>8, <3>1, <3>2, <3>3 DEF Nested
  <2>18. Exact'
    <3> SUFFICES ASSUME ~shared'
                 PROVE  /\ ~undeserved'
                        /\ Len(contexts') = Len(frames') + 1
                        /\ \A i \in DOMAIN frames' : frames'[i].own
                        /\ \A x \in DOMAIN contexts' :
                              /\ Len(contexts'[x]) = x - 1
                              /\ \A k \in DOMAIN contexts'[x] :
                                    contexts'[x][k] = frames'[k].component
      BY DEF Exact
    <3>1. ~shared /\ ~share
      BY <2>12
    <3>2. /\ ~undeserved /\ m = n + 1
          /\ \A i \in 1 .. n : frames[i].own
          /\ \A x \in 1 .. m :
                /\ Len(contexts[x]) = x - 1
                /\ \A k \in DOMAIN contexts[x] : contexts[x][k] = frames[k].component
      BY <1>2, <2>1, <2>2, <2>4, <3>1 DEF Exact
    <3>3. h = m + 1
      BY <2>3, <3>1
    <3>4. ASSUME NEW x \in 1 .. m
          PROVE  /\ Len(contexts'[x]) = x - 1
                 /\ \A k \in DOMAIN contexts'[x] : contexts'[x][k] = frames'[k].component
      <4>1. contexts'[x] = contexts[x] /\ DOMAIN contexts[x] = 1 .. Len(contexts[x])
        <5>1. x \in 1 .. h - 1 /\ x \in DOMAIN contexts
          BY <2>4, <3>3
        <5>2. QED
          BY <2>11, <5>1, HereIsLast
      <4>2. \A k \in DOMAIN contexts[x] : k \in 1 .. n
        BY <3>2, <4>1
      <4>3. QED
        BY <2>8, <3>2, <4>1, <4>2
    <3>5. Len(longer) = n + 1 /\ \A k \in DOMAIN longer : longer[k] = frames'[k].component
      <4>1. Len(top) = n /\ \A k \in 1 .. n : top[k] = frames[k].component
        <5>1. top = contexts[m] /\ m \in 1 .. m
          BY <1>1, <2>4
        <5>2. Len(top) = m - 1 /\ \A k \in DOMAIN top : top[k] = frames[k].component
          BY <3>2, <5>1
        <5>3. m - 1 = n
          BY <3>2
        <5>4. Len(top) = n
          BY <5>2, <5>3
        <5>5. DOMAIN top = 1 .. n
          BY <1>2, <5>4
        <5>6. QED
          BY <5>2, <5>4, <5>5
      <4>2. frames'[n + 1].component = c
        BY <2>5, <2>8
      <4>3. QED
        BY <2>8, <2>10, <4>1, <4>2
    <3>6. \A x \in DOMAIN contexts' :
             /\ Len(contexts'[x]) = x - 1
             /\ \A k \in DOMAIN contexts'[x] : contexts'[x][k] = frames'[k].component
      <4> SUFFICES ASSUME NEW x \in DOMAIN contexts'
                   PROVE  /\ Len(contexts'[x]) = x - 1
                          /\ \A k \in DOMAIN contexts'[x] :
                                contexts'[x][k] = frames'[k].component
        OBVIOUS
      <4>1. CASE x = h
        <5>1. contexts'[x] = longer /\ x = n + 2
          BY <2>11, <3>2, <3>3, <4>1
        <5>2. QED
          BY <3>5, <5>1
      <4>2. CASE x # h
        <5>1. x \in 1 .. m
          BY <2>11, <3>3, <4>2
        <5>2. QED
          BY <3>4, <5>1
      <4>3. QED
        BY <4>1, <4>2
    <3>7. \A i \in DOMAIN frames' : frames'[i].own
      <4>1. frame.own
        BY <2>5, <3>1
      <4>2. \A i \in DOMAIN frames' : i = n + 1 \/ i \in 1 .. n
        BY <2>8
      <4>3. QED
        BY <2>8, <3>2, <4>1, <4>2
    <3>8. QED
      BY <2>8, <2>11, <2>12, <3>2, <3>3, <3>6, <3>7
  <2>19. QED
    BY <2>13, <2>15, <2>16, <2>17, <2>18 DEF CallInv
<1>5. QED
  BY <1>2, <1>3, <1>4

LEMMA CallInvInit == CallsInit => CallInv
<1> SUFFICES ASSUME CallsInit PROVE CallInv
  OBVIOUS
<1>1. /\ frames = <<>> /\ contexts = << <<>> >> /\ Len(frames) = 0 /\ Len(contexts) = 1
      /\ DOMAIN frames = {} /\ DOMAIN contexts = {1} /\ contexts[1] = <<>>
  BY DEF CallsInit
<1>2. CallsTypeOK
  <2>1. <<>> \in Seq(Components)
    OBVIOUS
  <2>2. << <<>> >> \in Seq(Seq(Components))
    BY <2>1
  <2>3. /\ node \in Results \cup {"ready"} /\ calls \in Nat
        /\ outcome \in {"running", "completed", "failed", "aborted"}
        /\ inLoop = FALSE /\ cancelled = FALSE /\ shared = FALSE /\ undeserved = FALSE
        /\ cutShort = FALSE
    BY DEF CallsInit
  <2>4. frames \in Seq(Frame)
    BY <1>1
  <2>5. contexts \in Seq(Seq(Components))
    BY <2>2 DEF CallsInit
  <2>6. Len(contexts) > 0
    BY <1>1
  <2>7. QED
    BY ONLY <2>3, <2>4, <2>5, <2>6 DEF CallsTypeOK
<1>3. Placed /\ Stacked
  BY <1>1 DEF Placed, Stacked, ContextAt
<1>4. Nested
  BY <1>1 DEF Nested
<1>5. Exact
  BY <1>1 DEF Exact, CallsInit
<1>6. QED
  BY <1>2, <1>3, <1>4, <1>5 DEF CallInv

\* What a step that leaves the calls alone keeps.
LEMMA RestKeeps ==
    ASSUME CallInv, UNCHANGED <<frames, contexts, shared, undeserved>>, CallsTypeOK'
    PROVE  CallInv'
<1>1. /\ frames' = frames /\ contexts' = contexts /\ shared' = shared /\ undeserved' = undeserved
      /\ Placed /\ Stacked /\ Nested /\ Exact
  BY DEF CallInv
<1>2. Placed'
  BY <1>1 DEF Placed, ContextAt
<1>3. Stacked'
  BY <1>1 DEF Stacked
<1>4. Nested' /\ Exact'
  BY <1>1 DEF Nested, Exact
<1>5. QED
  BY <1>2, <1>3, <1>4 DEF CallInv

LEMMA CallInvStep == CallInv /\ [CallsNext]_callVars => CallInv'
<1> SUFFICES ASSUME CallInv, [CallsNext]_callVars PROVE CallInv'
  OBVIOUS
<1>0. CallsTypeOK
  BY DEF CallInv
<1>1. CASE RunPlainNode
  <2>1. cancelled' \in BOOLEAN /\ cutShort' \in BOOLEAN /\ UNCHANGED <<inLoop, outcome>>
    BY <1>0, <1>1 DEF RunPlainNode, RunsNode, CallsTypeOK
  <2>2. node' \in Results
    <3>1. CASE cancelled'
      BY <1>1, <3>1 DEF RunPlainNode
    <3>2. CASE ~cancelled'
      BY <1>1, <3>2 DEF RunPlainNode, Results
    <3>3. QED
      BY <3>1, <3>2
  <2>3. UNCHANGED <<frames, contexts, calls, shared, undeserved>>
    BY <1>1 DEF RunPlainNode
  <2>4. CallsTypeOK'
    BY <1>0, <2>1, <2>2, <2>3 DEF CallsTypeOK
  <2>5. QED
    BY <2>3, <2>4, RestKeeps
<1>2. CASE \/ ComponentEnds \/ ComponentBreaks
           \/ LoopFails \/ JumpMisses \/ LoopCancelledInside
  <2>1. cutShort' \in BOOLEAN
    BY <1>0, <1>2 DEF ComponentEnds, ComponentBreaks, LoopFails, JumpMisses, LoopCancelledInside,
                      CallsTypeOK
  <2>2. QED
    BY <1>2, <2>1, LeaveKeeps
       DEF ComponentEnds, ComponentBreaks, NodeSucceeded, LoopFails, JumpMisses,
           LoopCancelledInside
<1>3. CASE NextNode \/ RequestCancel
  BY <1>0, <1>3, RestKeeps DEF NextNode, NodeSucceeded, RequestCancel, CallsTypeOK
<1>4. CASE SessionNodeEnds
  BY <1>0, <1>4, RestKeeps DEF SessionNodeEnds, Verdict, CallsTypeOK, Results
<1>9. CASE \/ SessionEnds \/ LoopCancelled \/ StepsRunOut \/ NodeUnfit \/ ForeachFails
           \/ SessionJumpMisses
  BY <1>0, <1>9, RestKeeps DEF SessionEnds, LoopCancelled, StepsRunOut, NodeUnfit, ForeachFails,
                               SessionJumpMisses, Ends, CallsTypeOK
<1>5. ASSUME NEW c \in Components, NEW share \in BOOLEAN, NEW kind \in CallKinds,
             RunsNode, Counted, Misfit \/ EnterCall(kind, c, share)
      PROVE  CallInv'
  <2>1. /\ calls' \in Nat /\ inLoop' \in BOOLEAN /\ cutShort' \in BOOLEAN
        /\ UNCHANGED <<cancelled, outcome>>
    BY <1>0, <1>5 DEF Counted, RunsNode, CallsTypeOK
  <2>2. CASE Misfit
    BY <1>0, <2>1, <2>2, RestKeeps DEF Misfit, CallsTypeOK, Results
  <2>3. CASE EnterCall(kind, c, share)
    BY <2>1, <2>3, EnterKeeps
  <2>4. QED
    BY <1>5, <2>2, <2>3
<1>6. CASE \E c \in Components, share \in BOOLEAN :
             \/ CallComponent(c, share) \/ CallCustom(c, share)
             \/ CallBlueprint(c, share) \/ CallSubgraph(c, share)
  BY <1>5, <1>6 DEF CallComponent, CallCustom, CallBlueprint, CallSubgraph, CallKinds
<1>7. CASE UNCHANGED callVars
  BY <1>0, <1>7, RestKeeps DEF callVars, CallsTypeOK
<1>8. QED
  BY <1>1, <1>2, <1>3, <1>4, <1>6, <1>7, <1>9 DEF CallsNext

\* However calls are nested, with a context of their own or their caller's, no
\* component is inside itself, none is deeper than the limit, and without shared
\* contexts none is refused that is not so (ComponentCalls.tla).
THEOREM CallsAlwaysNest == CallsSpec => []CallsNest
<1>1. CallInv => CallsNest
  BY DEF CallInv, Nested, Exact, CallsNest
<1>2. QED
  BY <1>1, CallInvInit, CallInvStep, PTL DEF CallsSpec

\* The types of the calls (ComponentCalls.tla).
THEOREM CallsTypes == CallsSpec => []CallsTypeOK
<1>1. CallInv => CallsTypeOK
  BY DEF CallInv
<1>2. QED
  BY <1>1, CallInvInit, CallInvStep, PTL DEF CallsSpec

\* A node that was cut short is the last one of its session to run, and on the
\* way out of the calls it was in the session stays cancelled.
CutInv ==
    cutShort => /\ cancelled
                /\ outcome = "running" => node \in {"failed", "cancelled"}
                /\ ~inLoop => outcome \in {"running", "aborted"}

\* A session of which a cancellation cut a node short ends as aborted, however
\* deep in its calls the node was (ComponentCalls.tla).
THEOREM CutShortIsAborted == CallsSpec => []CutShortAborts
<1>1. CallsInit => CutInv
  BY DEF CallsInit, CutInv
<1>2. CutInv /\ [CallsNext]_callVars => CutInv'
  <2> SUFFICES ASSUME CutInv, [CallsNext]_callVars PROVE CutInv'
    OBVIOUS
  <2>1. CASE RunPlainNode
    BY <2>1 DEF RunPlainNode, RunsNode, CutInv
  <2>2. CASE ComponentEnds \/ LoopFails \/ JumpMisses \/ NextNode
    BY <2>2 DEF ComponentEnds, LoopFails, JumpMisses, NextNode, NodeSucceeded, LeaveCall, CutInv
  <2>3. CASE ComponentBreaks \/ LoopCancelledInside
    BY <2>3 DEF ComponentBreaks, LoopCancelledInside, LeaveCall, CutInv
  <2>4. CASE SessionNodeEnds
    BY <2>4 DEF SessionNodeEnds, Verdict, CutInv
  <2>5. CASE \/ SessionEnds \/ LoopCancelled \/ StepsRunOut \/ NodeUnfit \/ ForeachFails
             \/ SessionJumpMisses
    BY <2>5 DEF SessionEnds, LoopCancelled, StepsRunOut, NodeUnfit, ForeachFails,
                SessionJumpMisses, Ends, CutInv
  <2>6. CASE RequestCancel
    BY <2>6 DEF RequestCancel, CutInv
  <2>7. CASE RunsNode /\ Counted
    BY <2>7 DEF RunsNode, Counted, CutInv
  <2>8. CASE UNCHANGED callVars
    BY <2>8 DEF callVars, CutInv
  <2>9. QED
    BY <2>1, <2>2, <2>3, <2>4, <2>5, <2>6, <2>7, <2>8
       DEF CallsNext, CallComponent, CallCustom, CallBlueprint, CallSubgraph
<1>3. CutInv => CutShortAborts
  BY DEF CutInv, CutShortAborts
<1>4. QED
  BY <1>1, <1>2, <1>3, PTL DEF CallsSpec

\* Calls are nested as they should be, and what a cancellation cut short is
\* reported as aborted (ComponentCalls.tla).
THEOREM CallsStaySound == CallsSpec => []CallsAreSound
<1>1. CallsNest /\ CutShortAborts => CallsAreSound
  BY DEF CallsAreSound
<1>2. QED
  BY <1>1, CallsAlwaysNest, CutShortIsAborted, PTL

---------------------------------------------------------------------------
(* NetworkSession: a cancellation leaves nothing open.                   *)

USE NetworkAssumption

-----------------------------------------------------------------------------
(* Callbacks.                                                              *)

LEMMA FirstIsThere == ASSUME NEW S, NEW s \in Seq(S), s # <<>>
    PROVE  /\ Head(s) = s[1] /\ Head(s) \in S /\ Tail(s) \in Seq(S)
           /\ 1 \in DOMAIN s /\ Len(s) \in Nat /\ DOMAIN s = 1 .. Len(s)
           /\ Len(Tail(s)) = Len(s) - 1 /\ DOMAIN Tail(s) = 1 .. Len(s) - 1
           /\ \A i \in 1 .. Len(s) - 1 : Tail(s)[i] = s[i + 1]
  OBVIOUS

LEMMA EmptyHasNone == ASSUME NEW s, s = <<>> PROVE Len(s) = 0
  OBVIOUS

LEMMA FrontIsThere ==
    ASSUME NEW S, NEW s \in Seq(S), s # <<>>
    PROVE  /\ Front(s) \in Seq(S) /\ DOMAIN Front(s) = 1 .. Len(s) - 1
           /\ \A i \in 1 .. Len(s) - 1 : Front(s)[i] = s[i]
           /\ Last(s) = s[Len(s)] /\ DOMAIN s = 1 .. Len(s) /\ Len(s) \in Nat
<1>1. Len(s) \in Nat /\ Len(s) >= 1 /\ DOMAIN s = 1 .. Len(s)
  OBVIOUS
<1>2. PICK n \in Nat : n = Len(s) - 1
  <2>1. Len(s) - 1 \in Nat
    BY <1>1
  <2>2. QED
    BY <2>1
<1>3. Front(s) = SubSeq(s, 1, n)
  BY <1>2 DEF Front
<1>4. Front(s) \in Seq(S) /\ Len(Front(s)) = n /\ \A i \in 1 .. n : Front(s)[i] = s[i]
  BY <1>1, <1>2, <1>3
<1>5. QED
  BY <1>1, <1>2, <1>4 DEF Last

Has(list, kind, c) == \E i \in DOMAIN list : list[i] = [kind |-> kind, context |-> c]

\* The rest of the callbacks has all but what the first one is for.
LEMMA TailHas ==
    ASSUME NEW list \in Seq(Callback), list # <<>>, NEW kind, NEW c, Has(list, kind, c),
           Head(list) # [kind |-> kind, context |-> c]
    PROVE  Has(Tail(list), kind, c)
<1>1. PICK i \in DOMAIN list : list[i] = [kind |-> kind, context |-> c]
  BY DEF Has
<1>2. PICK j : j = i - 1
  OBVIOUS
<1>3. i # 1 /\ i \in 1 .. Len(list) /\ Len(list) \in Nat
  BY <1>1, FirstIsThere
<1>4. j \in 1 .. Len(list) - 1 /\ i = j + 1
  BY <1>2, <1>3
<1>5. j \in DOMAIN Tail(list) /\ Tail(list)[j] = list[i]
  BY <1>4, FirstIsThere
<1>6. QED
  BY <1>1, <1>5 DEF Has

\* A callback that is registered is there, and so are the others.
LEMMA AppendHas ==
    ASSUME NEW list \in Seq(Callback), NEW kind, NEW c, NEW x \in Callback
    PROVE  /\ Has(list, kind, c) => Has(Append(list, x), kind, c)
           /\ x = [kind |-> kind, context |-> c] => Has(Append(list, x), kind, c)
           /\ Append(list, x) \in Seq(Callback)
<1>1. PICK longer : longer = Append(list, x)
  OBVIOUS
<1>2. /\ longer \in Seq(Callback) /\ DOMAIN longer = 1 .. Len(list) + 1
      /\ DOMAIN list = 1 .. Len(list) /\ Len(list) \in Nat
      /\ \A i \in 1 .. Len(list) : longer[i] = list[i]
      /\ longer[Len(list) + 1] = x
  BY <1>1
<1>3. Has(list, kind, c) => Has(longer, kind, c)
  BY <1>2 DEF Has
<1>4. x = [kind |-> kind, context |-> c] => Has(longer, kind, c)
  <2>1. Len(list) + 1 \in DOMAIN longer
    BY <1>2
  <2>2. QED
    BY <1>2, <2>1 DEF Has
<1>5. QED
  BY <1>1, <1>2, <1>3, <1>4

\* Taking back the callback of a request takes no other.
LEMMA UnregisterHas ==
    ASSUME callbacks \in Seq(Callback), Unregister
    PROVE  /\ callbacks' \in Seq(Callback)
           /\ \A c : Has(callbacks, "service", c) => Has(callbacks', "service", c)
<1>1. CASE callbacks' = callbacks
  BY <1>1
<1>2. CASE /\ callbacks # <<>> /\ Last(callbacks) = [kind |-> "request", context |-> here]
           /\ callbacks' = Front(callbacks)
  <2>1. callbacks' \in Seq(Callback)
    BY <1>2, FrontIsThere
  <2>2. ASSUME NEW c, Has(callbacks, "service", c) PROVE Has(callbacks', "service", c)
    <3>1. PICK i \in DOMAIN callbacks : callbacks[i] = [kind |-> "service", context |-> c]
      BY <2>2 DEF Has
    <3>2. /\ DOMAIN callbacks = 1 .. Len(callbacks) /\ Len(callbacks) \in Nat
          /\ callbacks[Len(callbacks)].kind = "request"
      BY <1>2, FrontIsThere
    <3>3. callbacks[i].kind = "service"
      BY <3>1
    <3>4. i # Len(callbacks)
      BY <3>2, <3>3
    <3>5. i \in 1 .. Len(callbacks) - 1
      BY <3>2, <3>4
    <3>6. i \in DOMAIN callbacks' /\ callbacks'[i] = callbacks[i]
      BY <1>2, <3>5, FrontIsThere
    <3>7. QED
      BY <3>1, <3>6 DEF Has
  <2>3. QED
    BY <2>1, <2>2
<1>3. QED
  BY <1>1, <1>2 DEF Unregister

-----------------------------------------------------------------------------
(* Types.                                                                  *)

\* A request that is passed to its loop has a number, and a service.
Under ==
    /\ step = "submitting" => requests \in RequestIds
    /\ step \in {"starting", "submitting"} => service[here] # "none"
    /\ step \in {"starting", "started"} => subject \in Handles

TypeInv == NetworkTypeOK /\ Under

LEMMA WithCleanupType ==
    ASSUME NetworkTypeOK, NEW list \in Seq(Callback), NEW kind \in {"store", "service", "request"}
    PROVE  /\ WithCleanup(list, kind) \in Seq(Callback)
           /\ WithService(list) \in Seq(Callback)
           /\ WithStore(list) \in Seq(Callback)
<1>1. ASSUME NEW k \in {"store", "service", "request"}
      PROVE  WithCleanup(list, k) \in Seq(Callback)
  <2>1. [kind |-> k, context |-> here] \in Callback
    BY DEF Callback, NetworkTypeOK
  <2>2. QED
    BY <2>1 DEF WithCleanup
<1>2. QED
  BY <1>1 DEF WithService, WithStore

LEMMA ResolveType ==
    ASSUME NetworkTypeOK, Resolve
    PROVE  /\ service' \in [Contexts -> {"none", "open", "closed"}]
           /\ service'[here] # "none"
           /\ \A c \in Contexts : c # here => service'[c] = service[c]
           /\ service[here] # "none" => service'[here] = service[here]
           /\ service[here] = "none" => service'[here] = IF stopped THEN "closed" ELSE "open"
<1>1. here \in Contexts /\ service \in [Contexts -> {"none", "open", "closed"}]
  BY DEF NetworkTypeOK
<1>2. CASE service[here] # "none"
  BY <1>1, <1>2 DEF Resolve
<1>3. CASE service[here] = "none"
  <2>1. service' = [service EXCEPT ![here] = IF stopped THEN "closed" ELSE "open"]
    BY <1>3 DEF Resolve
  <2>2. QED
    BY <1>1, <1>3, <2>1
<1>4. QED
  BY <1>2, <1>3

LEMMA CloseHandlesType ==
    ASSUME NetworkTypeOK, NEW hs, CloseHandles(hs)
    PROVE  /\ handle' \in [Handles -> {"unused", "open", "closed"}]
           /\ \A h \in Handles : handle'[h] = IF h \in hs THEN "closed" ELSE handle[h]
  BY DEF NetworkTypeOK, CloseHandles

LEMMA CancelSessionType ==
    ASSUME NetworkTypeOK, NEW c \in Contexts, CancelSession(c)
    PROVE  /\ handle' \in [Handles -> {"unused", "open", "closed"}]
           /\ conns' \in [Contexts -> SUBSET Handles]
           /\ loopQueue' \in [Contexts -> Seq(Calls \cup {Cancels, Shuts})]
<1>1. handle' \in [Handles -> {"unused", "open", "closed"}]
  BY CloseHandlesType DEF CancelSession
<1>2. conns' \in [Contexts -> SUBSET Handles]
  BY DEF CancelSession, NetworkTypeOK
<1>3. loopQueue' \in [Contexts -> Seq(Calls \cup {Cancels, Shuts})]
  <2>1. Append(loopQueue[c], Cancels) \in Seq(Calls \cup {Cancels, Shuts})
    BY DEF NetworkTypeOK
  <2>2. QED
    BY <2>1 DEF CancelSession, NetworkTypeOK
<1>4. QED
  BY <1>1, <1>2, <1>3

LEMMA TypeInit == NetworkInit => TypeInv
<1> SUFFICES ASSUME NetworkInit PROVE TypeInv
  OBVIOUS
<1>1. 1 \in Contexts
  BY DEF Contexts
<1>2. /\ loopQueue \in [Contexts -> Seq(Calls \cup {Cancels, Shuts})]
      /\ callbacks \in Seq(Callback) /\ running \in Seq(Callback)
  BY DEF NetworkInit
<1>3. /\ here \in Contexts /\ entered \in Contexts /\ step = "idle"
      /\ subject \in Handles \cup {NoHandle} /\ requests \in 0 .. MaxWork
      /\ late \in SUBSET Handles /\ stopped = FALSE /\ phase \in 0 .. 1
  BY <1>1 DEF NetworkInit
<1>4. /\ service \in [Contexts -> {"none", "open", "closed"}]
      /\ conns \in [Contexts -> SUBSET Handles]
      /\ kept \in [Contexts -> SUBSET Handles]
      /\ watched \in [Contexts -> BOOLEAN]
      /\ handle \in [Handles -> {"unused", "open", "closed"}]
      /\ tasks \in [Contexts -> SUBSET RequestIds]
  BY DEF NetworkInit
<1>5. QED
  BY <1>2, <1>3, <1>4 DEF TypeInv, NetworkTypeOK, Under

\* The steps of the worker.
LEMMA WorkerTypes ==
    ASSUME TypeInv,
           \/ \E h \in Handles : Connect(h) \/ ReceiveMessage(h) \/ CloseConnection(h)
           \/ ConnectRefused \/ StartFails \/ RegisterConnection \/ Keep \/ Received
           \/ Request \/ Submit \/ RequestAnswered
           \/ EnterComponent \/ LeaveComponent
    PROVE  TypeInv'
<1>0. NetworkTypeOK /\ Under /\ here \in Contexts /\ callbacks \in Seq(Callback)
  BY DEF TypeInv, NetworkTypeOK
<1> USE DEF Free, NodeReturns, nodeVars, connVars, loopVars, cancelVars
<1>1. ASSUME NEW h \in Handles, Connect(h) PROVE TypeInv'
  <2>1. service' \in [Contexts -> {"none", "open", "closed"}] /\ service'[here] # "none"
    BY <1>0, <1>1, ResolveType DEF Connect
  <2>2. callbacks' \in Seq(Callback)
    BY <1>0, <1>1, WithCleanupType DEF Connect
  <2>3. watched' \in [Contexts -> BOOLEAN]
    BY <1>0, <1>1 DEF Connect, Watch, NetworkTypeOK
  <2>4. CASE service'[here] = "closed"
    BY <1>0, <1>1, <2>1, <2>2, <2>3, <2>4 DEF Connect, TypeInv, NetworkTypeOK, Under
  <2>5. CASE service'[here] # "closed"
    BY <1>0, <1>1, <2>1, <2>2, <2>3, <2>5 DEF Connect, TypeInv, NetworkTypeOK, Under
  <2>6. QED
    BY <2>4, <2>5
<1>2. ASSUME NEW h \in Handles, ReceiveMessage(h) PROVE TypeInv'
  BY <1>0, <1>2 DEF ReceiveMessage, TypeInv, NetworkTypeOK, Under
<1>3. ASSUME NEW h \in Handles, CloseConnection(h) PROVE TypeInv'
  <2>1. handle' \in [Handles -> {"unused", "open", "closed"}]
    BY <1>0, <1>3, CloseHandlesType DEF CloseConnection
  <2>2. QED
    BY <1>0, <1>3, <2>1 DEF CloseConnection, ReleaseConnections, TypeInv, NetworkTypeOK, Under
<1>4. CASE ConnectRefused
  <2>1. callbacks' \in Seq(Callback)
    BY <1>0, <1>4, WithCleanupType DEF ConnectRefused
  <2>2. QED
    BY <1>0, <1>4, <2>1 DEF ConnectRefused, Watch, TypeInv, NetworkTypeOK, Under
<1>5. CASE StartFails
  <2>1. handle' \in [Handles -> {"unused", "open", "closed"}]
    BY <1>0, <1>5, CloseHandlesType DEF StartFails
  <2>2. QED
    BY <1>0, <1>5, <2>1 DEF StartFails, TypeInv, NetworkTypeOK, Under
<1>6. CASE RegisterConnection
  <2>1. CASE service[here] = "closed"
    <3>1. handle' \in [Handles -> {"unused", "open", "closed"}]
      BY <1>0, <1>6, <2>1, CloseHandlesType DEF RegisterConnection
    <3>2. QED
      BY <1>0, <1>6, <2>1, <3>1 DEF RegisterConnection, TypeInv, NetworkTypeOK, Under
  <2>2. CASE service[here] # "closed"
    <3>1. subject \in Handles
      BY <1>0, <1>6 DEF RegisterConnection, NetworkTypeOK, Under
    <3>2. conns' \in [Contexts -> SUBSET Handles] /\ late' \in SUBSET Handles
      <4>1. /\ conns' = [conns EXCEPT ![here] = @ \cup {subject}]
            /\ late' = late \/ late' = late \cup {subject}
        BY <1>6, <2>2 DEF RegisterConnection
      <4>2. late \in SUBSET Handles /\ conns \in [Contexts -> SUBSET Handles]
        BY <1>0 DEF NetworkTypeOK
      <4>3. conns' \in [Contexts -> SUBSET Handles]
        BY <1>0, <3>1, <4>1, <4>2
      <4>4. late' \in SUBSET Handles
        BY <3>1, <4>1, <4>2
      <4>5. QED
        BY <4>3, <4>4
    <3>3. step' = "started" /\ UNCHANGED <<here, entered, subject, handle>>
      BY <1>6, <2>2 DEF RegisterConnection
    <3>4. QED
      BY <1>0, <1>6, <3>1, <3>2, <3>3 DEF RegisterConnection, TypeInv, NetworkTypeOK, Under
  <2>3. QED
    BY <2>1, <2>2
<1>7. CASE Keep
  <2>1. subject \in Handles
    BY <1>0, <1>7 DEF Keep, Under
  <2>2. handle' \in [Handles -> {"unused", "open", "closed"}]
    BY <1>0, <1>7, CloseHandlesType DEF Keep
  <2>3. conns' \in [Contexts -> SUBSET Handles] /\ kept' \in [Contexts -> SUBSET Handles]
    <3>1. CASE UNCHANGED <<conns, kept>>
      BY <1>0, <3>1 DEF NetworkTypeOK
    <3>2. ASSUME NEW earlier \in SUBSET Handles, ReleaseConnections(earlier),
                 kept' = [kept EXCEPT ![here] = (@ \ earlier) \cup {subject}]
          PROVE  conns' \in [Contexts -> SUBSET Handles] /\ kept' \in [Contexts -> SUBSET Handles]
      BY <1>0, <2>1, <3>2 DEF ReleaseConnections, NetworkTypeOK
    <3>3. {h \in kept[here] : SameKind(h, subject)} \in SUBSET Handles
      BY <1>0 DEF NetworkTypeOK
    <3>4. QED
      BY <1>7, <3>1, <3>2, <3>3 DEF Keep
  <2>4. QED
    BY <1>0, <1>7, <2>2, <2>3 DEF Keep, TypeInv, NetworkTypeOK, Under
<1>8. CASE Received
  BY <1>0, <1>8 DEF Received, TypeInv, NetworkTypeOK, Under
<1>9. CASE Request
  <2>1. service' \in [Contexts -> {"none", "open", "closed"}] /\ service'[here] # "none"
    BY <1>0, <1>9, ResolveType DEF Request
  <2>2. callbacks' \in Seq(Callback)
    BY <1>0, <1>9, WithCleanupType DEF Request
  <2>3. /\ handle' \in [Handles -> {"unused", "open", "closed"}]
        /\ conns' \in [Contexts -> SUBSET Handles]
        /\ loopQueue' \in [Contexts -> Seq(Calls \cup {Cancels, Shuts})]
    <3>1. CASE CancelSession(here)
      BY <1>0, <3>1, CancelSessionType
    <3>2. CASE UNCHANGED <<conns, handle, loopQueue>>
      BY <1>0, <3>2 DEF NetworkTypeOK
    <3>3. QED
      BY <1>9, <3>1, <3>2 DEF Request
  <2>4. requests' \in RequestIds
    <3>1. requests \in Nat /\ entered \in Nat /\ entered >= 1 /\ entered + requests < MaxWork
      BY <1>0, <1>9 DEF Request, NetworkTypeOK, Contexts
    <3>2. requests' = requests + 1
      BY <1>9 DEF Request
    <3>3. QED
      BY <3>1, <3>2 DEF RequestIds
  <2>5. requests' \in 0 .. MaxWork
    BY <2>4 DEF RequestIds
  <2>6. /\ step' = "submitting"
        /\ UNCHANGED <<here, entered, subject, watched, kept, late, tasks, stopped, running, phase>>
    BY <1>9 DEF Request
  <2>7. QED
    BY <1>0, <2>1, <2>2, <2>3, <2>4, <2>5, <2>6 DEF TypeInv, NetworkTypeOK, Under
<1>10. CASE Submit
  <2>1. CASE service[here] = "closed"
    <3>1. callbacks' \in Seq(Callback)
      BY <1>0, <1>10, <2>1, UnregisterHas DEF Submit
    <3>2. QED
      BY <1>0, <1>10, <2>1, <3>1 DEF Submit, TypeInv, NetworkTypeOK, Under
  <2>2. CASE service[here] # "closed"
    <3>1. [op |-> "schedule", r |-> requests] \in Calls
      BY <1>0, <1>10 DEF Submit, Under, Calls
    <3>2. Append(loopQueue[here], [op |-> "schedule", r |-> requests])
            \in Seq(Calls \cup {Cancels, Shuts})
      BY <1>0, <3>1 DEF NetworkTypeOK
    <3>3. loopQueue' \in [Contexts -> Seq(Calls \cup {Cancels, Shuts})]
      BY <1>0, <1>10, <2>2, <3>2 DEF Submit, NetworkTypeOK
    <3>4. QED
      BY <1>0, <1>10, <2>2, <3>3 DEF Submit, TypeInv, NetworkTypeOK, Under
  <2>3. QED
    BY <2>1, <2>2
<1>11. CASE RequestAnswered
  <2>1. callbacks' \in Seq(Callback)
    BY <1>0, <1>11, UnregisterHas DEF RequestAnswered
  <2>2. QED
    BY <1>0, <1>11, <2>1 DEF RequestAnswered, TypeInv, NetworkTypeOK, Under
<1>12. CASE EnterComponent
  <2>1. entered' \in Contexts
    <3>1. requests \in Nat /\ entered \in Nat /\ entered >= 1 /\ entered + requests < MaxWork
      BY <1>0, <1>12 DEF EnterComponent, NetworkTypeOK, Contexts
    <3>2. entered' = entered + 1
      BY <1>12 DEF EnterComponent
    <3>3. QED
      BY <3>1, <3>2 DEF Contexts
  <2>2. here' \in Contexts
    BY <1>12, <2>1 DEF EnterComponent
  <2>3. QED
    BY <1>0, <1>12, <2>1, <2>2 DEF EnterComponent, TypeInv, NetworkTypeOK, Under
<1>13. CASE LeaveComponent
  <2>1. here' \in Contexts
    BY <1>13 DEF LeaveComponent, Contexts
  <2>2. QED
    BY <1>0, <1>13, <2>1 DEF LeaveComponent, TypeInv, NetworkTypeOK, Under
<1>14. QED
  BY <1>1, <1>2, <1>3, <1>4, <1>5, <1>6, <1>7, <1>8, <1>9, <1>10, <1>11, <1>12, <1>13

\* The steps of the cancellation and of the loops.
LEMMA OtherTypes ==
    ASSUME TypeInv,
           \/ AbortSession \/ EndSession
           \/ \E c \in Contexts : CloseStore(c) \/ CloseService(c) \/ CancelRequest(c)
           \/ \E c \in Contexts : LoopStep(c) \/ TaskEnds(c)
           \/ UNCHANGED netVars
    PROVE  TypeInv'
<1>0. NetworkTypeOK /\ Under /\ here \in Contexts /\ running \in Seq(Callback) /\ callbacks \in Seq(Callback)
  BY DEF TypeInv, NetworkTypeOK
<1> USE DEF nodeVars, connVars, loopVars, cancelVars
<1>1. CASE AbortSession \/ EndSession
  <2>1. stopped' \in BOOLEAN /\ callbacks' \in Seq(Callback) /\ running' \in Seq(Callback)
        /\ phase' \in 0 .. 1
    <3>1. CancelAll
      BY <1>1 DEF AbortSession, EndSession
    <3>2. CASE stopped
      BY <1>0, <3>1, <3>2 DEF CancelAll, NetworkTypeOK
    <3>3. CASE ~stopped
      BY <1>0, <3>1, <3>3 DEF CancelAll
    <3>4. QED
      BY <3>2, <3>3
  <2>2. CASE AbortSession
    BY <1>0, <2>1, <2>2 DEF AbortSession, TypeInv, NetworkTypeOK, Under
  <2>3. CASE EndSession
    BY <1>0, <2>1, <2>3 DEF EndSession, TypeInv, NetworkTypeOK, Under
  <2>4. QED
    BY <1>1, <2>2, <2>3
<1>2. \A c \in Contexts, kind \in {"store", "service", "request"} :
         Runs(kind, c) => Tail(running) \in Seq(Callback)
  BY <1>0, FirstIsThere DEF Runs
<1>3. ASSUME NEW c \in Contexts, CloseStore(c) PROVE TypeInv'
  <2>1. CASE phase = 0 /\ CloseHandles(kept[c]) /\ UNCHANGED kept /\ Goes
    <3>1. handle' \in [Handles -> {"unused", "open", "closed"}]
      BY <1>0, <2>1, CloseHandlesType
    <3>2. QED
      BY <1>0, <1>3, <2>1, <3>1 DEF CloseStore, Goes, TypeInv, NetworkTypeOK, Under
  <2>2. CASE phase = 1 /\ kept' = [kept EXCEPT ![c] = {}] /\ UNCHANGED handle /\ NextCallback
    <3>1. kept' \in [Contexts -> SUBSET Handles]
      BY <1>0, <2>2 DEF NetworkTypeOK
    <3>2. running' \in Seq(Callback)
      BY <1>2, <1>3, <2>2 DEF CloseStore, NextCallback
    <3>3. QED
      BY <1>0, <1>3, <2>2, <3>1, <3>2 DEF CloseStore, NextCallback, TypeInv, NetworkTypeOK, Under
  <2>3. QED
    BY <1>3, <2>1, <2>2 DEF CloseStore
<1>4. ASSUME NEW c \in Contexts, CloseService(c) PROVE TypeInv'
  <2>1. CASE /\ phase = 0 /\ CloseHandles(conns[c]) /\ conns' = [conns EXCEPT ![c] = {}]
             /\ UNCHANGED <<service, loopQueue>> /\ Goes
    <3>1. handle' \in [Handles -> {"unused", "open", "closed"}]
      BY <1>0, <2>1, CloseHandlesType
    <3>2. conns' \in [Contexts -> SUBSET Handles]
      BY <1>0, <2>1 DEF NetworkTypeOK
    <3>3. QED
      BY <1>0, <1>4, <2>1, <3>1, <3>2 DEF CloseService, Goes, TypeInv, NetworkTypeOK, Under
  <2>2. CASE /\ phase = 1 /\ service' = [service EXCEPT ![c] = "closed"]
             /\ loopQueue' = [loopQueue EXCEPT ![c] = Append(@, Shuts)]
             /\ UNCHANGED <<conns, handle>> /\ NextCallback
    <3>1. Append(loopQueue[c], Shuts) \in Seq(Calls \cup {Cancels, Shuts})
      BY <1>0 DEF NetworkTypeOK
    <3>2. loopQueue' \in [Contexts -> Seq(Calls \cup {Cancels, Shuts})]
      BY <1>0, <2>2, <3>1 DEF NetworkTypeOK
    <3>3. /\ service' \in [Contexts -> {"none", "open", "closed"}]
          /\ service[here] # "none" => service'[here] # "none"
      BY <1>0, <2>2 DEF NetworkTypeOK
    <3>4. running' \in Seq(Callback)
      BY <1>2, <1>4, <2>2 DEF CloseService, NextCallback
    <3>5. QED
      BY <1>0, <1>4, <2>2, <3>2, <3>3, <3>4
         DEF CloseService, NextCallback, TypeInv, NetworkTypeOK, Under
  <2>3. QED
    BY <1>4, <2>1, <2>2 DEF CloseService
<1>5. ASSUME NEW c \in Contexts, CancelRequest(c) PROVE TypeInv'
  <2>1. /\ handle' \in [Handles -> {"unused", "open", "closed"}]
        /\ conns' \in [Contexts -> SUBSET Handles]
        /\ loopQueue' \in [Contexts -> Seq(Calls \cup {Cancels, Shuts})]
    BY <1>0, <1>5, CancelSessionType DEF CancelRequest
  <2>2. running' \in Seq(Callback)
    BY <1>2, <1>5 DEF CancelRequest, NextCallback
  <2>3. QED
    BY <1>0, <1>5, <2>1, <2>2 DEF CancelRequest, NextCallback, TypeInv, NetworkTypeOK, Under
<1>6. ASSUME NEW c \in Contexts, LoopStep(c) PROVE TypeInv'
  <2>1. PICK q : q = loopQueue[c]
    OBVIOUS
  <2>2. q \in Seq(Calls \cup {Cancels, Shuts}) /\ q # <<>>
    BY <1>0, <1>6, <2>1 DEF LoopStep, NetworkTypeOK
  <2>3. Tail(q) \in Seq(Calls \cup {Cancels, Shuts}) /\ Head(q) \in Calls \cup {Cancels, Shuts}
    BY <2>2, FirstIsThere
  <2>4. Head(q).op = "schedule" => Head(q).r \in RequestIds
    BY <2>3 DEF Calls, Cancels, Shuts
  <2>5. loopQueue' \in [Contexts -> Seq(Calls \cup {Cancels, Shuts})]
    BY <1>0, <1>6, <2>1, <2>3 DEF LoopStep, NetworkTypeOK
  <2>6. tasks' \in [Contexts -> SUBSET RequestIds]
    BY <1>0, <1>6, <2>1, <2>4 DEF LoopStep, NetworkTypeOK
  <2>7. QED
    BY <1>0, <1>6, <2>5, <2>6 DEF LoopStep, TypeInv, NetworkTypeOK, Under
<1>7. ASSUME NEW c \in Contexts, TaskEnds(c) PROVE TypeInv'
  <2>1. tasks' \in [Contexts -> SUBSET RequestIds]
    BY <1>0, <1>7 DEF TaskEnds, NetworkTypeOK
  <2>2. QED
    BY <1>0, <1>7, <2>1 DEF TaskEnds, TypeInv, NetworkTypeOK, Under
<1>8. CASE UNCHANGED netVars
  BY <1>0, <1>8 DEF netVars, TypeInv, NetworkTypeOK, Under
<1>9. QED
  BY <1>1, <1>3, <1>4, <1>5, <1>6, <1>7, <1>8

-----------------------------------------------------------------------------
(* Nothing stays open.                                                     *)

\* A service that is open has its cleanup still to come.
CleanupComes ==
    \A c \in Contexts : service[c] = "open" =>
        IF stopped THEN Has(running, "service", c) ELSE Has(callbacks, "service", c)

\* A connection that is open is on its way into its service, or came too late,
\* or is one of the connections of a service that will still close them.
OpenIsKnown ==
    \A h \in Handles : handle[h] = "open" =>
        \/ h \in late
        \/ step = "starting" /\ subject = h
        \/ \E c \in Contexts : h \in conns[c] /\ service[c] = "open" /\ ~IsClosing(c)

\* The loop of a service that is closed was told to end what it runs after the
\* last request that was passed to it; before there is a service it has none.
LoopEnds ==
    \A c \in Contexts :
        /\ service[c] = "none" =>
              /\ tasks[c] = {}
              /\ \A i \in DOMAIN loopQueue[c] : loopQueue[c][i].op # "schedule"
        /\ service[c] = "closed" =>
              /\ loopQueue[c] = <<>> => tasks[c] = {}
              /\ loopQueue[c] # <<>> => Last(loopQueue[c]).op # "schedule"

Order == /\ ~stopped => running = <<>>
         /\ running = <<>> => phase = 0

NetInv == TypeInv /\ CleanupComes /\ OpenIsKnown /\ LoopEnds /\ Order

LEMMA NetInvInit == NetworkInit => NetInv
<1> SUFFICES ASSUME NetworkInit PROVE NetInv
  OBVIOUS
<1>1. TypeInv
  BY TypeInit
<1>2. \A c \in Contexts : /\ service[c] = "none" /\ conns[c] = {} /\ tasks[c] = {}
                          /\ loopQueue[c] = <<>>
  BY DEF NetworkInit
<1>3. \A h \in Handles : handle[h] = "unused"
  BY DEF NetworkInit
<1>4. CleanupComes /\ OpenIsKnown /\ Order
  BY <1>2, <1>3 DEF CleanupComes, OpenIsKnown, Order, NetworkInit
<1>5. LoopEnds
  BY <1>2 DEF LoopEnds
<1>6. QED
  BY <1>1, <1>4, <1>5 DEF NetInv

\* What holds at the end of it all.
LEMMA NothingOpen == NetInv => NothingStaysOpen
<1> SUFFICES ASSUME NetInv, stopped, running = <<>>
             PROVE  /\ \A h \in Handles : handle[h] = "open" =>
                          h \in late \/ (step = "starting" /\ subject = h)
                    /\ \A c \in Contexts : service[c] # "open"
                    /\ \A c \in Contexts : tasks[c] # {} => loopQueue[c] # <<>>
  BY DEF NothingStaysOpen
<1>1. \A c \in Contexts : service[c] # "open"
  BY DEF NetInv, CleanupComes, Has
<1>2. \A h \in Handles : handle[h] = "open" => h \in late \/ (step = "starting" /\ subject = h)
  BY <1>1 DEF NetInv, OpenIsKnown
<1>3. \A c \in Contexts : tasks[c] # {} => loopQueue[c] # <<>>
  <2>1. \A c \in Contexts : service[c] = "none" \/ service[c] = "closed"
    BY <1>1 DEF NetInv, TypeInv, NetworkTypeOK
  <2>2. QED
    BY <2>1 DEF NetInv, LoopEnds
<1>4. QED
  BY <1>1, <1>2, <1>3

\* The cleanup of a service still comes after a registration.
LEMMA RegisterHas ==
    ASSUME NetworkTypeOK, NEW c \in Contexts, ~stopped
    PROVE  /\ Has(callbacks, "service", c) =>
                 /\ Has(WithService(callbacks), "service", c)
                 /\ Has(WithStore(callbacks), "service", c)
                 /\ Has(WithService(WithStore(callbacks)), "service", c)
                 /\ Has(WithCleanup(WithService(callbacks), "request"), "service", c)
           /\ service[here] = "none" /\ c = here =>
                 /\ Has(WithService(WithStore(callbacks)), "service", c)
                 /\ Has(WithCleanup(WithService(callbacks), "request"), "service", c)
<1>0. callbacks \in Seq(Callback) /\ here \in Contexts
  BY DEF NetworkTypeOK
<1>1. ASSUME NEW list \in Seq(Callback), NEW kind \in {"store", "service", "request"}
      PROVE  /\ Has(list, "service", c) => Has(WithCleanup(list, kind), "service", c)
             /\ kind = "service" /\ c = here => Has(WithCleanup(list, kind), "service", c)
  <2>1. PICK x \in Callback : x = [kind |-> kind, context |-> here]
    BY <1>0 DEF Callback
  <2>2. WithCleanup(list, kind) = Append(list, x)
    BY <2>1 DEF WithCleanup
  <2>3. QED
    BY <2>1, <2>2, AppendHas
<1>2. ASSUME NEW list \in Seq(Callback)
      PROVE  /\ Has(list, "service", c) => /\ Has(WithService(list), "service", c)
                                           /\ Has(WithStore(list), "service", c)
             /\ service[here] = "none" /\ c = here => Has(WithService(list), "service", c)
  BY <1>1 DEF WithService, WithStore
<1>3. WithStore(callbacks) \in Seq(Callback) /\ WithService(callbacks) \in Seq(Callback)
  BY <1>0, WithCleanupType
<1>4. QED
  BY <1>0, <1>1, <1>2, <1>3

LEMMA ResolveKeepsCleanup ==
    ASSUME NetInv, Resolve, UNCHANGED <<stopped, running>>,
           callbacks' \in {WithService(WithStore(callbacks)),
                           WithCleanup(WithService(callbacks), "request")}
    PROVE  CleanupComes'
<1>0. NetworkTypeOK /\ CleanupComes /\ here \in Contexts
  BY DEF NetInv, TypeInv, NetworkTypeOK
<1> SUFFICES ASSUME NEW c \in Contexts, service'[c] = "open"
             PROVE  IF stopped THEN Has(running, "service", c) ELSE Has(callbacks', "service", c)
  BY DEF CleanupComes
<1>1. CASE service[c] = "open"
  BY <1>0, <1>1, RegisterHas DEF CleanupComes
<1>2. CASE service[c] # "open"
  <2>1. c = here /\ service[here] = "none" /\ ~stopped
    BY <1>0, <1>2, ResolveType
  <2>2. QED
    BY <1>0, <2>1, RegisterHas
<1>3. QED
  BY <1>1, <1>2

LEMMA WorkerKeepsCleanup ==
    ASSUME NetInv,
           \/ \E h \in Handles : Connect(h) \/ ReceiveMessage(h) \/ CloseConnection(h)
           \/ ConnectRefused \/ StartFails \/ RegisterConnection \/ Keep \/ Received
           \/ Request \/ Submit \/ RequestAnswered
           \/ EnterComponent \/ LeaveComponent
    PROVE  CleanupComes'
<1> USE DEF nodeVars, connVars, loopVars, cancelVars
<1>0. NetworkTypeOK /\ CleanupComes /\ here \in Contexts /\ callbacks \in Seq(Callback)
  BY DEF NetInv, TypeInv, NetworkTypeOK
<1>1. ASSUME NEW h \in Handles, Connect(h) PROVE CleanupComes'
  BY <1>1, ResolveKeepsCleanup DEF Connect
<1>2. CASE Request
  BY <1>2, ResolveKeepsCleanup DEF Request
<1>3. CASE ConnectRefused
  <2> SUFFICES ASSUME NEW c \in Contexts, service'[c] = "open"
               PROVE  IF stopped' THEN Has(running', "service", c) ELSE Has(callbacks', "service", c)
    BY DEF CleanupComes
  <2>1. /\ service[c] = "open" /\ stopped' = stopped /\ running' = running
        /\ callbacks' = WithStore(callbacks)
    BY <1>3 DEF ConnectRefused
  <2>2. QED
    BY <1>0, <2>1, RegisterHas DEF CleanupComes
<1>4. CASE Submit \/ RequestAnswered
  <2>1. service' = service /\ stopped' = stopped /\ running' = running
    BY <1>4 DEF Submit, RequestAnswered
  <2>2. Unregister \/ callbacks' = callbacks
    BY <1>4 DEF Submit, RequestAnswered
  <2>3. \A c : Has(callbacks, "service", c) => Has(callbacks', "service", c)
    BY <1>0, <2>2, UnregisterHas
  <2>4. QED
    BY <1>0, <2>1, <2>3 DEF CleanupComes
<1>5. CASE UNCHANGED <<service, stopped, running, callbacks>>
  <2>1. service' = service /\ stopped' = stopped /\ running' = running /\ callbacks' = callbacks
    BY <1>5
  <2>2. QED
    BY <1>0, <2>1 DEF CleanupComes
<1>6. QED
  BY <1>1, <1>2, <1>3, <1>4, <1>5
     DEF ReceiveMessage, CloseConnection, StartFails, RegisterConnection, Keep, Received,
         EnterComponent, LeaveComponent

\* A step that opens no connection and closes those that it takes from a
\* service keeps the others known.
LEMMA KnownStays ==
    ASSUME NetInv, UNCHANGED <<running, phase>>, NEW hs,
           \A h \in Handles : handle'[h] = "open" => handle[h] = "open" /\ h \notin hs,
           \A c \in Contexts : conns[c] \subseteq conns'[c] \cup hs,
           \A c \in Contexts : service[c] = "open" => service'[c] = "open",
           late \subseteq late',
           step = "starting" => (step' = "starting" /\ subject' = subject) \/ subject \in hs
    PROVE  OpenIsKnown'
<1>1. \A c : IsClosing(c)' <=> IsClosing(c)
  BY DEF IsClosing
<1>2. OpenIsKnown
  BY DEF NetInv
<1> SUFFICES ASSUME NEW h \in Handles, handle'[h] = "open"
             PROVE  \/ h \in late'
                    \/ step' = "starting" /\ subject' = h
                    \/ \E c \in Contexts : h \in conns'[c] /\ service'[c] = "open" /\ ~IsClosing(c)'
  BY DEF OpenIsKnown
<1>3. handle[h] = "open" /\ h \notin hs
  OBVIOUS
<1>4. CASE h \in late
  BY <1>4
<1>5. CASE step = "starting" /\ subject = h
  BY <1>3, <1>5
<1>6. ASSUME NEW c \in Contexts, h \in conns[c], service[c] = "open", ~IsClosing(c)
      PROVE  h \in conns'[c] /\ service'[c] = "open" /\ ~IsClosing(c)'
  BY <1>1, <1>3, <1>6
<1>7. QED
  BY <1>2, <1>3, <1>4, <1>5, <1>6 DEF OpenIsKnown

\* A step that touches no connection.
LEMMA KnownRests ==
    ASSUME NetInv, UNCHANGED <<running, phase, conns, handle, late>>, step # "starting",
           \A c \in Contexts : service[c] = "open" => service'[c] = "open"
    PROVE  OpenIsKnown'
<1>1. \A c : IsClosing(c)' <=> IsClosing(c)
  BY DEF IsClosing
<1>2. OpenIsKnown
  BY DEF NetInv
<1>3. QED
  BY <1>1, <1>2 DEF OpenIsKnown

LEMMA WorkerKeepsKnown ==
    ASSUME NetInv,
           \/ \E h \in Handles : Connect(h) \/ ReceiveMessage(h) \/ CloseConnection(h)
           \/ ConnectRefused \/ StartFails \/ RegisterConnection \/ Keep \/ Received
           \/ Request \/ Submit \/ RequestAnswered
           \/ EnterComponent \/ LeaveComponent
    PROVE  OpenIsKnown'
<1> USE DEF nodeVars, connVars, loopVars, cancelVars, Free, NodeReturns
<1>0. NetworkTypeOK /\ Under /\ OpenIsKnown /\ here \in Contexts
  BY DEF NetInv, TypeInv, NetworkTypeOK
<1>1. ASSUME NEW h \in Handles, Connect(h) PROVE OpenIsKnown'
  <2>1. /\ UNCHANGED <<running, phase, conns, late>>
        /\ \A c \in Contexts : service[c] = "open" => service'[c] = "open"
        /\ step # "starting"
    BY <1>0, <1>1, ResolveType DEF Connect
  <2>2. CASE service'[here] = "closed"
    <3>1. handle' = handle
      BY <1>1, <2>2 DEF Connect
    <3>2. QED
      BY <2>1, <3>1, KnownRests
  <2>3. CASE service'[here] # "closed"
    <3>1. /\ handle' = [handle EXCEPT ![h] = "open"] /\ step' = "starting" /\ subject' = h
      BY <1>1, <2>3 DEF Connect
    <3>2. \A c : IsClosing(c)' <=> IsClosing(c)
      BY <2>1 DEF IsClosing
    <3>3. ASSUME NEW g \in Handles, handle'[g] = "open"
          PROVE  \/ g \in late'
                 \/ step' = "starting" /\ subject' = g
                 \/ \E c \in Contexts : g \in conns'[c] /\ service'[c] = "open" /\ ~IsClosing(c)'
      <4>1. CASE g = h
        BY <3>1, <4>1
      <4>2. CASE g # h
        <5>1. handle[g] = "open"
          BY <1>0, <3>1, <3>3, <4>2 DEF NetworkTypeOK
        <5>2. g \in late \/ \E c \in Contexts : g \in conns[c] /\ service[c] = "open" /\ ~IsClosing(c)
          BY <1>0, <2>1, <5>1 DEF OpenIsKnown
        <5>3. QED
          BY <2>1, <3>2, <5>2
      <4>3. QED
        BY <4>1, <4>2
    <3>4. QED
      BY <3>3 DEF OpenIsKnown
  <2>4. QED
    BY <2>2, <2>3
<1>2. ASSUME NEW h \in Handles, ReceiveMessage(h) PROVE OpenIsKnown'
  <2>1. /\ UNCHANGED <<running, phase, conns, late, service, handle>> /\ step # "starting"
    BY <1>2 DEF ReceiveMessage
  <2>2. QED
    BY <2>1, KnownRests
<1>3. ASSUME NEW h \in Handles, CloseConnection(h) PROVE OpenIsKnown'
  <2>1. /\ UNCHANGED <<running, phase, late, service>> /\ step # "starting"
        /\ conns' = [conns EXCEPT ![here] = @ \ ({h} \ Subscriptions)]
    BY <1>3 DEF CloseConnection, ReleaseConnections
  <2>2. \A g \in Handles : handle'[g] = "open" => handle[g] = "open" /\ g \notin {h}
    BY <1>0, <1>3, CloseHandlesType DEF CloseConnection
  <2>3. \A c \in Contexts : conns[c] \subseteq conns'[c] \cup {h}
    BY <1>0, <2>1 DEF NetworkTypeOK
  <2>4. QED
    BY <2>1, <2>2, <2>3, KnownStays
<1>4. CASE ConnectRefused \/ Received \/ Submit \/ RequestAnswered \/ EnterComponent \/ LeaveComponent
  <2>1. /\ UNCHANGED <<running, phase, conns, late, service, handle>> /\ step # "starting"
    BY <1>4 DEF ConnectRefused, Received, Submit, RequestAnswered, EnterComponent, LeaveComponent
  <2>2. QED
    BY <2>1, KnownRests
<1>5. CASE StartFails
  <2>1. UNCHANGED <<running, phase, late, service, conns>>
    BY <1>5 DEF StartFails
  <2>2. \A g \in Handles : handle'[g] = "open" => handle[g] = "open" /\ g \notin {subject}
    BY <1>0, <1>5, CloseHandlesType DEF StartFails
  <2>3. QED
    BY <2>1, <2>2, KnownStays
<1>6. CASE RegisterConnection
  <2>1. UNCHANGED <<running, phase, service>> /\ step = "starting"
    BY <1>6 DEF RegisterConnection
  <2>2. CASE service[here] = "closed"
    <3>1. UNCHANGED <<late, conns>>
      BY <1>6, <2>2 DEF RegisterConnection
    <3>2. \A g \in Handles : handle'[g] = "open" => handle[g] = "open" /\ g \notin {subject}
      BY <1>0, <1>6, <2>2, CloseHandlesType DEF RegisterConnection
    <3>3. QED
      BY <2>1, <3>1, <3>2, KnownStays
  <2>3. CASE service[here] # "closed"
    <3>1. /\ handle' = handle /\ conns' = [conns EXCEPT ![here] = @ \cup {subject}]
          /\ late' = IF IsClosing(here) THEN late \cup {subject} ELSE late
      BY <1>6, <2>3 DEF RegisterConnection
    <3>2. service[here] = "open"
      BY <1>0, <2>1, <2>3 DEF Under, NetworkTypeOK
    <3>3. \A c : IsClosing(c)' <=> IsClosing(c)
      BY <2>1 DEF IsClosing
    <3>4. late \subseteq late' /\ (IsClosing(here) => subject \in late')
      BY <3>1
    <3>5. /\ \A c \in Contexts : conns[c] \subseteq conns'[c]
          /\ subject \in conns'[here]
      BY <1>0, <3>1 DEF NetworkTypeOK
    <3>6. ASSUME NEW g \in Handles, handle'[g] = "open"
          PROVE  \/ g \in late'
                 \/ \E c \in Contexts : g \in conns'[c] /\ service'[c] = "open" /\ ~IsClosing(c)'
      <4>1. CASE g = subject
        BY <1>0, <2>1, <3>2, <3>3, <3>4, <3>5, <4>1
      <4>2. CASE g # subject
        <5>1. g \in late \/ \E c \in Contexts : g \in conns[c] /\ service[c] = "open" /\ ~IsClosing(c)
          BY <1>0, <3>1, <3>6, <4>2 DEF OpenIsKnown
        <5>2. QED
          BY <2>1, <3>3, <3>4, <3>5, <5>1
      <4>3. QED
        BY <4>1, <4>2
    <3>7. QED
      BY <3>6 DEF OpenIsKnown
  <2>4. QED
    BY <2>2, <2>3
<1>7. CASE Keep
  <2>1. UNCHANGED <<running, phase, late, service>> /\ step # "starting"
    BY <1>7 DEF Keep
  <2>2. CASE CloseHandles({subject}) /\ UNCHANGED <<conns, kept>>
    <3>1. \A g \in Handles : handle'[g] = "open" => handle[g] = "open" /\ g \notin {subject}
      BY <1>0, <2>2, CloseHandlesType
    <3>2. QED
      BY <2>1, <2>2, <3>1, KnownStays
  <2>3. ASSUME NEW hs, CloseHandles(hs), ReleaseConnections(hs) PROVE OpenIsKnown'
    <3>1. \A g \in Handles : handle'[g] = "open" => handle[g] = "open" /\ g \notin hs
      BY <1>0, <2>3, CloseHandlesType
    <3>2. \A c \in Contexts : conns[c] \subseteq conns'[c] \cup hs
      BY <1>0, <2>3 DEF ReleaseConnections, NetworkTypeOK
    <3>3. QED
      BY <2>1, <3>1, <3>2, KnownStays
  <2>4. QED
    BY <1>7, <2>2, <2>3 DEF Keep
<1>8. CASE Request
  <2>1. /\ UNCHANGED <<running, phase, late>> /\ step # "starting"
        /\ \A c \in Contexts : service[c] = "open" => service'[c] = "open"
    BY <1>0, <1>8, ResolveType DEF Request
  <2>2. CASE UNCHANGED <<conns, handle, loopQueue>>
    BY <2>1, <2>2, KnownRests
  <2>3. CASE CancelSession(here)
    <3>1. \A g \in Handles : handle'[g] = "open" => handle[g] = "open" /\ g \notin conns[here]
      BY <1>0, <2>3, CloseHandlesType DEF CancelSession
    <3>2. \A c \in Contexts : conns[c] \subseteq conns'[c] \cup conns[here]
      BY <1>0, <2>3 DEF CancelSession, NetworkTypeOK
    <3>3. QED
      BY <2>1, <3>1, <3>2, KnownStays
  <2>4. QED
    BY <1>8, <2>2, <2>3 DEF Request
<1>9. QED
  BY <1>1, <1>2, <1>3, <1>4, <1>5, <1>6, <1>7, <1>8

\* The loop of a service that is not open stays told.
LEMMA WorkerKeepsLoops ==
    ASSUME NetInv,
           \/ \E h \in Handles : Connect(h) \/ ReceiveMessage(h) \/ CloseConnection(h)
           \/ ConnectRefused \/ StartFails \/ RegisterConnection \/ Keep \/ Received
           \/ Request \/ Submit \/ RequestAnswered
           \/ EnterComponent \/ LeaveComponent
    PROVE  LoopEnds'
<1> USE DEF nodeVars, connVars, loopVars, cancelVars, Free, NodeReturns
<1>0. NetworkTypeOK /\ Under /\ LoopEnds /\ here \in Contexts
  BY DEF NetInv, TypeInv, NetworkTypeOK
<1>1. ASSUME Resolve, UNCHANGED <<tasks, loopQueue>> PROVE LoopEnds'
  <2> SUFFICES ASSUME NEW c \in Contexts
               PROVE  /\ service'[c] = "none" =>
                            /\ tasks[c] = {}
                            /\ \A i \in DOMAIN loopQueue[c] : loopQueue[c][i].op # "schedule"
                      /\ service'[c] = "closed" =>
                            /\ loopQueue[c] = <<>> => tasks[c] = {}
                            /\ loopQueue[c] # <<>> => Last(loopQueue[c]).op # "schedule"
    BY <1>1 DEF LoopEnds
  <2>1. CASE service'[c] = service[c]
    BY <1>0, <2>1 DEF LoopEnds
  <2>2. CASE service'[c] # service[c]
    <3>1. service[c] = "none" /\ service'[c] # "none"
      BY <1>0, <1>1, <2>2, ResolveType
    <3>2. /\ tasks[c] = {} /\ \A i \in DOMAIN loopQueue[c] : loopQueue[c][i].op # "schedule"
          /\ loopQueue[c] \in Seq(Calls \cup {Cancels, Shuts})
      BY <1>0, <3>1 DEF LoopEnds, NetworkTypeOK
    <3>3. loopQueue[c] # <<>> => Len(loopQueue[c]) \in DOMAIN loopQueue[c]
      BY <3>2, FrontIsThere
    <3>4. QED
      BY <3>1, <3>2, <3>3 DEF Last
  <2>3. QED
    BY <2>1, <2>2
<1>2. ASSUME NEW h \in Handles, Connect(h) PROVE LoopEnds'
  BY <1>1, <1>2 DEF Connect
<1>3. CASE UNCHANGED <<service, tasks, loopQueue>>
  <2>1. service' = service /\ tasks' = tasks /\ loopQueue' = loopQueue
    BY <1>3
  <2>2. QED
    BY <1>0, <2>1 DEF LoopEnds
<1>4. CASE Request
  <2>1. CASE UNCHANGED <<conns, handle, loopQueue>>
    BY <1>1, <1>4, <2>1 DEF Request
  <2>2. CASE CancelSession(here) /\ service[here] # "none"
    <3>1. service' = service /\ tasks' = tasks
      BY <1>4, <2>2 DEF Request, Resolve
    <3>2. loopQueue' = loopQueue \/
             (service[here] # "closed" /\ loopQueue' = [loopQueue EXCEPT ![here] = Append(@, Cancels)])
      BY <2>2 DEF CancelSession
    <3>3. \A c \in Contexts : service[c] \in {"none", "closed"} => loopQueue'[c] = loopQueue[c]
      BY <1>0, <2>2, <3>2 DEF NetworkTypeOK
    <3>4. QED
      BY <1>0, <3>1, <3>3 DEF LoopEnds
  <2>3. QED
    BY <1>4, <2>1, <2>2 DEF Request
<1>5. CASE Submit
  <2>1. service' = service /\ tasks' = tasks /\ service[here] # "none"
    BY <1>0, <1>5 DEF Submit, Under
  <2>2. \A c \in Contexts : service[c] \in {"none", "closed"} => loopQueue'[c] = loopQueue[c]
    <3>1. CASE service[here] = "closed"
      BY <1>5, <3>1 DEF Submit
    <3>2. CASE service[here] # "closed"
      <4>1. loopQueue' = [loopQueue EXCEPT
                             ![here] = Append(@, [op |-> "schedule", r |-> requests])]
        BY <1>5, <3>2 DEF Submit
      <4>2. QED
        BY <1>0, <2>1, <3>2, <4>1 DEF NetworkTypeOK
    <3>3. QED
      BY <3>1, <3>2
  <2>3. QED
    BY <1>0, <2>1, <2>2 DEF LoopEnds
<1>6. QED
  BY <1>2, <1>3, <1>4, <1>5
     DEF ReceiveMessage, CloseConnection, ConnectRefused, StartFails, RegisterConnection, Keep,
         Received, RequestAnswered, EnterComponent, LeaveComponent

-----------------------------------------------------------------------------
(* The cancellation.                                                       *)

LEMMA CancelKeeps ==
    ASSUME NetInv, AbortSession \/ EndSession
    PROVE  CleanupComes' /\ OpenIsKnown' /\ LoopEnds' /\ Order'
<1> USE DEF nodeVars, connVars, loopVars
<1>0. CleanupComes /\ OpenIsKnown /\ LoopEnds /\ Order
  BY DEF NetInv
<1>1. /\ CancelAll /\ UNCHANGED <<subject, service, conns, handle, late, tasks, loopQueue>>
      /\ step' = step \/ (step = "idle" /\ step' = "over")
  BY DEF AbortSession, EndSession, Free
<1>2. /\ stopped'
      /\ stopped => running' = running /\ phase' = phase
      /\ ~stopped => running' = callbacks /\ phase' = 0
  BY <1>1 DEF CancelAll
<1>3. CleanupComes'
  BY <1>0, <1>1, <1>2 DEF CleanupComes
<1>4. \A c : IsClosing(c)' => IsClosing(c)
  BY <1>2 DEF IsClosing
<1>5. OpenIsKnown'
  BY <1>0, <1>1, <1>4 DEF OpenIsKnown
<1>6. LoopEnds'
  BY <1>0, <1>1 DEF LoopEnds
<1>7. Order'
  BY <1>0, <1>2 DEF Order
<1>8. QED
  BY <1>3, <1>5, <1>6, <1>7

\* The first callback is through, and was not that of an open service.
LEMMA NextKeeps ==
    ASSUME NetInv, running # <<>>, NextCallback,
           \A c \in Contexts : service'[c] = "open" =>
               service[c] = "open" /\ Head(running) # [kind |-> "service", context |-> c]
    PROVE  CleanupComes' /\ Order' /\ \A c : ~IsClosing(c)'
<1>1. running \in Seq(Callback) /\ CleanupComes /\ Order
  BY DEF NetInv, TypeInv, NetworkTypeOK
<1>2. running' = Tail(running) /\ phase' = 0 /\ stopped /\ stopped'
  BY <1>1 DEF NextCallback, Order
<1>3. CleanupComes'
  BY <1>1, <1>2, TailHas DEF CleanupComes
<1>4. QED
  BY <1>2, <1>3 DEF Order, IsClosing

LEMMA CallbackKeeps ==
    ASSUME NetInv, NEW c \in Contexts, CloseStore(c) \/ CloseService(c) \/ CancelRequest(c)
    PROVE  CleanupComes' /\ OpenIsKnown' /\ LoopEnds' /\ Order'
<1> USE DEF nodeVars, connVars, loopVars, cancelVars
<1>0. NetworkTypeOK /\ CleanupComes /\ OpenIsKnown /\ LoopEnds /\ Order
  BY DEF NetInv, TypeInv
<1>1. CASE CloseStore(c)
  <2>1. /\ UNCHANGED <<step, subject, service, conns, late, tasks, loopQueue>>
        /\ running # <<>> /\ Head(running) = [kind |-> "store", context |-> c]
    BY <1>1 DEF CloseStore, Runs
  <2>2. \A x : ~IsClosing(x)
    BY <2>1 DEF IsClosing
  <2>3. \A h \in Handles : handle'[h] = "open" => handle[h] = "open"
    BY <1>0, <1>1, CloseHandlesType DEF CloseStore
  <2>4. LoopEnds'
    BY <1>0, <2>1 DEF LoopEnds
  <2>5. CASE Goes
    <3>1. stopped' = stopped /\ callbacks' = callbacks /\ running' = running
      BY <2>5 DEF Goes
    <3>2. \A x : ~IsClosing(x)'
      BY <2>1, <3>1 DEF IsClosing
    <3>3. CleanupComes' /\ Order'
      BY <1>0, <2>1, <3>1 DEF CleanupComes, Order
    <3>4. OpenIsKnown'
      BY <1>0, <2>1, <2>3, <3>2 DEF OpenIsKnown
    <3>5. QED
      BY <2>4, <3>3, <3>4
  <2>6. CASE NextCallback
    <3>1. CleanupComes' /\ Order' /\ \A x : ~IsClosing(x)'
      BY <2>1, <2>6, NextKeeps
    <3>2. OpenIsKnown'
      BY <1>0, <2>1, <2>3, <3>1 DEF OpenIsKnown
    <3>3. QED
      BY <2>4, <3>1, <3>2
  <2>7. QED
    BY <1>1, <2>5, <2>6 DEF CloseStore
<1>2. CASE CloseService(c)
  <2>1. /\ UNCHANGED <<step, subject, late, tasks>>
        /\ running # <<>> /\ Head(running) = [kind |-> "service", context |-> c]
        /\ \A x \in Contexts : x # c => Head(running) # [kind |-> "service", context |-> x]
    BY <1>2 DEF CloseService, Runs
  <2>2. CASE /\ phase = 0 /\ CloseHandles(conns[c]) /\ conns' = [conns EXCEPT ![c] = {}]
             /\ UNCHANGED <<service, loopQueue>> /\ Goes
    <3>1. stopped' = stopped /\ callbacks' = callbacks /\ running' = running
      BY <2>2 DEF Goes
    <3>2. \A x \in Contexts : x # c => ~IsClosing(x)'
      BY <2>1, <3>1 DEF IsClosing
    <3>3. CleanupComes' /\ Order'
      BY <1>0, <2>1, <2>2, <3>1 DEF CleanupComes, Order
    <3>4. LoopEnds'
      BY <1>0, <2>1, <2>2 DEF LoopEnds
    <3>5. \A h \in Handles : handle'[h] = "open" => handle[h] = "open" /\ h \notin conns[c]
      BY <1>0, <2>2, CloseHandlesType
    <3>6. \A x \in Contexts : x # c => conns'[x] = conns[x]
      BY <1>0, <2>2 DEF NetworkTypeOK
    <3>7. OpenIsKnown'
      BY <1>0, <2>1, <2>2, <3>2, <3>5, <3>6 DEF OpenIsKnown
    <3>8. QED
      BY <3>3, <3>4, <3>7
  <2>3. CASE /\ phase = 1 /\ service' = [service EXCEPT ![c] = "closed"]
             /\ loopQueue' = [loopQueue EXCEPT ![c] = Append(@, Shuts)]
             /\ UNCHANGED <<conns, handle>> /\ NextCallback
    <3>1. /\ service'[c] = "closed"
          /\ \A x \in Contexts : x # c => service'[x] = service[x] /\ loopQueue'[x] = loopQueue[x]
      BY <1>0, <2>3 DEF NetworkTypeOK
    <3>2. CleanupComes' /\ Order' /\ \A x : ~IsClosing(x)'
      <4>1. \A x \in Contexts : service'[x] = "open" =>
               service[x] = "open" /\ Head(running) # [kind |-> "service", context |-> x]
        BY <2>1, <3>1
      <4>2. QED
        BY <2>1, <2>3, <4>1, NextKeeps
    <3>3. IsClosing(c)
      BY <2>1, <2>3 DEF IsClosing
    <3>4. OpenIsKnown'
      BY <1>0, <2>1, <2>3, <3>1, <3>2, <3>3 DEF OpenIsKnown
    <3>5. loopQueue'[c] = Append(loopQueue[c], Shuts) /\ loopQueue[c] \in Seq(Calls \cup {Cancels, Shuts})
      BY <1>0, <2>3 DEF NetworkTypeOK
    <3>6. loopQueue'[c] # <<>> /\ Last(loopQueue'[c]) = Shuts
      BY <3>5 DEF Last
    <3>7. Shuts.op # "schedule"
      BY DEF Shuts
    <3>8. LoopEnds'
      BY <1>0, <2>1, <3>1, <3>6, <3>7 DEF LoopEnds
    <3>9. QED
      BY <3>2, <3>4, <3>8
  <2>4. QED
    BY <1>2, <2>2, <2>3 DEF CloseService
<1>3. CASE CancelRequest(c)
  <2>1. /\ UNCHANGED <<step, subject, service, late, tasks>> /\ CancelSession(c) /\ NextCallback
        /\ running # <<>> /\ Head(running) = [kind |-> "request", context |-> c]
    BY <1>3 DEF CancelRequest, Runs
  <2>2. CleanupComes' /\ Order' /\ \A x : ~IsClosing(x)'
    BY <2>1, NextKeeps
  <2>3. \A h \in Handles : handle'[h] = "open" => handle[h] = "open" /\ h \notin conns[c]
    BY <1>0, <2>1, CloseHandlesType DEF CancelSession
  <2>4. \A x \in Contexts : x # c => conns'[x] = conns[x]
    BY <1>0, <2>1 DEF CancelSession, NetworkTypeOK
  <2>5. OpenIsKnown'
    BY <1>0, <2>1, <2>2, <2>3, <2>4 DEF OpenIsKnown
  <2>6. LoopEnds'
    <3>1. CASE service[c] = "closed"
      BY <1>0, <2>1, <3>1 DEF CancelSession, LoopEnds
    <3>2. CASE service[c] # "closed"
      <4>1. loopQueue' = [loopQueue EXCEPT ![c] = Append(@, Cancels)]
        BY <2>1, <3>2 DEF CancelSession
      <4>2. PICK q : q = Append(loopQueue[c], Cancels)
        OBVIOUS
      <4>3. /\ loopQueue'[c] = q /\ \A x \in Contexts : x # c => loopQueue'[x] = loopQueue[x]
            /\ loopQueue[c] \in Seq(Calls \cup {Cancels, Shuts})
        BY <1>0, <4>1, <4>2 DEF NetworkTypeOK
      <4>4. \A i \in DOMAIN q : q[i] = Cancels \/ (i \in DOMAIN loopQueue[c] /\ q[i] = loopQueue[c][i])
        BY <4>2, <4>3
      <4>5. Cancels.op # "schedule"
        BY DEF Cancels
      <4>6. service[c] = "none" => \A i \in DOMAIN q : q[i].op # "schedule"
        BY <1>0, <4>4, <4>5 DEF LoopEnds
      <4>7. QED
        BY <1>0, <2>1, <3>2, <4>3, <4>6 DEF LoopEnds
    <3>3. QED
      BY <3>1, <3>2
  <2>7. QED
    BY <2>2, <2>5, <2>6
<1>4. QED
  BY <1>1, <1>2, <1>3

-----------------------------------------------------------------------------
(* The loops.                                                              *)

LEMMA LoopKeeps ==
    ASSUME NetInv, NEW c \in Contexts, LoopStep(c) \/ TaskEnds(c)
    PROVE  CleanupComes' /\ OpenIsKnown' /\ LoopEnds' /\ Order'
<1> USE DEF nodeVars, connVars, cancelVars
<1>0. NetworkTypeOK /\ CleanupComes /\ OpenIsKnown /\ LoopEnds /\ Order
  BY DEF NetInv, TypeInv
<1>1. UNCHANGED <<step, subject, service, conns, handle, late, stopped, callbacks, running, phase>>
  BY DEF LoopStep, TaskEnds
<1>2. CleanupComes' /\ Order'
  BY <1>0, <1>1 DEF CleanupComes, Order
<1>3. \A x : IsClosing(x)' <=> IsClosing(x)
  BY <1>1 DEF IsClosing
<1>4. OpenIsKnown'
  BY <1>0, <1>1, <1>3 DEF OpenIsKnown
<1>5. CASE TaskEnds(c)
  <2>1. loopQueue' = loopQueue /\ \A x \in Contexts : tasks'[x] \subseteq tasks[x]
    BY <1>0, <1>5 DEF TaskEnds, NetworkTypeOK
  <2>2. LoopEnds'
    BY <1>0, <1>1, <2>1 DEF LoopEnds
  <2>3. QED
    BY <1>2, <1>4, <2>2
<1>6. CASE LoopStep(c)
  <2>1. PICK q : q = loopQueue[c]
    OBVIOUS
  <2>2. q \in Seq(Calls \cup {Cancels, Shuts}) /\ q # <<>>
    BY <1>0, <1>6, <2>1 DEF LoopStep, NetworkTypeOK
  <2>3. /\ loopQueue'[c] = Tail(q)
        /\ Head(q).op # "schedule" => tasks'[c] = {}
        /\ \A x \in Contexts : x # c => loopQueue'[x] = loopQueue[x] /\ tasks'[x] = tasks[x]
    BY <1>0, <1>6, <2>1 DEF LoopStep, NetworkTypeOK
  <2>4. /\ Head(q) = q[1] /\ 1 \in DOMAIN q /\ Len(q) \in Nat /\ DOMAIN q = 1 .. Len(q)
        /\ Tail(q) \in Seq(Calls \cup {Cancels, Shuts})
        /\ Len(Tail(q)) = Len(q) - 1 /\ DOMAIN Tail(q) = 1 .. Len(q) - 1
        /\ \A i \in 1 .. Len(q) - 1 : Tail(q)[i] = q[i + 1]
    BY <2>2, FirstIsThere
  <2>5. CASE service[c] = "none"
    <3>1. \A i \in DOMAIN q : q[i].op # "schedule"
      BY <1>0, <2>1, <2>5 DEF LoopEnds
    <3>2. tasks'[c] = {}
      BY <2>3, <2>4, <3>1
    <3>3. \A i \in DOMAIN Tail(q) : Tail(q)[i].op # "schedule"
      <4> SUFFICES ASSUME NEW i \in 1 .. Len(q) - 1 PROVE Tail(q)[i].op # "schedule"
        BY <2>4
      <4>1. i + 1 \in DOMAIN q
        BY <2>4
      <4>2. QED
        BY <2>4, <3>1, <4>1
    <3>4. LoopEnds'
      BY <1>0, <1>1, <2>3, <2>5, <3>2, <3>3 DEF LoopEnds
    <3>5. QED
      BY <1>2, <1>4, <3>4
  <2>6. CASE service[c] = "closed"
    <3>1. q[Len(q)].op # "schedule"
      BY <1>0, <2>1, <2>2, <2>6 DEF LoopEnds, Last
    <3>2. Tail(q) = <<>> => tasks'[c] = {}
      <4>1. ASSUME Tail(q) = <<>> PROVE Len(q) = 1
        <5>1. Len(Tail(q)) = 0
          BY <4>1, EmptyHasNone, Zenon
        <5>2. Len(q) - 1 = 0 /\ Len(q) \in Nat
          BY <2>4, <5>1
        <5>3. QED
          BY <5>2
      <4>2. QED
        BY <2>3, <2>4, <3>1, <4>1
    <3>3. Tail(q) # <<>> => Last(Tail(q)).op # "schedule"
      <4> SUFFICES ASSUME Tail(q) # <<>> PROVE Last(Tail(q)).op # "schedule"
        OBVIOUS
      <4>1. PICK n : n = Len(q) - 1
        OBVIOUS
      <4>2. Len(Tail(q)) # 0
        BY <2>4
      <4>3. n \in 1 .. Len(q) - 1 /\ n + 1 = Len(q)
        BY <2>4, <4>1, <4>2
      <4>4. Tail(q)[n] = q[Len(q)] /\ Len(Tail(q)) = n
        BY <2>4, <4>1, <4>3
      <4>5. QED
        BY <3>1, <4>4 DEF Last
    <3>4. LoopEnds'
      BY <1>0, <1>1, <2>3, <2>6, <3>2, <3>3 DEF LoopEnds
    <3>5. QED
      BY <1>2, <1>4, <3>4
  <2>7. CASE service[c] \notin {"none", "closed"}
    <3>1. LoopEnds'
      BY <1>0, <1>1, <2>3, <2>7 DEF LoopEnds
    <3>2. QED
      BY <1>2, <1>4, <3>1
  <2>8. QED
    BY <2>5, <2>6, <2>7
<1>7. QED
  BY <1>5, <1>6

-----------------------------------------------------------------------------
LEMMA NetInvStep == NetInv /\ [NetworkNext]_netVars => NetInv'
<1> SUFFICES ASSUME NetInv, [NetworkNext]_netVars PROVE NetInv'
  OBVIOUS
<1>1. CASE \/ \E h \in Handles : Connect(h) \/ ReceiveMessage(h) \/ CloseConnection(h)
           \/ ConnectRefused \/ StartFails \/ RegisterConnection \/ Keep \/ Received
           \/ Request \/ Submit \/ RequestAnswered
           \/ EnterComponent \/ LeaveComponent
  <2>1. TypeInv'
    BY <1>1, WorkerTypes DEF NetInv
  <2>2. CleanupComes' /\ OpenIsKnown' /\ LoopEnds'
    BY <1>1, WorkerKeepsCleanup, WorkerKeepsKnown, WorkerKeepsLoops
  <2>3. running' = running /\ stopped' = stopped /\ phase' = phase
    BY <1>1 DEF Connect, ReceiveMessage, CloseConnection, ConnectRefused, StartFails,
                RegisterConnection, Keep, Received, Request, Submit, RequestAnswered,
                EnterComponent, LeaveComponent, cancelVars
  <2>4. Order'
    BY <2>3 DEF NetInv, Order
  <2>5. QED
    BY <2>1, <2>2, <2>4 DEF NetInv
<1>2. CASE \/ AbortSession \/ EndSession
           \/ \E c \in Contexts : CloseStore(c) \/ CloseService(c) \/ CancelRequest(c)
           \/ \E c \in Contexts : LoopStep(c) \/ TaskEnds(c)
  <2>1. TypeInv'
    BY <1>2, OtherTypes DEF NetInv
  <2>2. CleanupComes' /\ OpenIsKnown' /\ LoopEnds' /\ Order'
    BY <1>2, CancelKeeps, CallbackKeeps, LoopKeeps
  <2>3. QED
    BY <2>1, <2>2 DEF NetInv
<1>3. CASE UNCHANGED netVars
  <2>1. TypeInv'
    BY <1>3, OtherTypes DEF NetInv
  <2>2. CleanupComes' /\ OpenIsKnown' /\ LoopEnds' /\ Order'
    BY <1>3 DEF netVars, nodeVars, connVars, loopVars, cancelVars, NetInv, CleanupComes,
                OpenIsKnown, LoopEnds, Order, IsClosing
  <2>3. QED
    BY <2>1, <2>2 DEF NetInv
<1>4. QED
  BY <1>1, <1>2, <1>3 DEF NetworkNext

\* The types of the network of a session (NetworkSession.tla).
THEOREM NetworkTypes == NetworkSpec => []NetworkTypeOK
<1>1. NetInv => NetworkTypeOK
  BY DEF NetInv, TypeInv
<1>2. QED
  BY <1>1, NetInvInit, NetInvStep, PTL DEF NetworkSpec

\* When a cancellation is through, whatever the worker was doing, no service and
\* no connection is open, but one that came in between the two steps of close(),
\* and no request runs that its loop was not told to end (NetworkSession.tla).
THEOREM CancellationClosesAll == NetworkSpec => []NothingStaysOpen
<1>1. QED
  BY NothingOpen, NetInvInit, NetInvStep, PTL DEF NetworkSpec
=============================================================================
