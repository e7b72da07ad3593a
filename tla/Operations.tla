----------------------------- MODULE Operations -----------------------------
(* Stable operations of the external API and their idempotency keys.      *)
(* operations/service.py (HostOperationService.invoke) and models.py      *)
(* (InMemoryOperationIdempotencyStore), reached from external_v1/         *)
(* router.py, where every request builds a service over one shared store. *)
(*                                                                        *)
(* A request names a key of its caller and operation; one with no key, or *)
(* of an operation that supports none, keeps nothing in the store and is  *)
(* left out. What the operation does is one effect, which a failing       *)
(* operation may have had or not.                                         *)
EXTENDS Integers, Sequences, FiniteSets

CONSTANTS
    Requests,     \* request threads of the API server
    Keys,         \* (caller_id, operation_id, idempotency_key)
    Reserved,     \* the entry of an operation that is running
    EntryLimit,   \* limit of the store
    MaxEffects,   \* bound: effects per key
    MaxHostStops  \* bound: restarts of the host, whose store is in memory

ASSUME OperationsAssumption ==
    /\ Keys # {} /\ Reserved \notin Nat /\ EntryLimit \in Nat \ {0}
    /\ MaxEffects \in Nat /\ MaxHostStops \in Nat

VARIABLES
    entries,   \* _entries, in the order of their reservation: key and result
    request,   \* where each request is, the key it holds and the result it has
    effects,   \* how often the operation of a key took effect
    forgotten, \* history: how often the store lost what it knew of a key
    hostStops

opVars == <<entries, request, effects, forgotten, hostStops>>

RequestPlaces == {"idle", "reserve", "dispatch", "failed", "done"}
IdleRequest(k) == [at |-> "idle", key |-> k, held |-> FALSE, result |-> 0]
AnyKey == CHOOSE k \in Keys : TRUE

OperationsInit ==
    /\ entries = <<>>
    /\ request = [r \in Requests |-> IdleRequest(AnyKey)]
    /\ effects = [k \in Keys |-> 0]
    /\ forgotten = [k \in Keys |-> 0]
    /\ hostStops = 0

Known(k, list) == \E i \in DOMAIN list : list[i].key = k

\* list without the entry at gone, a set of at most one index.
WithoutEntry(list, gone) ==
    [i \in 1 .. Len(list) - Cardinality(gone) |->
        list[IF \E j \in gone : j <= i THEN i + 1 ELSE i]]

\* release: a key is in the store at most once.
Dropping(k, list) == WithoutEntry(list, {i \in DOMAIN list : list[i].key = k})

\* BUG PATTERN: the oldest entry goes, also when its operation is running.
FaultyEvicted(list) == IF Len(list) > EntryLimit THEN {1} ELSE {}

\* _trim_completed_entries: the oldest entry that has its result; none when all
\* are still running. One call adds one entry, so one is enough.
Evicted(list) ==
    LET completed == {i \in DOMAIN list : list[i].result # Reserved}
    IN  IF Len(list) > EntryLimit
        THEN {i \in completed : \A j \in completed : i <= j}
        ELSE {}

\* The store holds list, trimmed.
Hold(list) ==
    /\ entries' = WithoutEntry(list, Evicted(list))
    /\ forgotten' = [k \in Keys |->
          forgotten[k] + IF \E i \in Evicted(list) : list[i].key = k THEN 1 ELSE 0]

OpAt(r, place) == request[r].at = place

\* A client sends a request, or one again whose answer it has lost. Permission
\* and the shape of the input are checked before the key is looked at.
SendRequest(r) ==
    /\ OpAt(r, "idle")
    /\ \E k \in Keys : effects[k] < MaxEffects
           /\ request' = [request EXCEPT ![r] = [at |-> "reserve", key |-> k,
                                                held |-> FALSE, result |-> 0]]
    /\ UNCHANGED <<entries, effects, forgotten, hostStops>>

\* The request goes on at a place, holding its key or not, with a result.
AdvanceRequest(r, place, held, result) ==
    request' = [request EXCEPT ![r] = [at |-> place, key |-> request[r].key,
                                       held |-> held, result |-> result]]

\* operation.in_progress: raised before the request holds the key.
Refuse(r) == AdvanceRequest(r, "failed", FALSE, 0)

\* reserve_or_replay, under the lock of the store.
Reserve(r) ==
    LET k == request[r].key
    IN  /\ OpAt(r, "reserve")
        /\ \/ /\ ~Known(k, entries)
              /\ Hold(Append(entries, [key |-> k, result |-> Reserved]))
              /\ AdvanceRequest(r, "dispatch", TRUE, 0)
           \/ /\ Known(k, entries)
              /\ \E i \in DOMAIN entries :
                    /\ entries[i].key = k
                    /\ IF entries[i].result = Reserved
                       THEN Refuse(r)
                       ELSE request' = [request EXCEPT ![r] = IdleRequest(AnyKey)]
              /\ UNCHANGED <<entries, forgotten>>
        /\ UNCHANGED <<effects, hostStops>>

\* _dispatch: takes effect and succeeds, or fails before or after it did. The
\* result is told apart by the number of the effect. An operation whose output
\* breaks its contract has failed after its effect.
Dispatch(r) ==
    LET k == request[r].key
    IN  /\ OpAt(r, "dispatch")
        /\ \/ /\ effects' = [effects EXCEPT ![k] = @ + 1]
              /\ \E next \in {"done", "failed"} : AdvanceRequest(r, next, TRUE, effects[k] + 1)
           \/ AdvanceRequest(r, "failed", TRUE, 0) /\ UNCHANGED effects
        /\ UNCHANGED <<entries, forgotten, hostStops>>

WithResult(k, res, list) ==
    [i \in DOMAIN list |-> IF list[i].key = k THEN [list[i] EXCEPT !.result = res] ELSE list[i]]

\* complete: keeps the result if the key is still there.
Complete(r) ==
    LET k == request[r].key
    IN  /\ OpAt(r, "done")
        /\ IF Known(k, entries)
           THEN Hold(WithResult(k, request[r].result, entries))
           ELSE UNCHANGED <<entries, forgotten>>
        /\ request' = [request EXCEPT ![r] = IdleRequest(AnyKey)]
        /\ UNCHANGED <<effects, hostStops>>

\* The error paths of invoke: a key that is held is given up, whatever the
\* operation did before it failed.
GiveUp(r) ==
    LET k == request[r].key
        gone == request[r].held /\ Known(k, entries)
    IN  /\ OpAt(r, "failed")
        /\ entries' = IF gone THEN Dropping(k, entries) ELSE entries
        /\ forgotten' = [forgotten EXCEPT ![k] =
                           @ + IF gone /\ request[r].result # 0 THEN 1 ELSE 0]
        /\ request' = [request EXCEPT ![r] = IdleRequest(AnyKey)]
        /\ UNCHANGED <<effects, hostStops>>

\* The host stops and starts: what was running is cut off, its effect done or not.
HostStop ==
    /\ hostStops < MaxHostStops
    /\ hostStops' = hostStops + 1
    /\ entries' = <<>>
    /\ forgotten' = [k \in Keys |-> forgotten[k] + IF effects[k] > forgotten[k] THEN 1 ELSE 0]
    /\ request' = [r \in Requests |-> IdleRequest(AnyKey)]
    /\ UNCHANGED effects

OperationsNext ==
    \/ HostStop
    \/ \E r \in Requests :
         SendRequest(r) \/ Reserve(r) \/ Dispatch(r) \/ Complete(r) \/ GiveUp(r)

OperationsSpec == OperationsInit /\ [][OperationsNext]_opVars

(* ---------------------------------------------------------------- *)
(* Properties.                                                      *)

OperationsTypeOK ==
    /\ entries \in Seq([key : Keys, result : Nat \cup {Reserved}])
    /\ request \in [Requests -> [at : RequestPlaces, key : Keys, held : BOOLEAN, result : Nat]]
    /\ effects \in [Keys -> Nat]
    /\ forgotten \in [Keys -> Nat]
    /\ hostStops \in 0 .. MaxHostStops

\* Whatever requests repeat a key, at once or later, its operation runs in at
\* most one of them at a time, and takes effect again only after the store has
\* lost the key: by evicting its result, by a failure that followed the effect,
\* or by a restart of the host.
EffectOncePerKey ==
    \A k \in Keys :
        /\ effects[k] <= 1 + forgotten[k]
        /\ Cardinality({r \in Requests : OpAt(r, "dispatch") /\ request[r].key = k}) <= 1
=============================================================================
