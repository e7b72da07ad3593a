-------------------------- MODULE MCRuntimeSession --------------------------
(* Small instances of RuntimeSession: which sessions, threads and calls.   *)
EXTENDS RuntimeSession, TLC

CONSTANTS s1, s2, t1, t2

OneSession   == {s1}
TwoSessions  == {s1, s2}
OneThread    == {t1}
TwoThreads   == {t1, t2}

\* The calls of one run: start, run in a worker thread, abort.
ThreadedCalls == {"start", "execute", "abort"}
UnlockCalls   == ThreadedCalls \cup {"unlock"}
CloseCalls    == ThreadedCalls \cup {"close_project"}
AllButClose   == UnlockCalls \cup {"run"}

\* API threads are interchangeable, and so are sessions.
MCSymmetry == Permutations(Threads) \cup Permutations(Sessions)
=============================================================================
