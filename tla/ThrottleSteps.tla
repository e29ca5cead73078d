--------------------------- MODULE ThrottleSteps ---------------------------
(***************************************************************************)
(* The failure counter of django_mfa_toolkit/throttling.py, one step per   *)
(* call it makes on the Django cache.  The cache maps a scope to the       *)
(* failures recorded for it, or to NoEntry.  Each cache call is atomic, as *)
(* in the local-memory, Redis and memcached backends, but checking a scope *)
(* and recording a failure are separate calls, and recording one takes up  *)
(* to three cache calls.  A step says what a client c does to the cache    *)
(* and to its own program counter; the adapters that throttle their calls  *)
(* conjoin it with what they leave alone.                                  *)
(***************************************************************************)
EXTENDS Integers

CONSTANTS NoEntry, Limit

ASSUME NoEntryAssumption == NoEntry \notin Int
ASSUME LimitAssumption   == Limit \in Nat \ {0}

VARIABLES cache, pc

Attempts(s) == IF cache[s] = NoEntry THEN 0 ELSE cache[s]

Goto(c, label) == pc' = [pc EXCEPT ![c] = label]

\* Slips the runs tell apart from the code: "<=" for "<"; set() for add().
AllowsOneMore(s)  == Attempts(s) <= Limit
AddOverwrites(s)  == [cache EXCEPT ![s] = 0]

\* check_mfa_throttle(config).allowed
ThrottleAllows(s) == Attempts(s) < Limit

PassCheck(c, s) ==
    /\ pc[c] = "throttle"
    /\ ThrottleAllows(s)
    /\ Goto(c, "verify")
    /\ UNCHANGED cache

FailCheck(c, s) ==
    /\ pc[c] = "throttle"
    /\ ~ThrottleAllows(s)
    /\ Goto(c, "commit")
    /\ UNCHANGED cache

\* reset_mfa_throttle: cache.delete(key)
Forgotten(s) == [cache EXCEPT ![s] = NoEntry]

Reset(c, s) ==
    /\ pc[c] = "reset"
    /\ cache' = Forgotten(s)
    /\ Goto(c, "commit")

\* record_mfa_throttle_failure: cache.add(key, 0, timeout=period) sets an
\* absent key only.
Added(s) == IF cache[s] = NoEntry THEN [cache EXCEPT ![s] = 0] ELSE cache

Add(c, s) ==
    /\ pc[c] = "add"
    /\ cache' = Added(s)
    /\ Goto(c, "incr")

\* cache.incr(key) raises ValueError when the key is absent ...
Incr(c, s) ==
    /\ pc[c] = "incr"
    /\ cache[s] # NoEntry
    /\ cache' = [cache EXCEPT ![s] = @ + 1]
    /\ Goto(c, "commit")

IncrRaises(c, s) ==
    /\ pc[c] = "incr"
    /\ cache[s] = NoEntry
    /\ Goto(c, "set")
    /\ UNCHANGED cache

\* ... and then cache.set(key, 1, timeout=period) starts the count again.
SetOne(c, s) ==
    /\ pc[c] = "set"
    /\ cache' = [cache EXCEPT ![s] = 1]
    /\ Goto(c, "commit")

\* An entry expires, or the backend evicts it.
Forget(s) ==
    /\ cache[s] # NoEntry
    /\ cache' = Forgotten(s)
    /\ UNCHANGED pc
=============================================================================
