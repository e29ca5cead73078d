----------------------------- MODULE Throttling -----------------------------
(***************************************************************************)
(* The throttle in time, without the help of a row lock: callers check a   *)
(* scope, compare a code and report the outcome, as recovery-code          *)
(* verification and the integrators of the public functions do.  An entry  *)
(* lives for throttle_period ticks from the call that created it; a caller *)
(* may be delayed at any point and may die between any two cache calls.    *)
(***************************************************************************)
EXTENDS ThrottleSteps, FiniteSets

CONSTANTS
    Clients,
    Scopes,
    Period,        \* throttle_period, in ticks
    MaxFailures    \* bound: failures counted by the history of a scope

ASSUME ClientsAssumption == IsFiniteSet(Clients)
ASSUME PeriodAssumption  == Period \in Nat \ {0}
ASSUME BoundAssumption   == MaxFailures \in Nat

VARIABLES
    scope,     \* client -> the scope of its call
    ttl,       \* scope -> ticks the entry has left
    failures,  \* scope -> failures reported since it last had no entry (history)
    torn       \* scope -> whether a record was cut short, or lost its entry,
               \* since then (history)

history == <<failures, torn>>
vars    == <<cache, pc, scope, ttl, history>>

Init ==
    /\ cache = [s \in Scopes |-> NoEntry]
    /\ pc = [c \in Clients |-> "idle"]
    /\ scope \in [Clients -> Scopes]
    /\ ttl = [s \in Scopes |-> 0]
    /\ failures = [s \in Scopes |-> 0]
    /\ torn = [s \in Scopes |-> FALSE]

Present(s)  == cache[s] # NoEntry
Reporting(s) == {c \in Clients : scope[c] = s /\ pc[c] \in {"add", "incr", "set"}}

\* Slips: the entry is added without its timeout; incr() renews it.
TtlNeverStarted(s) == [ttl EXCEPT ![s] = Period + 1]
TtlRenewed(s)      == [ttl EXCEPT ![s] = Period]

\* add and set pass timeout=period; incr keeps what the entry has left.
TtlStarted(s) == [ttl EXCEPT ![s] = Period]
TtlKept(s)    == ttl

\* The failures counted so far are gone with the entries of S; records under
\* way will find no entry.
ForgetFailures(S) ==
    /\ failures' = [s \in Scopes |->
          IF s \in S THEN Cardinality(Reporting(s)) ELSE failures[s]]
    /\ torn' = [s \in Scopes |-> IF s \in S THEN Reporting(s) # {} ELSE torn[s]]

Start(c) ==
    /\ pc[c] = "idle"
    /\ Goto(c, "throttle")
    /\ UNCHANGED <<cache, scope, ttl, history>>

Check(c) ==
    /\ PassCheck(c, scope[c]) \/ FailCheck(c, scope[c])
    /\ UNCHANGED <<scope, ttl, history>>

Succeed(c) ==
    /\ pc[c] = "verify"
    /\ Goto(c, "reset")
    /\ UNCHANGED <<cache, scope, ttl, history>>

Fail(c) ==
    /\ pc[c] = "verify"
    /\ failures[scope[c]] < MaxFailures
    /\ Goto(c, "add")
    /\ failures' = [failures EXCEPT ![scope[c]] = @ + 1]
    /\ UNCHANGED <<cache, scope, ttl, torn>>

reset_mfa_throttle(c) ==
    /\ Reset(c, scope[c])
    /\ ttl' = [ttl EXCEPT ![scope[c]] = 0]
    /\ ForgetFailures({scope[c]})
    /\ UNCHANGED scope

record_mfa_throttle_failure(c) ==
    LET s == scope[c] IN
    /\ \/ Add(c, s)  /\ ttl' = IF Present(s) THEN ttl ELSE TtlStarted(s)
       \/ Incr(c, s) /\ ttl' = TtlKept(s)
       \/ IncrRaises(c, s) /\ UNCHANGED ttl
       \/ SetOne(c, s) /\ ttl' = TtlStarted(s)
    /\ UNCHANGED <<scope, history>>

Finish(c) ==
    /\ pc[c] = "commit"
    /\ Goto(c, "idle")
    /\ UNCHANGED <<cache, scope, ttl, history>>

\* A caller that dies before its record leaves the failure uncounted; when
\* there is no entry to fall short, the history drops it too.
Die(c) ==
    LET s == scope[c] IN
    /\ pc[c] \notin {"idle", "commit"}
    /\ Goto(c, "idle")
    /\ IF c \in Reporting(s)
         THEN /\ torn' = [torn EXCEPT ![s] = @ \/ Present(s)]
              /\ failures' = [failures EXCEPT ![s] = IF Present(s) THEN @ ELSE @ - 1]
         ELSE UNCHANGED history
    /\ UNCHANGED <<cache, scope, ttl>>

\* Time passes; an entry without ticks left is gone.  An entry that was given
\* more than Period ticks would never expire.
Tick ==
    /\ \E s \in Scopes : Present(s)
    /\ ttl' = [s \in Scopes |-> IF ttl[s] \in 1..Period THEN ttl[s] - 1 ELSE ttl[s]]
    /\ cache' = [s \in Scopes |-> IF ttl[s] = 1 THEN NoEntry ELSE cache[s]]
    /\ ForgetFailures({s \in Scopes : ttl[s] = 1})
    /\ UNCHANGED <<pc, scope>>

Step(c) ==
    \/ Check(c) \/ Succeed(c) \/ Fail(c)
    \/ reset_mfa_throttle(c) \/ record_mfa_throttle_failure(c) \/ Finish(c)

Next == Tick \/ \E c \in Clients : Start(c) \/ Step(c) \/ Die(c)

Spec == Init /\ [][Next]_vars

\* Time passes.  Nothing is assumed of the callers.
FairSpec == Spec /\ WF_vars(Tick)

-----------------------------------------------------------------------------
Locked(s) == Attempts(s) >= Limit

\* Callers whose check has let them through.
Admitted(s) == {c \in Clients :
                  scope[c] = s /\ pc[c] \in {"verify", "reset", "add", "incr", "set"}}

\* Types; and an entry is there exactly as long as it has time left.
TypeOK ==
    /\ cache \in [Scopes -> 0..(Limit + Cardinality(Clients)) \cup {NoEntry}]
    /\ ttl \in [Scopes -> 0..Period]
    /\ failures \in [Scopes -> 0..MaxFailures]
    /\ torn \in [Scopes -> BOOLEAN]
    /\ \A s \in Scopes : Present(s) <=> ttl[s] > 0

\* Concurrent records lose nothing and invent nothing: the count and the
\* records under way are the failures reported since the scope last had no
\* entry.  Only a caller that died in a record, or an entry that vanished in
\* the middle of one, can make the count fall short; nothing makes it exceed.
FailuresCounted ==
    \A s \in Scopes :
        LET counted == Attempts(s) + Cardinality(Reporting(s)) IN
        /\ counted <= failures[s]
        /\ ~torn[s] => counted = failures[s]

\* Without a row lock every caller may have passed the check when the limit is
\* reached; the count overshoots it by the callers beyond one, and no further.
OvershootBounded ==
    \A s \in Scopes : Attempts(s) <= Limit - 1 + Cardinality({c \in Clients : scope[c] = s})

\* Once a scope is locked and every caller admitted before has finished, nobody
\* is admitted and the entry stays as it is until it expires.
SettledLockoutHolds ==
    [][\A s \in Scopes :
          Locked(s) /\ Admitted(s) = {} =>
              \/ cache'[s] = cache[s] /\ Admitted(s)' = {}
              \/ cache'[s] = NoEntry /\ ttl[s] = 1]_vars

\* The window is fixed: no failure prolongs an entry, except a record that
\* found the entry gone and starts the count again.
WindowIsFixed ==
    [][\A s \in Scopes :
          Present(s) /\ ttl'[s] > ttl[s] =>
              cache'[s] = 1 /\ \E c \in Clients : scope[c] = s /\ pc[c] = "set"]_vars

\* A lockout ends, however the callers go on and wherever they die.
LockoutEnds == \A s \in Scopes : Locked(s) ~> ~Locked(s)

-----------------------------------------------------------------------------
(* The inductive invariant behind FailuresCounted and OvershootBounded. *)
Labels == {"idle", "throttle", "verify", "reset", "add", "incr", "set", "commit"}

LocalsAreTyped ==
    /\ cache \in [Scopes -> Nat \cup {NoEntry}]
    /\ ttl \in [Scopes -> 0..Period]
    /\ failures \in [Scopes -> 0..MaxFailures]
    /\ torn \in [Scopes -> BOOLEAN]
    /\ pc \in [Clients -> Labels]
    /\ scope \in [Clients -> Scopes]

EntriesHaveTime == \A s \in Scopes : Present(s) <=> ttl[s] > 0

\* Every admitted caller may yet add one failure.
Callers(s) == {c \in Clients : scope[c] = s}

RoomForAdmitted ==
    \A s \in Scopes :
        Attempts(s) + Cardinality(Admitted(s)) <= Limit - 1 + Cardinality(Callers(s))

\* A record that finds no entry after its add() has lost one.
LostIsTorn ==
    \A c \in Clients :
        pc[c] = "set" \/ (pc[c] = "incr" /\ ~Present(scope[c])) => torn[scope[c]]

Inv ==
    /\ LocalsAreTyped /\ EntriesHaveTime
    /\ FailuresCounted /\ RoomForAdmitted /\ LostIsTorn
=============================================================================
