----------------------------- MODULE HOTPDevice -----------------------------
(***************************************************************************)
(* The HOTP device adapters of django_mfa_toolkit/device_adapters.py:      *)
(* several callers (request threads or processes) run verify_hotp_device   *)
(* and resync_hotp_device on the rows of the HOTPDevice table and on one   *)
(* throttle cache.                                                         *)
(*                                                                         *)
(* A call is one database transaction: it locks the row (SELECT ... FOR    *)
(* UPDATE), checks the device and the throttle, compares the submission,   *)
(* saves the counter, resets or counts up the throttle, inserts the audit  *)
(* event when asked to, and commits.  What it writes to the tables shows   *)
(* at its commit and is lost when it aborts; what it writes to the cache   *)
(* is outside the transaction, shows at once and is never undone.          *)
(***************************************************************************)
EXTENDS HOTP, ThrottleSteps, FiniteSets

CONSTANTS
    Clients,         \* callers of the adapters
    Devices,         \* primary keys of HOTPDevice rows (and their secrets)
    Scopes,          \* throttle scopes
    NoScope,         \* throttle_scope=None: no throttling
    ScopesOf,        \* the scopes a device's calls are made with
    Kinds,           \* the services called: "verify", "resync"
    AuditModes,      \* the values of persist_audit that calls are made with
    NoOne,           \* nobody holds the row lock
    NoCall,          \* no call in progress
    Junk,            \* a code that is not one of the token's
    LookAhead, SearchWindow, ReplayWindow,    \* the window arguments
    InitialCounters, \* the initial_counter arguments of enrolments
    MaxCounter,      \* the largest value the counter column takes
    MaxAudit         \* bound: audit events of one device

ASSUME ClientsAssumption  == NoOne \notin Clients
ASSUME DevicesAssumption  == IsFiniteSet(Devices)
ASSUME ScopesAssumption   == /\ NoScope \notin Scopes
                             /\ ScopesOf \in [Devices -> SUBSET (Scopes \cup {NoScope})]
ASSUME WindowsAssumption  == /\ LookAhead \in Nat
                             /\ SearchWindow \in Nat
                             /\ ReplayWindow \in Nat
ASSUME CountersAssumption == /\ MaxCounter \in Nat
                             /\ InitialCounters \subseteq 0..MaxCounter
ASSUME InputsAssumption   == /\ Kinds \subseteq {"verify", "resync"}
                             /\ AuditModes \subseteq BOOLEAN

VARIABLES
    \* the tables, as committed
    enrolled,     \* the rows that exist
    hotp_counter, \* device -> HOTPDevice.hotp_counter
    is_active,    \* device -> HOTPDevice.is_active
    confirmed,    \* device -> whether HOTPDevice.confirmed_at is set
    audit,        \* device -> its MFAAuditEvent rows, in commit order
    lock,         \* device -> the client that holds the row lock
    \* the calls; pc (of ThrottleSteps) says what a call does next
    call,         \* client -> the arguments of its call
    result,       \* client -> the result it has computed
    row,          \* client -> the counter of the row it read under the lock
    \* the environment and the history
    token,        \* device -> the counter of the user's hardware token
    uses          \* device -> counter -> acceptances that spent it (history)

tables == <<enrolled, hotp_counter, is_active, confirmed, audit, uses>>
vars   == <<tables, lock, cache, pc, call, result, row, token>>

Counters == 0..MaxCounter

\* Every code a user can come to submit, and those the token has shown so far.
Codes    == {CodeAt(d, n) : d \in Devices, n \in Counters} \cup {Junk, Blank}
Shown(d) == {CodeAt(d, n) : n \in 0..(token[d] - 1)}

\* A submission is a code the token has shown (a fresh one, one submitted
\* before, one out of order) or no code of the token at all.
Submissions(d) == Shown(d) \cup {Junk, Blank}

SubmittedCodes(d, kind) ==
    IF kind = "verify" THEN {<<x>> : x \in Submissions(d)}
    ELSE {<<Junk>>} \cup {<<x, y>> : x \in Submissions(d), y \in Submissions(d)}

Calls == [kind: {"verify", "resync"}, device: Devices, codes: Seq(Codes),
          scope: Scopes \cup {NoScope}, audited: BOOLEAN]

Results ==
    [accepted: BOOLEAN,
     classification: {"success", "counter_window_match", "resync_success", "replay",
                      "excessive_drift", "invalid", "throttled"},
     server: Nat, matched: Nat \cup {None}, next: Nat]

Init ==
    /\ enrolled = {}
    /\ hotp_counter = [d \in Devices |-> 0]
    /\ is_active = [d \in Devices |-> FALSE]
    /\ confirmed = [d \in Devices |-> FALSE]
    /\ audit = [d \in Devices |-> <<>>]
    /\ lock = [d \in Devices |-> NoOne]
    /\ cache = [s \in Scopes |-> NoEntry]
    /\ pc = [c \in Clients |-> "idle"]
    /\ call = [c \in Clients |-> NoCall]
    /\ result = [c \in Clients |-> None]
    /\ row = [c \in Clients |-> None]
    /\ token = [d \in Devices |-> 0]
    /\ uses = [d \in Devices |-> [n \in Counters |-> 0]]

(***************************************************************************)
(* What surrounds the adapters: enrolment, the application's own updates   *)
(* of the row (each waits for the row lock), the user's token and the      *)
(* cache, where an entry expires or is evicted at any time.                *)
(***************************************************************************)
\* The provisioning data starts the user's token at the counter of the row.
enroll_hotp(d, initial_counter) == token' = [token EXCEPT ![d] = initial_counter]

enroll_hotp_device(d) ==
    /\ d \notin enrolled
    /\ enrolled' = enrolled \cup {d}
    /\ \E n \in InitialCounters :
          /\ enroll_hotp(d, n)
          /\ hotp_counter' = [hotp_counter EXCEPT ![d] = n]
    /\ is_active' = [is_active EXCEPT ![d] = TRUE]
    /\ confirmed' = [confirmed EXCEPT ![d] = FALSE]
    /\ UNCHANGED <<audit, uses, lock, cache, pc, call, result, row>>

\* A slip: the row is read without select_for_update().
NoRowLock(d) == TRUE

LockFree(d) == lock[d] = NoOne

Confirm(d) ==
    /\ d \in enrolled /\ LockFree(d)
    /\ ~confirmed[d]
    /\ confirmed' = [confirmed EXCEPT ![d] = TRUE]
    /\ UNCHANGED <<enrolled, hotp_counter, is_active, audit, uses, lock, cache,
                   pc, call, result, row, token>>

SetActive(d) ==
    /\ d \in enrolled /\ LockFree(d)
    /\ is_active' = [is_active EXCEPT ![d] = ~@]
    /\ UNCHANGED <<enrolled, hotp_counter, confirmed, audit, uses, lock, cache,
                   pc, call, result, row, token>>

\* The token may run ahead of the server: the user need not submit what it shows.
PressToken(d) ==
    /\ d \in enrolled
    /\ token[d] <= MaxCounter
    /\ token' = [token EXCEPT ![d] = @ + 1]
    /\ UNCHANGED <<tables, lock, cache, pc, call, result, row>>

CacheForget(s) ==
    /\ Forget(s)
    /\ UNCHANGED <<tables, lock, call, result, row, token>>

(***************************************************************************)
(* One call of verify_hotp_device or resync_hotp_device.                   *)
(***************************************************************************)
Device(c) == call[c].device
Scope(c)  == call[c].scope

\* Audited calls in progress count against the bound: each may add an event.
AuditRoom(d) ==
    Len(audit[d]) + Cardinality({c \in Clients :
        pc[c] # "idle" /\ Device(c) = d /\ call[c].audited}) < MaxAudit

Call(c, kind, d) ==
    /\ pc[c] = "idle"
    /\ d \in enrolled
    /\ \E codes \in SubmittedCodes(d, kind), s \in ScopesOf[d], a \in AuditModes :
          /\ a => AuditRoom(d)
          /\ call' = [call EXCEPT ![c] = [kind |-> kind, device |-> d, codes |-> codes,
                                          scope |-> s, audited |-> a]]
    /\ Goto(c, "lock")
    /\ UNCHANGED <<tables, lock, cache, result, row, token>>

\* What the service would answer for the row the client holds.
BlankResult(c, server) ==
    IF call[c].kind = "verify"
      THEN verify_hotp(Device(c), Blank, server, LookAhead, ReplayWindow)
      ELSE resync_hotp(Device(c), <<Blank, Blank>>, server, SearchWindow, ReplayWindow)

ServiceResult(c, server) ==
    IF call[c].kind = "verify"
      THEN verify_hotp(Device(c), call[c].codes[1], server, LookAhead, ReplayWindow)
      ELSE resync_hotp(Device(c), call[c].codes, server, SearchWindow, ReplayWindow)

ServiceRaises(c) == call[c].kind = "resync" /\ ~EnoughCodes(call[c].codes)

_device_can_verify(d) == is_active[d] /\ confirmed[d]

\* select_for_update().get(): waits for the lock and reads the row as last
\* committed; an inactive or unconfirmed device is answered at once.
Lock(c) ==
    LET d == Device(c) IN
    /\ pc[c] = "lock"
    /\ LockFree(d)
    /\ lock' = [lock EXCEPT ![d] = c]
    /\ row' = [row EXCEPT ![c] = hotp_counter[d]]
    /\ \/ /\ ~_device_can_verify(d)
          /\ result' = [result EXCEPT ![c] = BlankResult(c, hotp_counter[d])]
          /\ Goto(c, "commit")
       \/ /\ _device_can_verify(d)
          /\ Goto(c, IF Scope(c) = NoScope THEN "verify" ELSE "throttle")
          /\ UNCHANGED result
    /\ UNCHANGED <<tables, cache, call, token>>

ThrottledResult(c) == Rejected("throttled", row[c], None)

CheckThrottle(c) ==
    /\ \/ /\ PassCheck(c, Scope(c))
          /\ UNCHANGED result
       \/ /\ FailCheck(c, Scope(c))
          /\ result' = [result EXCEPT ![c] = ThrottledResult(c)]
    /\ UNCHANGED <<tables, lock, call, row, token>>

\* A slip: no check on the range of the column.
AnyCounterFits(n) == TRUE

\* The counter column refuses a value out of its range: save() raises.
CounterFits(n) == n <= MaxCounter

\* What follows the comparison and, when it succeeded, the save of the counter.
\* The codes are not needed any more.
AfterVerify(c, accepted) ==
    IF Scope(c) = NoScope THEN "commit" ELSE IF accepted THEN "reset" ELSE "add"

Verify(c) ==
    LET res == ServiceResult(c, row[c]) IN
    /\ pc[c] = "verify"
    /\ ~ServiceRaises(c)
    /\ CounterFits(res.next)
    /\ result' = [result EXCEPT ![c] = res]
    /\ Goto(c, AfterVerify(c, res.accepted))
    /\ call' = [call EXCEPT ![c].codes = <<>>]
    /\ UNCHANGED <<tables, lock, cache, row, token>>

ResetThrottle(c) ==
    /\ Reset(c, Scope(c))
    /\ UNCHANGED <<tables, lock, call, result, row, token>>

RecordFailure(c) ==
    /\ \/ Add(c, Scope(c))
       \/ Incr(c, Scope(c))
       \/ IncrRaises(c, Scope(c))
       \/ SetOne(c, Scope(c))
    /\ UNCHANGED <<tables, lock, call, result, row, token>>

\* A slip: the end of a transaction leaves its row locked.
KeepLock(c) == lock

Release(c) == [d \in Devices |-> IF lock[d] = c THEN NoOne ELSE lock[d]]

Return(c) ==
    /\ Goto(c, "idle")
    /\ call' = [call EXCEPT ![c] = NoCall]
    /\ result' = [result EXCEPT ![c] = None]
    /\ row' = [row EXCEPT ![c] = None]

\* The counters an accepted result spends: the one it matched and those up to
\* the next.
Spent(res) == {res.matched} \cup (res.matched..(res.next - 1))

create_audit_event(d, res) == [audit EXCEPT ![d] = Append(@, res)]

Commit(c) ==
    LET d == Device(c)  res == result[c] IN
    /\ pc[c] = "commit"
    /\ IF res.accepted
         THEN /\ hotp_counter' = [hotp_counter EXCEPT ![d] = res.next]
              /\ uses' = [uses EXCEPT ![d] =
                   [n \in Counters |-> uses[d][n] + (IF n \in Spent(res) THEN 1 ELSE 0)]]
         ELSE UNCHANGED <<hotp_counter, uses>>
    /\ audit' = IF call[c].audited THEN create_audit_event(d, res) ELSE audit
    /\ lock' = Release(c)
    /\ Return(c)
    /\ UNCHANGED <<enrolled, is_active, confirmed, cache, token>>

\* A slip: the counter is saved outside the transaction of the audit event.
AbortKeepsSave(c) ==
    /\ pc[c] # "idle"
    /\ hotp_counter' = IF pc[c] = "commit" /\ result[c].accepted
                         THEN [hotp_counter EXCEPT ![Device(c)] = result[c].next]
                         ELSE hotp_counter
    /\ lock' = Release(c)
    /\ Return(c)
    /\ UNCHANGED <<enrolled, is_active, confirmed, audit, uses, cache, token>>

\* An exception in the call (its service or its save raises, its audit event
\* cannot be inserted, the lock wait times out) or the end of its process: the
\* transaction rolls back, the cache keeps what was done to it.
Abort(c) ==
    /\ pc[c] # "idle"
    /\ lock' = Release(c)
    /\ Return(c)
    /\ UNCHANGED <<tables, cache, token>>

(***************************************************************************)
(* Specification                                                           *)
(***************************************************************************)
Work(c) ==
    \/ CheckThrottle(c) \/ Verify(c) \/ ResetThrottle(c) \/ RecordFailure(c) \/ Commit(c)

Next ==
    \/ \E d \in Devices :
          enroll_hotp_device(d) \/ Confirm(d) \/ SetActive(d) \/ PressToken(d)
    \/ \E s \in Scopes : CacheForget(s)
    \/ \E c \in Clients :
          \/ \E kind \in Kinds, d \in Devices : Call(c, kind, d)
          \/ Lock(c) \/ Work(c) \/ Abort(c)

Spec == Init /\ [][Next]_vars

\* A call that holds its lock goes on, or its transaction ends.  The database
\* grants the lock of a row to each waiting transaction in the end: SF, because
\* other transactions take the lock in between.
HasLock(c) == pc[c] \notin {"idle", "lock"}

Fairness ==
    \A c \in Clients : /\ WF_vars(Work(c) \/ (HasLock(c) /\ Abort(c)))
                       /\ SF_vars(Lock(c))

FairSpec == Spec /\ Fairness

(***************************************************************************)
(* Properties                                                              *)
(***************************************************************************)

\* Every variable has its type; in particular a committed counter fits its
\* column, whatever look-ahead or resynchronisation moved it to.
TypeOK ==
    /\ enrolled \subseteq Devices
    /\ hotp_counter \in [Devices -> Counters]
    /\ is_active \in [Devices -> BOOLEAN]
    /\ confirmed \in [Devices -> BOOLEAN]
    /\ audit \in [Devices -> Seq(Results)]
    /\ lock \in [Devices -> Clients \cup {NoOne}]
    /\ cache \in [Scopes -> Nat \cup {NoEntry}]
    /\ pc \in [Clients -> {"idle", "lock", "throttle", "verify", "reset", "add",
                           "incr", "set", "commit"}]
    /\ call \in [Clients -> Calls \cup {NoCall}]
    /\ result \in [Clients -> Results \cup {None}]
    /\ row \in [Clients -> Nat \cup {None}]
    /\ token \in [Devices -> 0..(MaxCounter + 1)]
    /\ uses \in [Devices -> [Counters -> Nat]]

\* A counter of a device is honoured at most once, however calls on the device
\* interleave, abort or repeat a code: the adapters implement OneTimeUse.
OneTime == INSTANCE OneTimeUse WITH Holders <- Devices, Tokens <- Counters

HonouredOnce == OneTime!Spec

\* The saved counter never goes back, and no step carries it further than the
\* widest search of the services reaches past the counter that step finds.
WidestSearch == IF LookAhead > SearchWindow THEN LookAhead ELSE SearchWindow

CounterOnlyAdvances ==
    [][\A d \in enrolled :
          hotp_counter'[d] \in hotp_counter[d]..(hotp_counter[d] + WidestSearch + 1)]_vars

\* The server never runs ahead of the hardware token: it stores no counter the
\* token has not shown the code of (device codes being distinct).
TokenNotOvertaken == \A d \in Devices : hotp_counter[d] <= token[d]

\* The devices whose calls count against a scope, and the overshoot: every one
\* of them may have one checked call in flight, held apart by its row lock, so
\* a scope of one device never exceeds the limit.
Sharing(s) == {d \in Devices : s \in ScopesOf[d]}

FailuresBounded ==
    \A s \in Scopes : Attempts(s) <= Limit - 1 + Cardinality(Sharing(s))

\* A call that has passed the check of a scope only its device uses still finds
\* the scope below the limit when it compares the code: check and comparison
\* are one step under the row lock.
CheckedIsAllowed ==
    \A c \in Clients :
        pc[c] = "verify" /\ Scope(c) # NoScope /\ Sharing(Scope(c)) = {Device(c)}
          => ThrottleAllows(Scope(c))

\* A reset of the throttle stands when the transaction it was made in does not.
\* Then the codes that earned it are as good as they were: submitted again they
\* get the same answer from the row as it stands after the failure, and a scope
\* only this device uses has no failures left to refuse them for.
Resubmitted(c) ==
    [i \in 1..(result[c].next - result[c].matched) |->
        CodeAt(Device(c), result[c].matched + i - 1)]

Retry(c, server) ==
    IF call[c].kind = "verify"
      THEN verify_hotp(Device(c), Resubmitted(c)[1], server, LookAhead, ReplayWindow)
      ELSE resync_hotp(Device(c), Resubmitted(c), server, SearchWindow, ReplayWindow)

Throttles(c) == Scope(c) # NoScope /\ Sharing(Scope(c)) = {Device(c)}

RetryIsAccepted ==
    [][\A c \in Clients :
          /\ pc[c] = "commit" /\ result[c].accepted
          /\ pc'[c] = "idle" /\ uses' = uses
          => /\ Retry(c, hotp_counter'[Device(c)]) = result[c]
             /\ Throttles(c) => cache'[Scope(c)] = NoEntry]_vars

\* The audit events of a device chain: each begins at or after the counter the
\* one before it ended with, and none is ahead of the saved counter; an event
\* of a call that was rolled back does not exist.
AuditIsOrdered ==
    \A d \in Devices :
        /\ \A j \in 1..Len(audit[d]) : audit[d][j].next <= hotp_counter[d]
        /\ \A i, j \in 1..Len(audit[d]) :
              i < j => audit[d][i].next <= audit[d][j].server

\* When every call is audited the events of a device account for its counter:
\* they lead without a gap from the counter it was enrolled with to the saved
\* one, and the counters they report accepted are the ones honoured.
Spenders(d, m) ==
    {i \in 1..Len(audit[d]) : audit[d][i].accepted /\ m \in Spent(audit[d][i])}

AuditAccountsForCounter ==
    AuditModes = {TRUE} =>
        \A d \in Devices :
            LET n == Len(audit[d]) IN
            /\ \A i \in 1..(n - 1) : audit[d][i].next = audit[d][i + 1].server
            /\ n > 0 => /\ audit[d][1].server \in InitialCounters
                        /\ audit[d][n].next = hotp_counter[d]
            /\ \A m \in Counters : uses[d][m] = Cardinality(Spenders(d, m))

\* What the integration guide has an application do to confirm a new device:
\* submit the first code to verify_hotp_device and confirm the device when it is
\* accepted.  So the code of the stored counter is not refused on a device that
\* is active, throttled calls aside.
FirstCodeConfirms ==
    \A c \in Clients :
        /\ pc[c] = "commit"
        /\ is_active[Device(c)]
        /\ call[c].kind = "verify"
        /\ call[c].codes = <<CodeAt(Device(c), row[c])>>
        /\ result[c].classification # "throttled"
        => result[c].accepted

\* Every call returns, whatever the others do and however long they queue.
EveryCallReturns == \A c \in Clients : pc[c] # "idle" ~> pc[c] = "idle"

(***************************************************************************)
(* The inductive invariant behind them.                                    *)
(***************************************************************************)
CallsAreOnRows ==
    \A c \in Clients : pc[c] # "idle" => call[c] \in Calls /\ Device(c) \in enrolled

\* A client past its lock step holds the lock of its row, and what it read of
\* the row is still what the table holds.
RowIsCurrent ==
    \A c \in Clients :
        HasLock(c) => lock[Device(c)] = c /\ row[c] = hotp_counter[Device(c)]

\* A result reports the counter it was given; an accepted one moves on from
\* there, past the counter it matched and no further than its search reaches,
\* and a rejected one stays.
ResultFits(res, server, width) ==
    /\ res \in Results
    /\ res.server = server
    /\ res.accepted => /\ res.matched \in Nat
                       /\ server <= res.matched
                       /\ res.matched < res.next
                       /\ res.next <= server + width + 1
    /\ ~res.accepted => res.next = server

ResultsFit ==
    \A c \in Clients :
        pc[c] \in {"reset", "add", "incr", "set", "commit"} =>
            ResultFits(result[c], row[c], WidestSearch) /\ CounterFits(result[c].next)

SpentIsBelowCounter ==
    \A d \in Devices : \A n \in Counters :
        /\ uses[d][n] \in {0, 1}
        /\ uses[d][n] = 1 => d \in enrolled /\ n < hotp_counter[d]

AuditIsOfRows == \A d \in Devices : d \notin enrolled => audit[d] = <<>>

Inv ==
    /\ TypeOK
    /\ CallsAreOnRows
    /\ RowIsCurrent
    /\ ResultsFit
    /\ SpentIsBelowCounter
    /\ AuditIsOrdered
    /\ AuditIsOfRows

(***************************************************************************)
(* What is added to it for the throttle, a complete trail and the token.   *)
(***************************************************************************)
ScopesFit == \A c \in Clients : pc[c] # "idle" => Scope(c) \in ScopesOf[Device(c)]

PastCheck(c) == pc[c] \in {"verify", "reset", "add", "incr", "set"}

\* The devices with a call that has passed the check of the scope: each may add
\* one failure more.
CheckedDevices(s) ==
    {d \in Devices : \E c \in Clients : PastCheck(c) /\ Device(c) = d /\ Scope(c) = s}

RoomForChecked ==
    \A s \in Scopes :
        Attempts(s) + Cardinality(CheckedDevices(s)) <= Limit - 1 + Cardinality(Sharing(s))

\* Until it returns, an accepted call could be made again with the same result,
\* and once it has reset a scope of its own device nobody counts against it.
RetryFits(c) ==
    /\ pc[c] \in {"add", "incr", "set"} => ~result[c].accepted
    /\ pc[c] \in {"reset", "commit"} /\ result[c].accepted =>
          /\ Retry(c, row[c]) = result[c]
          /\ pc[c] = "commit" /\ Throttles(c) => cache[Scope(c)] = NoEntry

RetriesFit == \A c \in Clients : RetryFits(c)

InvWithThrottle == Inv /\ ScopesFit /\ CheckedIsAllowed /\ RoomForChecked

\* A trail that is complete begins where the row did.
AuditBegins ==
    AuditModes = {TRUE} =>
        /\ \A c \in Clients : pc[c] # "idle" => call[c].audited
        /\ \A d \in enrolled : audit[d] = <<>> => hotp_counter[d] \in InitialCounters

InvWithTrail == Inv /\ AuditBegins /\ AuditAccountsForCounter

\* When codes are distinct: clients submit what the token has shown, and a result
\* takes a counter no further than the token.
CodesAreShown ==
    \A c \in Clients : pc[c] \in {"lock", "throttle", "verify"} =>
        /\ \A i \in 1..Len(call[c].codes) : call[c].codes[i] \in Submissions(Device(c))
        /\ call[c].kind = "verify" => Len(call[c].codes) = 1

ResultsNotOvertaken ==
    \A c \in Clients :
        pc[c] \in {"reset", "add", "incr", "set", "commit"} =>
            result[c].next <= token[Device(c)]

InvWithToken == Inv /\ TokenNotOvertaken /\ CodesAreShown /\ ResultsNotOvertaken

\* What the return of every call rests on besides fairness: whoever holds a row
\* lock is at work on that row and waits for no other, so calls cannot wait for
\* one another in a circle, and no lock outlives its call.
LockHoldersWork ==
    \A d \in Devices :
        lock[d] # NoOne => HasLock(lock[d]) /\ Device(lock[d]) = d
=============================================================================
