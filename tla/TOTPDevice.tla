----------------------------- MODULE TOTPDevice -----------------------------
(***************************************************************************)
(* verify_totp_device of django_mfa_toolkit/device_adapters.py: concurrent *)
(* callers on the rows of the TOTPDevice table and one throttle cache,     *)
(* while time passes.  Callers run on machines whose clocks are off by up  *)
(* to Skew steps either way, and the user's token is off by up to Drift.   *)
(* Transactions are as in HOTPDevice; TOTP attempts are not audited.       *)
(***************************************************************************)
EXTENDS TOTP, ThrottleSteps

CONSTANTS
    Clients, Devices, Scopes,
    NoScope,       \* throttle_scope=None
    ScopesOf,      \* the scopes a device's calls are made with
    NoOne,         \* nobody holds the row lock
    NoCall,        \* no call in progress
    Junk,          \* a code that is not one of the token's
    ValidWindow,   \* valid_window
    Skew, Drift,
    FirstStep,     \* the time step the model starts in
    LastStep       \* bound: the time step it ends in

ASSUME ClientsAssumption == NoOne \notin Clients
ASSUME ScopesAssumption  == /\ NoScope \notin Scopes
                            /\ ScopesOf \in [Devices -> SUBSET (Scopes \cup {NoScope})]
ASSUME TimeAssumption    == /\ {ValidWindow, Skew, Drift, FirstStep, LastStep} \subseteq Nat
                            /\ ValidWindow + Skew <= FirstStep
                            /\ FirstStep <= LastStep

VARIABLES
    enrolled,               \* the rows that exist
    last_accepted_timecode, \* device -> its column: a time step or None
    is_active, confirmed,   \* device -> the columns of MFADeviceBase
    lock,                   \* device -> the client that holds the row lock
    call, result,           \* client -> the arguments and the result of its call
    row,                    \* client -> the column of the row it holds
    now,                    \* the time step it is
    uses                    \* device -> step -> acceptances of it (history)

tables == <<enrolled, last_accepted_timecode, is_active, confirmed, uses>>
vars   == <<tables, lock, cache, pc, call, result, row, now>>

\* The steps a code can be accepted for while the model runs.
Timecodes == 0..(LastStep + Skew + ValidWindow)

\* A user submits a code the token shows or has shown, or something else.
Submissions(d) ==
    {CodeAt(d, t) : t \in (FirstStep - ValidWindow - Skew)..(now + Drift)} \cup {Junk, Blank}

Init ==
    /\ enrolled = {}
    /\ last_accepted_timecode = [d \in Devices |-> None]
    /\ is_active = [d \in Devices |-> FALSE]
    /\ confirmed = [d \in Devices |-> FALSE]
    /\ uses = [d \in Devices |-> [t \in Timecodes |-> 0]]
    /\ lock = [d \in Devices |-> NoOne]
    /\ cache = [s \in Scopes |-> NoEntry]
    /\ pc = [c \in Clients |-> "idle"]
    /\ call = [c \in Clients |-> NoCall]
    /\ result = [c \in Clients |-> None]
    /\ row = [c \in Clients |-> None]
    /\ now = FirstStep

(***************************************************************************)
(* Enrolment, the application's updates of the row, time and the cache.    *)
(***************************************************************************)
enroll_totp_device(d) ==
    /\ d \notin enrolled
    /\ enrolled' = enrolled \cup {d}
    /\ is_active' = [is_active EXCEPT ![d] = TRUE]
    /\ UNCHANGED <<last_accepted_timecode, confirmed, uses, lock, cache, pc, call,
                   result, row, now>>

\* A slip: the row is read without select_for_update().
NoRowLock(d) == TRUE

LockFree(d) == lock[d] = NoOne

Confirm(d) ==
    /\ d \in enrolled /\ LockFree(d)
    /\ ~confirmed[d]
    /\ confirmed' = [confirmed EXCEPT ![d] = TRUE]
    /\ UNCHANGED <<enrolled, last_accepted_timecode, is_active, uses, lock, cache, pc,
                   call, result, row, now>>

SetActive(d) ==
    /\ d \in enrolled /\ LockFree(d)
    /\ is_active' = [is_active EXCEPT ![d] = ~@]
    /\ UNCHANGED <<enrolled, last_accepted_timecode, confirmed, uses, lock, cache, pc,
                   call, result, row, now>>

Tick ==
    /\ now < LastStep
    /\ now' = now + 1
    /\ UNCHANGED <<tables, lock, cache, pc, call, result, row>>

CacheForget(s) ==
    /\ Forget(s)
    /\ UNCHANGED <<tables, lock, call, result, row, now>>

(***************************************************************************)
(* One call of verify_totp_device.                                         *)
(***************************************************************************)
Device(c) == call[c].device
Scope(c)  == call[c].scope

Call(c, d) ==
    /\ pc[c] = "idle"
    /\ d \in enrolled
    /\ \E code \in Submissions(d), s \in ScopesOf[d] :
          call' = [call EXCEPT ![c] = [device |-> d, code |-> code, scope |-> s]]
    /\ Goto(c, "lock")
    /\ UNCHANGED <<tables, lock, cache, result, row, now>>

_device_can_verify(d) == is_active[d] /\ confirmed[d]

Lock(c) ==
    LET d == Device(c) IN
    /\ pc[c] = "lock"
    /\ LockFree(d)
    /\ lock' = [lock EXCEPT ![d] = c]
    /\ row' = [row EXCEPT ![c] = last_accepted_timecode[d]]
    /\ \/ /\ ~_device_can_verify(d)
          /\ result' = [result EXCEPT ![c] = TOTPResult(FALSE, None, "invalid")]
          /\ Goto(c, "commit")
       \/ /\ _device_can_verify(d)
          /\ Goto(c, IF Scope(c) = NoScope THEN "verify" ELSE "throttle")
          /\ UNCHANGED result
    /\ UNCHANGED <<tables, cache, call, now>>

CheckThrottle(c) ==
    /\ \/ /\ PassCheck(c, Scope(c))
          /\ UNCHANGED result
       \/ /\ FailCheck(c, Scope(c))
          /\ result' = [result EXCEPT ![c] = TOTPResult(FALSE, None, "throttled")]
    /\ UNCHANGED <<tables, lock, call, row, now>>

\* What timezone.now() may read on the machine of a caller.
Readings == (now - Skew)..(now + Skew)

AfterVerify(c, accepted) ==
    IF Scope(c) = NoScope THEN "commit" ELSE IF accepted THEN "reset" ELSE "add"

Verify(c) ==
    /\ pc[c] = "verify"
    /\ \E at_time \in Readings :
          LET res == verify_totp(Device(c), call[c].code, at_time, ValidWindow, row[c]) IN
          /\ result' = [result EXCEPT ![c] = res]
          /\ Goto(c, AfterVerify(c, res.accepted))
    /\ call' = [call EXCEPT ![c].code = Blank]
    /\ UNCHANGED <<tables, lock, cache, row, now>>

ResetThrottle(c) ==
    /\ Reset(c, Scope(c))
    /\ UNCHANGED <<tables, lock, call, result, row, now>>

RecordFailure(c) ==
    /\ \/ Add(c, Scope(c))
       \/ Incr(c, Scope(c))
       \/ IncrRaises(c, Scope(c))
       \/ SetOne(c, Scope(c))
    /\ UNCHANGED <<tables, lock, call, result, row, now>>

Return(c) ==
    /\ lock' = [d \in Devices |-> IF lock[d] = c THEN NoOne ELSE lock[d]]
    /\ Goto(c, "idle")
    /\ call' = [call EXCEPT ![c] = NoCall]
    /\ result' = [result EXCEPT ![c] = None]
    /\ row' = [row EXCEPT ![c] = None]

Commit(c) ==
    LET d == Device(c)  res == result[c] IN
    /\ pc[c] = "commit"
    /\ IF res.accepted
         THEN /\ last_accepted_timecode' = [last_accepted_timecode EXCEPT ![d] = res.matched]
              /\ uses' = [uses EXCEPT ![d][res.matched] = @ + 1]
         ELSE UNCHANGED <<last_accepted_timecode, uses>>
    /\ Return(c)
    /\ UNCHANGED <<enrolled, is_active, confirmed, cache, now>>

\* An exception or the end of the process: the transaction rolls back.
Abort(c) ==
    /\ pc[c] # "idle"
    /\ Return(c)
    /\ UNCHANGED <<tables, cache, now>>

(***************************************************************************)
(* Specification                                                           *)
(***************************************************************************)
Work(c) ==
    \/ CheckThrottle(c) \/ Verify(c) \/ ResetThrottle(c) \/ RecordFailure(c) \/ Commit(c)

Next ==
    \/ \E d \in Devices : enroll_totp_device(d) \/ Confirm(d) \/ SetActive(d)
    \/ Tick
    \/ \E s \in Scopes : CacheForget(s)
    \/ \E c \in Clients : \/ \E d \in Devices : Call(c, d)
                          \/ Lock(c) \/ Work(c) \/ Abort(c)

Spec == Init /\ [][Next]_vars

(***************************************************************************)
(* Properties                                                              *)
(***************************************************************************)
Results == [accepted: BOOLEAN, matched: Timecodes \cup {None},
            failure_reason: {"none", "invalid", "replay", "throttled"}]

Calls == [device: Devices, scope: Scopes \cup {NoScope},
          code: {CodeAt(d, t) : d \in Devices, t \in 0..(LastStep + Skew + ValidWindow + Drift)}
                    \cup {Junk, Blank}]

\* Every variable has its type; in particular what is stored as a time step is
\* one, counted from the epoch and not from the reading of the clock.
TypeOK ==
    /\ enrolled \subseteq Devices
    /\ last_accepted_timecode \in [Devices -> Timecodes \cup {None}]
    /\ is_active \in [Devices -> BOOLEAN]
    /\ confirmed \in [Devices -> BOOLEAN]
    /\ uses \in [Devices -> [Timecodes -> Nat]]
    /\ lock \in [Devices -> Clients \cup {NoOne}]
    /\ cache \in [Scopes -> Nat \cup {NoEntry}]
    /\ pc \in [Clients -> {"idle", "lock", "throttle", "verify", "reset", "add",
                           "incr", "set", "commit"}]
    /\ call \in [Clients -> Calls \cup {NoCall}]
    /\ result \in [Clients -> Results \cup {None}]
    /\ row \in [Clients -> Timecodes \cup {None}]
    /\ now \in FirstStep..LastStep

\* A time step of a device is honoured at most once, however calls interleave
\* and whatever the clocks of their machines say.
OneTime == INSTANCE OneTimeUse WITH Holders <- Devices, Tokens <- Timecodes

HonouredOnce == OneTime!Spec

\* Steps are honoured in order: nothing is accepted for a step before one that
\* was accepted already, even by a machine whose clock is behind.
AcceptedInOrder ==
    [][\A d \in Devices : \A t, u \in Timecodes :
          uses'[d][t] # uses[d][t] /\ uses[d][u] > 0 => u < t]_vars

\* What was accepted keeps a user out for a bounded time: the stored step is at
\* most Skew + ValidWindow ahead, and once it has passed, the code of the
\* present step is accepted on every machine (the clocks being in the window
\* and codes distinct).
UserIsNotShutOut ==
    \A d \in Devices :
        LET last == last_accepted_timecode[d] IN
        /\ last # None => last <= now + Skew + ValidWindow
        /\ last = None \/ last < now =>
              \A at_time \in Readings :
                  verify_totp(d, CodeAt(d, now), at_time, ValidWindow, last).accepted

(***************************************************************************)
(* The inductive invariant behind them.                                    *)
(***************************************************************************)
HasLock(c) == pc[c] \notin {"idle", "lock"}

CallsAreTyped == \A c \in Clients : pc[c] # "idle" => call[c] \in Calls

\* A client past its lock step holds the lock of its row, and the step it read
\* there is the one the table still has.
RowIsCurrent ==
    \A c \in Clients :
        HasLock(c) => /\ lock[Device(c)] = c
                      /\ row[c] = last_accepted_timecode[Device(c)]

\* No clock is further ahead than Skew, and no window reaches further.
NearNow(t) == t \in Timecodes /\ t <= now + Skew + ValidWindow

\* A result is accepted for a step after the one read from the row.
ResultFits(res, last) ==
    /\ res \in Results
    /\ res.accepted => NearNow(res.matched) /\ (last # None => last < res.matched)

ResultsFit ==
    \A c \in Clients :
        pc[c] \in {"reset", "add", "incr", "set", "commit"} => ResultFits(result[c], row[c])

\* The stored step is the last one honoured, and near the present.
SpentUpToLast ==
    \A d \in Devices :
        LET last == last_accepted_timecode[d] IN
        /\ last # None => NearNow(last)
        /\ \A t \in Timecodes : /\ uses[d][t] \in {0, 1}
                                /\ uses[d][t] = 1 => last # None /\ t <= last

Inv == TypeOK /\ CallsAreTyped /\ RowIsCurrent /\ ResultsFit /\ SpentUpToLast

\* Whoever holds a row lock is at work on that row and waits for no other: calls
\* cannot wait for one another in a circle, and no lock outlives its call.
LockHoldersWork ==
    \A d \in Devices :
        lock[d] # NoOne => HasLock(lock[d]) /\ Device(lock[d]) = d
=============================================================================
