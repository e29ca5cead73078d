--------------------- MODULE HOTPThrottleAndTrailProofs ---------------------
(***************************************************************************)
(* Proofs about what the HOTP adapters leave outside the row of a device.  *)
(* The throttle: how far a scope exceeds its limit, and what the row lock  *)
(* makes of the check of a scope that only one device has.  The trail:     *)
(* with every call audited, the committed events account for the counter.  *)
(***************************************************************************)
EXTENDS HOTPDeviceProofs, FiniteSetTheorems

(***************************************************************************)
(* One step, as the throttle sees it.                                      *)
(***************************************************************************)
\* A call keeps its device and scope while it lasts, starts with a scope of its
\* device, and comes to the comparison below the limit or not throttled.
Follows(c) ==
    /\ pc[c] # "idle" /\ pc'[c] # "idle" => Device(c)' = Device(c) /\ Scope(c)' = Scope(c)
    /\ pc[c] = "idle" =>
          \/ pc'[c] = "idle"
          \/ pc'[c] = "lock" /\ Scope(c)' \in ScopesOf[Device(c)']
    /\ PastCheck(c)' =>
          \/ PastCheck(c) /\ (pc'[c] = "verify" => pc[c] = "verify")
          \/ pc[c] # "idle" /\ Scope(c) = NoScope
          \/ pc[c] = "throttle" /\ ThrottleAllows(Scope(c)) /\ cache' = cache

\* The count of a scope rises by one, and then a call on it has left the record.
Counts(s) ==
    \/ Attempts(s)' <= Attempts(s)
    \/ /\ Attempts(s)' <= Attempts(s) + 1
       /\ \E c \in Clients : PastCheck(c) /\ ~PastCheck(c)' /\ Scope(c) = s

StepFacts == (\A c \in Clients : Follows(c)) /\ (\A s \in Scopes : Counts(s))

LEMMA AttemptsAreNat ==
    ASSUME TypeOK, NEW s \in Scopes
    PROVE  Attempts(s) \in Nat /\ Limit \in Nat /\ Limit >= 1
BY LimitAssumption DEF TypeOK, Attempts

\* A step that leaves the cache alone does not count.
LEMMA SameCache ==
    ASSUME Inv, cache' = cache
    PROVE  \A s \in Scopes : Counts(s)
BY AttemptsAreNat DEF Inv, Counts, Attempts

LEMMA OutsideStep ==
    ASSUME Inv, NEW d \in Devices,
           enroll_hotp_device(d) \/ Confirm(d) \/ SetActive(d) \/ PressToken(d)
    PROVE  StepFacts
<1>1. pc' = pc /\ call' = call /\ cache' = cache
  BY DEF enroll_hotp_device, Confirm, SetActive, PressToken
<1> QED
  BY <1>1, SameCache DEF StepFacts, Follows, Device, Scope, PastCheck

LEMMA ForgetStep ==
    ASSUME Inv, NEW s \in Scopes, CacheForget(s)
    PROVE  StepFacts
<1>1. pc' = pc /\ call' = call /\ cache' = [cache EXCEPT ![s] = NoEntry]
  BY DEF CacheForget, Forget, Forgotten
<1>2. \A t \in Scopes : Attempts(t)' = Attempts(t) \/ Attempts(t)' = 0
  BY <1>1 DEF Inv, TypeOK, Attempts
<1>3. \A t \in Scopes : Counts(t)
  BY <1>2, AttemptsAreNat DEF Inv, Counts
<1> QED
  BY <1>1, <1>3 DEF StepFacts, Follows, Device, Scope, PastCheck

LEMMA CallStep ==
    ASSUME Inv, NEW c \in Clients, NEW kind \in Kinds, NEW d \in Devices, Call(c, kind, d)
    PROVE  StepFacts
<1>1. PICK codes \in SubmittedCodes(d, kind), s \in ScopesOf[d], a \in AuditModes :
         call' = [call EXCEPT ![c] = [kind |-> kind, device |-> d, codes |-> codes,
                                      scope |-> s, audited |-> a]]
  BY DEF Call
<1>2. pc[c] = "idle" /\ pc' = [pc EXCEPT ![c] = "lock"] /\ cache' = cache
  BY DEF Call, Goto
<1>3. pc'[c] = "lock" /\ Device(c)' = d /\ Scope(c)' = s
  BY <1>1, <1>2 DEF Inv, TypeOK, Device, Scope
<1>4. \A b \in Clients \ {c} : pc'[b] = pc[b] /\ call'[b] = call[b]
  BY <1>1, <1>2 DEF Inv, TypeOK
<1>5. Follows(c)
  BY <1>2, <1>3 DEF Follows, PastCheck
<1>6. \A b \in Clients \ {c} : Follows(b)
  BY <1>4 DEF Follows, PastCheck, Device, Scope
<1> QED
  BY <1>2, <1>5, <1>6, SameCache DEF StepFacts

\* The lock, the check and the comparison: the call of one client goes on and the
\* cache stays.
LEMMA QuietStep ==
    ASSUME Inv, NEW c \in Clients,
           Lock(c) \/ CheckThrottle(c) \/ Verify(c) \/ Commit(c) \/ Abort(c)
    PROVE  StepFacts
<1>1. cache' = cache /\ \A b \in Clients \ {c} : pc'[b] = pc[b] /\ call'[b] = call[b]
  BY DEF Lock, CheckThrottle, PassCheck, FailCheck, Verify, Commit, Abort, Return, Goto,
         Inv, TypeOK
<1>2. \A b \in Clients \ {c} : Follows(b)
  BY <1>1 DEF Follows, PastCheck, Device, Scope
<1>3. Follows(c)
  <2>1. CASE Lock(c)
    <3>1. pc[c] = "lock" /\ call' = call /\ pc'[c] \in {"commit", "verify", "throttle"}
          /\ (pc'[c] = "verify" => Scope(c) = NoScope)
      BY <2>1 DEF Lock, Goto, Inv, TypeOK
    <3> QED
      BY <3>1 DEF Follows, PastCheck, Device, Scope
  <2>2. CASE CheckThrottle(c)
    <3>1. pc[c] = "throttle" /\ call' = call /\ pc'[c] \in {"commit", "verify"}
          /\ (pc'[c] = "verify" => ThrottleAllows(Scope(c)))
      BY <2>2 DEF CheckThrottle, PassCheck, FailCheck, Goto, Inv, TypeOK
    <3> QED
      BY <1>1, <3>1 DEF Follows, PastCheck, Device, Scope
  <2>3. CASE Verify(c)
    <3>1. pc[c] = "verify" /\ pc'[c] \in {"commit", "reset", "add"}
      BY <2>3 DEF Verify, AfterVerify, Goto, Inv, TypeOK
    <3>2. call[c] \in Calls /\ call' = [call EXCEPT ![c].codes = <<>>]
      BY <2>3, <3>1 DEF Verify, Inv, CallsAreOnRows
    <3>3. Device(c)' = Device(c) /\ Scope(c)' = Scope(c)
      BY <3>2 DEF Device, Scope, Calls, Inv, TypeOK
    <3> QED
      BY <3>1, <3>3 DEF Follows, PastCheck
  <2>4. CASE Commit(c) \/ Abort(c)
    <3>1. pc[c] # "idle" /\ pc'[c] = "idle"
      BY <2>4 DEF Commit, Abort, Return, Goto, Inv, TypeOK
    <3> QED
      BY <3>1 DEF Follows, PastCheck
  <2> QED
    BY <2>1, <2>2, <2>3, <2>4
<1> QED
  BY <1>1, <1>2, <1>3, SameCache DEF StepFacts

\* The outcome goes to the cache: only the last call of a record counts.
LEMMA OutcomeStep ==
    ASSUME Inv, NEW c \in Clients, ResetThrottle(c) \/ RecordFailure(c)
    PROVE  StepFacts
<1>0. PICK s : s = Scope(c)
  OBVIOUS
<1>1. /\ call' = call
      /\ PastCheck(c) /\ pc[c] # "verify"
      /\ \/ /\ pc' = [pc EXCEPT ![c] = "commit"]
            /\ \/ cache' = [cache EXCEPT ![s] = NoEntry]
               \/ cache' = [cache EXCEPT ![s] = 1]
               \/ cache[s] # NoEntry /\ cache' = [cache EXCEPT ![s] = @ + 1]
         \/ /\ \E label \in {"incr", "set"} : pc' = [pc EXCEPT ![c] = label]
            /\ \/ cache' = cache
               \/ cache[s] = NoEntry /\ cache' = [cache EXCEPT ![s] = 0]
  BY <1>0 DEF ResetThrottle, RecordFailure, Reset, Forgotten, Add, Added, Incr, IncrRaises,
         SetOne, Goto, PastCheck
<1>2. \A b \in Clients : Follows(b)
  BY <1>1 DEF Follows, PastCheck, Device, Scope, Inv, TypeOK
<1>3. ASSUME NEW t \in Scopes, t # s PROVE Counts(t)
  <2>1. cache'[t] = cache[t]
    BY <1>1, <1>3 DEF Inv, TypeOK
  <2> QED
    BY <2>1, AttemptsAreNat DEF Counts, Attempts, Inv
<1>4. ASSUME s \in Scopes PROVE Counts(s)
  <2>1. cache[s] \in Nat \cup {NoEntry} /\ Attempts(s) \in Nat
    BY <1>4, AttemptsAreNat DEF Inv, TypeOK
  <2>2. CASE pc' = [pc EXCEPT ![c] = "commit"]
    <3>1. ~PastCheck(c)'
      BY <2>2 DEF PastCheck, Inv, TypeOK
    <3>2. Attempts(s)' <= Attempts(s) + 1
      BY <1>1, <1>4, <2>1, <2>2, NoEntryAssumption DEF Attempts, Inv, TypeOK
    <3> QED
      BY <1>0, <1>1, <3>1, <3>2 DEF Counts
  <2>3. CASE \E label \in {"incr", "set"} : pc' = [pc EXCEPT ![c] = label]
    <3>1. pc'[c] \in {"incr", "set"}
      BY <2>3 DEF Inv, TypeOK
    <3>2. \/ cache' = cache
          \/ cache[s] = NoEntry /\ cache' = [cache EXCEPT ![s] = 0]
      BY <1>1, <3>1 DEF Inv, TypeOK
    <3>3. Attempts(s)' = Attempts(s)
      BY <1>4, <3>2, NoEntryAssumption DEF Attempts, Inv, TypeOK
    <3> QED
      BY <2>1, <3>3 DEF Counts
  <2> QED
    BY <1>1, <2>2, <2>3
<1> QED
  BY <1>2, <1>3, <1>4 DEF StepFacts

LEMMA NextFacts == ASSUME Inv, Next PROVE StepFacts
BY OutsideStep, ForgetStep, CallStep, QuietStep, OutcomeStep DEF Next, Work

(***************************************************************************)
(* The invariant.                                                          *)
(***************************************************************************)
\* Calls past the check are of distinct devices: each holds the lock of its row.
LEMMA OneCallADevice ==
    ASSUME Inv, NEW b \in Clients, NEW c \in Clients, PastCheck(b), PastCheck(c),
           Device(b) = Device(c)
    PROVE  b = c
BY DEF Inv, RowIsCurrent, HasLock, PastCheck

LEMMA CheckedAreSharing ==
    ASSUME ScopesFit, NEW s \in Scopes
    PROVE  CheckedDevices(s) \in SUBSET Sharing(s)
BY DEF ScopesFit, CheckedDevices, Sharing, PastCheck

LEMMA DeviceCounts ==
    ASSUME NEW S \in SUBSET Devices, NEW T \in SUBSET S
    PROVE  /\ IsFiniteSet(S) /\ Cardinality(S) \in Nat /\ Cardinality(T) \in Nat
           /\ Cardinality(T) <= Cardinality(S)
<1>1. IsFiniteSet(S)
  BY DevicesAssumption, FS_Subset
<1> QED
  BY <1>1, FS_Subset, FS_CardinalityType

LEMMA ScopesFitNext ==
    ASSUME InvWithThrottle, StepFacts
    PROVE  ScopesFit'
BY DEF InvWithThrottle, StepFacts, Follows, ScopesFit

\* Another call on the scope of one device would be past its own lock step, too.
LEMMA CheckedIsAllowedNext ==
    ASSUME InvWithThrottle, Inv', StepFacts
    PROVE  CheckedIsAllowed'
<1> USE DEF InvWithThrottle
<1> SUFFICES ASSUME NEW c \in Clients,
                    pc'[c] = "verify", Scope(c)' # NoScope, Sharing(Scope(c)') = {Device(c)'}
             PROVE  ThrottleAllows(Scope(c))'
  BY DEF CheckedIsAllowed, Sharing
<1>0. PICK s : s = Scope(c)
  OBVIOUS
<1>1. Follows(c) /\ PastCheck(c)' /\ pc[c] # "idle"
  BY DEF StepFacts, Follows, PastCheck
<1>2. Scope(c)' = s /\ Device(c)' = Device(c) /\ s # NoScope /\ Sharing(s) = {Device(c)}
  BY <1>0, <1>1 DEF Follows
<1>3. s \in Scopes
  BY <1>0, <1>1, <1>2 DEF Inv, CallsAreOnRows, Calls, Scope
<1>4. ThrottleAllows(s) /\ (cache' = cache \/ pc[c] = "verify")
  BY <1>0, <1>1, <1>2 DEF Follows, CheckedIsAllowed
<1>5. Attempts(s)' <= Attempts(s)
  <2>1. CASE cache' = cache
    BY <1>3, <2>1, AttemptsAreNat DEF Attempts, Inv
  <2>2. CASE pc[c] = "verify"
    <3>1. ASSUME NEW b \in Clients, PastCheck(b), ~PastCheck(b)', Scope(b) = s PROVE FALSE
      <4>1. Device(b) = Device(c)
        BY <1>0, <1>2, <1>3, <3>1 DEF Sharing, ScopesFit, Inv, CallsAreOnRows, Calls, Device, PastCheck
      <4>2. b = c
        BY <2>2, <3>1, <4>1, OneCallADevice DEF PastCheck
      <4> QED
        BY <1>1, <3>1, <4>2
    <3> QED
      BY <1>3, <3>1 DEF StepFacts, Counts
  <2> QED
    BY <1>4, <2>1, <2>2
<1>6. Attempts(s) \in Nat /\ Attempts(s)' \in Nat /\ Limit \in Nat /\ Attempts(s) < Limit
  BY <1>3, <1>4, AttemptsAreNat, LimitAssumption DEF ThrottleAllows, Inv, TypeOK, Attempts
<1>7. Attempts(s)' < Limit
  BY <1>5, <1>6
<1> QED
  BY <1>2, <1>7 DEF ThrottleAllows, Attempts

\* Who passes the check finds the scope below the limit; who counts a failure is
\* no longer among those who may.
LEMMA RoomForCheckedNext ==
    ASSUME InvWithThrottle, Inv', ScopesFit', StepFacts
    PROVE  RoomForChecked'
<1> USE DEF InvWithThrottle
<1> SUFFICES ASSUME NEW s \in Scopes
             PROVE  Attempts(s)' + Cardinality(CheckedDevices(s)')
                      <= Limit - 1 + Cardinality(Sharing(s))
  BY DEF RoomForChecked, Sharing
<1>1. /\ Attempts(s) \in Nat /\ Attempts(s)' \in Nat /\ Limit \in Nat /\ Limit >= 1
      /\ Sharing(s) \in SUBSET Devices
      /\ CheckedDevices(s) \in SUBSET Sharing(s) /\ CheckedDevices(s)' \in SUBSET Sharing(s)
  <2>1. CheckedDevices(s)' \in SUBSET Sharing(s)
    BY DEF ScopesFit, CheckedDevices, Sharing, PastCheck
  <2>2. Attempts(s)' \in Nat
    BY DEF Inv, TypeOK, Attempts
  <2> QED
    BY <2>1, <2>2, CheckedAreSharing, AttemptsAreNat DEF Inv, Sharing
<1>2. /\ Cardinality(Sharing(s)) \in Nat
      /\ Cardinality(CheckedDevices(s)) \in Nat /\ Cardinality(CheckedDevices(s)') \in Nat
      /\ Cardinality(CheckedDevices(s)') <= Cardinality(Sharing(s))
  BY <1>1, DeviceCounts
<1>3. Attempts(s) + Cardinality(CheckedDevices(s)) <= Limit - 1 + Cardinality(Sharing(s))
  BY DEF RoomForChecked
<1>4. CASE \E c \in Clients : /\ pc[c] = "throttle" /\ Scope(c) = s
                              /\ ThrottleAllows(s) /\ cache' = cache
  <2>1. Attempts(s)' = Attempts(s) /\ Attempts(s) < Limit
    BY <1>4 DEF Attempts, ThrottleAllows
  <2> QED
    BY <1>1, <1>2, <2>1
<1>5. CASE ~\E c \in Clients : /\ pc[c] = "throttle" /\ Scope(c) = s
                               /\ ThrottleAllows(s) /\ cache' = cache
  <2>1. \A c \in Clients : PastCheck(c)' /\ Scope(c)' = s =>
           PastCheck(c) /\ Scope(c) = s /\ Device(c)' = Device(c)
    BY <1>5, ScopesAssumption DEF StepFacts, Follows, PastCheck
  <2>2. CheckedDevices(s)' \subseteq CheckedDevices(s)
    BY <2>1 DEF CheckedDevices
  <2>3. CASE Attempts(s)' <= Attempts(s)
    <3>1. Cardinality(CheckedDevices(s)') <= Cardinality(CheckedDevices(s))
      BY <1>1, <2>2, DeviceCounts
    <3> QED
      BY <1>1, <1>2, <1>3, <2>3, <3>1
  <2>4. CASE /\ Attempts(s)' <= Attempts(s) + 1
             /\ \E c \in Clients : PastCheck(c) /\ ~PastCheck(c)' /\ Scope(c) = s
    <3>1. PICK c \in Clients : PastCheck(c) /\ ~PastCheck(c)' /\ Scope(c) = s
      BY <2>4
    <3>2. Device(c) \in CheckedDevices(s)
      BY <3>1 DEF CheckedDevices, PastCheck, Inv, CallsAreOnRows, Calls, Device
    <3>3. Device(c) \notin CheckedDevices(s)'
      <4>1. ASSUME NEW b \in Clients, PastCheck(b)', Device(b)' = Device(c), Scope(b)' = s
            PROVE  FALSE
        <5>1. PastCheck(b) /\ Device(b) = Device(c)
          BY <2>1, <4>1
        <5> QED
          BY <3>1, <4>1, <5>1, OneCallADevice
      <4> QED
        BY <4>1 DEF CheckedDevices
    <3>4. /\ Cardinality(CheckedDevices(s) \ {Device(c)}) = Cardinality(CheckedDevices(s)) - 1
          /\ Cardinality(CheckedDevices(s)') <= Cardinality(CheckedDevices(s) \ {Device(c)})
      <4>1. IsFiniteSet(CheckedDevices(s))
        BY <1>1, DeviceCounts
      <4>2. Cardinality(CheckedDevices(s) \ {Device(c)}) = Cardinality(CheckedDevices(s)) - 1
        BY <3>2, <4>1, FS_RemoveElement
      <4>3. /\ CheckedDevices(s) \ {Device(c)} \in SUBSET Devices
            /\ CheckedDevices(s)' \in SUBSET (CheckedDevices(s) \ {Device(c)})
        BY <1>1, <2>2, <3>3
      <4> QED
        BY <4>2, <4>3, DeviceCounts
    <3> QED
      BY <1>1, <1>2, <1>3, <2>4, <3>4
  <2> QED
    BY <2>3, <2>4 DEF StepFacts, Counts
<1> QED
  BY <1>4, <1>5

\* The invariant for the throttle of the HOTP adapters.
THEOREM ThrottleInvariance == Spec => []InvWithThrottle
<1>1. Init => InvWithThrottle
  <2> SUFFICES ASSUME Init PROVE InvWithThrottle
    OBVIOUS
  <2>1. Inv
    BY InitInv
  <2>2. ScopesFit /\ CheckedIsAllowed
    BY DEF Init, ScopesFit, CheckedIsAllowed
  <2>3. ASSUME NEW s \in Scopes
        PROVE  Attempts(s) + Cardinality(CheckedDevices(s)) <= Limit - 1 + Cardinality(Sharing(s))
    <3>1. Attempts(s) = 0 /\ CheckedDevices(s) = {} /\ Sharing(s) \in SUBSET Devices
      BY DEF Init, Attempts, CheckedDevices, PastCheck, Sharing
    <3>2. Cardinality(CheckedDevices(s)) = 0 /\ Cardinality(Sharing(s)) \in Nat
      BY <3>1, FS_EmptySet, DeviceCounts
    <3> QED
      BY <3>1, <3>2, LimitAssumption
  <2> QED
    BY <2>1, <2>2, <2>3 DEF InvWithThrottle, RoomForChecked
<1>2. InvWithThrottle /\ [Next]_vars => InvWithThrottle'
  <2> SUFFICES ASSUME InvWithThrottle, [Next]_vars PROVE InvWithThrottle'
    OBVIOUS
  <2>1. Inv'
    BY NextInv DEF InvWithThrottle
  <2>2. CASE Next
    <3>1. StepFacts
      BY <2>2, NextFacts DEF InvWithThrottle
    <3> QED
      BY <2>1, <3>1, ScopesFitNext, CheckedIsAllowedNext, RoomForCheckedNext DEF InvWithThrottle
  <2>3. CASE UNCHANGED vars
    <3>1. pc' = pc /\ call' = call /\ cache' = cache
      BY <2>3 DEF vars
    <3>2. ScopesFit' /\ CheckedIsAllowed'
      BY <3>1 DEF InvWithThrottle, ScopesFit, CheckedIsAllowed, ThrottleAllows, Attempts,
                  Scope, Device, Sharing
    <3>3. RoomForChecked'
      BY <3>1 DEF InvWithThrottle, RoomForChecked, Attempts, CheckedDevices, PastCheck,
                  Scope, Device, Sharing
    <3> QED
      BY <2>1, <3>2, <3>3 DEF InvWithThrottle
  <2> QED
    BY <2>2, <2>3
<1> QED
  BY <1>1, <1>2, PTL DEF Spec

\* The comparison of a code is below the limit when the scope is of one device, for
\* any number of callers: the row lock makes check and comparison one step.
THEOREM CheckIsExact == Spec => []CheckedIsAllowed
<1>1. InvWithThrottle => CheckedIsAllowed
  BY DEF InvWithThrottle
<1> QED
  BY <1>1, ThrottleInvariance, PTL

\* A scope exceeds its limit by at most one failure for each further device.
THEOREM Overshoot == Spec => []FailuresBounded
<1>1. InvWithThrottle => FailuresBounded
  <2> SUFFICES ASSUME InvWithThrottle, NEW s \in Scopes
               PROVE  Attempts(s) <= Limit - 1 + Cardinality(Sharing(s))
    BY DEF FailuresBounded
  <2>1. CheckedDevices(s) \in SUBSET Sharing(s) /\ Sharing(s) \in SUBSET Devices
    BY CheckedAreSharing DEF InvWithThrottle, Sharing
  <2>2. Cardinality(CheckedDevices(s)) \in Nat /\ Cardinality(Sharing(s)) \in Nat
    BY <2>1, DeviceCounts
  <2>3. Attempts(s) + Cardinality(CheckedDevices(s)) <= Limit - 1 + Cardinality(Sharing(s))
    BY DEF InvWithThrottle, RoomForChecked
  <2> QED
    BY <2>2, <2>3, AttemptsAreNat DEF InvWithThrottle, Inv
<1> QED
  BY <1>1, ThrottleInvariance, PTL

(***************************************************************************)
(* The reset of the throttle and the row: an accepted call that fails.     *)
(***************************************************************************)
LEMMA VerifiedCode ==
    ASSUME NEW secret, NEW code, NEW server \in Nat, NEW look_ahead \in Nat,
           NEW replay_window \in Nat, NEW res,
           res = verify_hotp(secret, code, server, look_ahead, replay_window),
           res.accepted
    PROVE  /\ res.matched \in Nat /\ res.next = res.matched + 1
           /\ CodeAt(secret, res.matched) = code
<1> DEFINE hits  == {n \in server..(server + look_ahead) : CodeAt(secret, n) = code}
           ahead == find_matching_counter(secret, code, server, server + look_ahead)
<1>1. ahead \in hits \cup {None}
  BY FirstOfIsHit DEF find_matching_counter
<1>2. \/ res = Accepted("success", server, ahead, ahead + 1) /\ ahead = server
      \/ res = Accepted("counter_window_match", server, ahead, ahead + 1) /\ ahead # None
  BY DEF verify_hotp, Rejected
<1>3. res.matched = ahead /\ res.next = ahead + 1 /\ ahead # None
  BY <1>2, NoneAssumption DEF Accepted
<1> QED
  BY <1>1, <1>3

\* An accepted result is for the codes that begin at the counter it matched.
MatchesCodes(res, secret, codes) ==
    res.accepted =>
        /\ res.matched \in Nat /\ res.next = res.matched + Len(codes)
        /\ \A i \in 1..Len(codes) : CodeAt(secret, res.matched + i - 1) = codes[i]

LEMMA ResyncedCodes ==
    ASSUME NEW secret, NEW codes, Len(codes) \in Nat, NEW server \in Nat,
           NEW search_window \in Nat, NEW replay_window \in Nat
    PROVE  MatchesCodes(resync_hotp(secret, codes, server, search_window, replay_window),
                        secret, codes)
<1> DEFINE end   == server + search_window
           res   == resync_hotp(secret, codes, server, search_window, replay_window)
           hits  == {n \in server..LastStart(codes, end) :
                        \A i \in 1..Len(codes) : CodeAt(secret, n + i - 1) = codes[i]}
           ahead == find_matching_sequence(secret, codes, server, end)
<1> SUFFICES ASSUME res.accepted
             PROVE  /\ res.matched \in Nat /\ res.next = res.matched + Len(codes)
                    /\ \A i \in 1..Len(codes) : CodeAt(secret, res.matched + i - 1) = codes[i]
  BY DEF MatchesCodes
<1>1. ahead \in hits \cup {None}
  BY FirstOfIsHit DEF find_matching_sequence
<1>2. res = Accepted("resync_success", server, ahead, ahead + Len(codes)) /\ ahead # None
  BY DEF resync_hotp, Rejected
<1>3. res.matched = ahead /\ res.next = ahead + Len(codes) /\ ahead # None
  BY <1>2 DEF Accepted
<1>4. ahead \in server..LastStart(codes, end) /\ LastStart(codes, end) \in Int
  BY <1>1, <1>3 DEF LastStart
<1> QED
  BY <1>1, <1>3, <1>4

\* A result tells the codes it was computed for, as far as the services compare
\* them: what the call would resubmit gets the same result.
LEMMA ServiceAgain ==
    ASSUME Inv, NEW c \in Clients, Verify(c), ServiceResult(c, row[c]).accepted
    PROVE  Retry(c, row[c])' = result'[c]
<1> USE DEF Inv
<1>1. PICK d, kind, codes, server, res :
        /\ d = Device(c) /\ kind = call[c].kind /\ codes = call[c].codes
        /\ server = row[c] /\ res = ServiceResult(c, row[c])
  OBVIOUS
<1>2. /\ pc[c] = "verify" /\ call[c] \in Calls /\ server \in Nat
      /\ codes \in Seq(Codes) /\ Len(codes) \in Nat /\ kind \in {"verify", "resync"}
  <2>1. pc[c] = "verify" /\ call[c] \in Calls
    BY DEF Verify, CallsAreOnRows
  <2>2. d \in Devices /\ codes \in Seq(Codes) /\ kind \in {"verify", "resync"}
    BY <1>1, <2>1 DEF Calls, Device
  <2>3. server = hotp_counter[d] /\ hotp_counter[d] \in 0..MaxCounter
    BY <1>1, <2>1, <2>2 DEF RowIsCurrent, HasLock, TypeOK, Counters
  <2> QED
    BY <2>1, <2>2, <2>3, CountersAssumption
<1>3. call' = [call EXCEPT ![c].codes = <<>>] /\ result'[c] = res /\ row' = row
  BY <1>1 DEF Verify, TypeOK
<1>4. Device(c)' = d /\ call'[c].kind = kind
  BY <1>1, <1>2, <1>3 DEF Device, Calls, TypeOK
<1>5. CASE kind = "verify"
  <2>1. res = verify_hotp(d, codes[1], server, LookAhead, ReplayWindow)
    BY <1>1, <1>5 DEF ServiceResult
  <2>2. res.matched \in Nat /\ res.next = res.matched + 1 /\ CodeAt(d, res.matched) = codes[1]
    BY <1>1, <1>2, <2>1, VerifiedCode, WindowsAssumption
  <2>3. Resubmitted(c)' = [i \in 1..(res.next - res.matched) |-> CodeAt(d, res.matched + i - 1)]
    BY <1>3, <1>4 DEF Resubmitted
  <2>4. res.next - res.matched = 1 /\ res.matched + 1 - 1 = res.matched
    BY <2>2
  <2>5. Resubmitted(c)'[1] = codes[1]
    BY <2>2, <2>3, <2>4
  <2>6. Retry(c, row[c])' = verify_hotp(d, Resubmitted(c)'[1], server, LookAhead, ReplayWindow)
    BY <1>1, <1>3, <1>4, <1>5 DEF Retry
  <2> QED
    BY <1>3, <2>1, <2>5, <2>6
<1>6. CASE kind = "resync"
  <2>1. res = resync_hotp(d, codes, server, SearchWindow, ReplayWindow)
    BY <1>1, <1>6 DEF ServiceResult
  <2>2. /\ res.matched \in Nat /\ res.next = res.matched + Len(codes)
        /\ \A i \in 1..Len(codes) : CodeAt(d, res.matched + i - 1) = codes[i]
    <3>1. MatchesCodes(res, d, codes)
      BY <1>2, <2>1, ResyncedCodes, WindowsAssumption
    <3> QED
      BY <1>1, <3>1 DEF MatchesCodes
  <2>3. Resubmitted(c)' = [i \in 1..(res.next - res.matched) |-> CodeAt(d, res.matched + i - 1)]
    BY <1>3, <1>4 DEF Resubmitted
  <2>4. res.next - res.matched = Len(codes)
    BY <1>2, <2>2
  <2>5. Resubmitted(c)' = [i \in 1..Len(codes) |-> codes[i]]
    BY <2>2, <2>3, <2>4
  <2>6. codes = [i \in 1..Len(codes) |-> codes[i]]
    BY <1>2
  <2>7. Retry(c, row[c])' = resync_hotp(d, Resubmitted(c)', server, SearchWindow, ReplayWindow)
    BY <1>1, <1>3, <1>4, <1>6 DEF Retry
  <2> QED
    BY <1>3, <2>1, <2>5, <2>6, <2>7
<1> QED
  BY <1>2, <1>5, <1>6

\* A client whose call, row and scope stay as they are keeps what it had.
Unmoved(b) ==
    /\ pc'[b] = pc[b] /\ call'[b] = call[b] /\ result'[b] = result[b] /\ row'[b] = row[b]
    /\ \/ cache' = cache
       \/ \E s \in Scopes : cache' = [cache EXCEPT ![s] = NoEntry]
       \/ Throttles(b) /\ pc[b] = "commit" => cache'[Scope(b)] = cache[Scope(b)]

LEMMA UnmovedFits ==
    ASSUME Inv, NEW b \in Clients, RetryFits(b), Unmoved(b)
    PROVE  RetryFits(b)'
<1>1. /\ Retry(b, row[b])' = Retry(b, row[b]) /\ Throttles(b)' = Throttles(b)
      /\ Scope(b)' = Scope(b)
  BY DEF Unmoved, Retry, Resubmitted, Device, Scope, Throttles, Sharing
<1>2. pc[b] = "commit" /\ Throttles(b) => Scope(b) \in Scopes
  BY DEF Inv, CallsAreOnRows, Calls, Scope, Throttles
<1> QED
  BY <1>1, <1>2 DEF RetryFits, Unmoved, Inv, TypeOK

\* A call that throttles its own device's scope is the only one to touch it: calls
\* of another client on the scope would hold the same row lock.
LEMMA ScopeIsOwn ==
    ASSUME Inv, ScopesFit, NEW b \in Clients, NEW c \in Clients, b # c,
           HasLock(b), HasLock(c), Throttles(b)
    PROVE  Scope(c) # Scope(b)
<1>1. Device(c) \in Devices /\ Scope(c) \in ScopesOf[Device(c)] /\ Device(c) # Device(b)
  BY DEF Inv, CallsAreOnRows, Calls, Device, ScopesFit, RowIsCurrent, HasLock
<1> QED
  BY <1>1 DEF Throttles, Sharing

\* A device that cannot verify is refused.
LEMMA NotAccepted ==
    ASSUME NEW c, NEW server
    PROVE  ~BlankResult(c, server).accepted
BY DEF BlankResult, verify_hotp, resync_hotp, Rejected

LEMMA RetriesFitNext ==
    ASSUME Inv, Inv', ScopesFit, RetriesFit, Next
    PROVE  RetriesFit'
<1> SUFFICES ASSUME NEW b \in Clients PROVE RetryFits(b)'
  BY DEF RetriesFit
<1> USE DEF Inv
<1>0. RetryFits(b)
  BY DEF RetriesFit
<1>1. ASSUME NEW d \in Devices,
             enroll_hotp_device(d) \/ Confirm(d) \/ SetActive(d) \/ PressToken(d)
      PROVE  RetryFits(b)'
  <2>1. Unmoved(b)
    BY <1>1 DEF Unmoved, enroll_hotp_device, Confirm, SetActive, PressToken
  <2> QED
    BY <1>0, <2>1, UnmovedFits
<1>2. ASSUME NEW s \in Scopes, CacheForget(s) PROVE RetryFits(b)'
  <2>1. Unmoved(b)
    BY <1>2 DEF Unmoved, CacheForget, Forget, Forgotten
  <2> QED
    BY <1>0, <2>1, UnmovedFits
<1>3. ASSUME NEW c \in Clients, c # b,
             \/ \E kind \in Kinds, d \in Devices : Call(c, kind, d)
             \/ Lock(c) \/ CheckThrottle(c) \/ Verify(c) \/ Commit(c) \/ Abort(c)
      PROVE  RetryFits(b)'
  <2>1. Unmoved(b)
    BY <1>3 DEF Unmoved, Call, Lock, CheckThrottle, PassCheck, FailCheck, Verify, Commit,
                Abort, Return, Goto, TypeOK
  <2> QED
    BY <1>0, <2>1, UnmovedFits
<1>4. ASSUME NEW c \in Clients, c # b, ResetThrottle(c) \/ RecordFailure(c)
      PROVE  RetryFits(b)'
  <2>0. PICK s : s = Scope(c)
    OBVIOUS
  <2>1. /\ HasLock(c) /\ call' = call /\ result' = result /\ row' = row
        /\ \E label \in {"incr", "set", "commit"} : pc' = [pc EXCEPT ![c] = label]
        /\ \/ cache' = cache
           \/ \E n \in {0, 1, cache[s] + 1, NoEntry} : cache' = [cache EXCEPT ![s] = n]
    BY <1>4, <2>0 DEF ResetThrottle, RecordFailure, Reset, Forgotten, Add, Added, Incr,
                      IncrRaises, SetOne, Goto, HasLock
  <2>2. Throttles(b) /\ pc[b] = "commit" => cache'[Scope(b)] = cache[Scope(b)]
    <3>1. SUFFICES ASSUME Throttles(b), pc[b] = "commit"
                   PROVE  cache'[Scope(b)] = cache[Scope(b)]
      OBVIOUS
    <3>2. Scope(b) # s /\ Scope(b) \in Scopes
      BY <1>4, <2>0, <2>1, <3>1, ScopeIsOwn
         DEF HasLock, CallsAreOnRows, Calls, Scope, Throttles
    <3> QED
      BY <2>1, <3>2 DEF TypeOK
  <2>3. Unmoved(b)
    BY <1>4, <2>1, <2>2 DEF Unmoved, TypeOK
  <2> QED
    BY <1>0, <2>3, UnmovedFits
<1>5. ASSUME \/ \E kind \in Kinds, d \in Devices : Call(b, kind, d)
             \/ Lock(b) \/ CheckThrottle(b) \/ Commit(b) \/ Abort(b)
      PROVE  RetryFits(b)'
  <2>1. \/ pc'[b] \in {"lock", "throttle", "verify", "idle"}
        \/ pc'[b] = "commit" /\ ~result'[b].accepted
    <3>1. CASE \E kind \in Kinds, d \in Devices : Call(b, kind, d)
      BY <3>1 DEF Call, Goto, TypeOK
    <3>2. CASE Lock(b)
      BY <3>2, NotAccepted DEF Lock, Goto, TypeOK
    <3>3. CASE CheckThrottle(b)
      <4>1. ~ThrottledResult(b).accepted
        BY DEF ThrottledResult, Rejected
      <4>2. \/ pc' = [pc EXCEPT ![b] = "verify"]
            \/ /\ pc' = [pc EXCEPT ![b] = "commit"]
               /\ result' = [result EXCEPT ![b] = ThrottledResult(b)]
        BY <3>3 DEF CheckThrottle, PassCheck, FailCheck, Goto
      <4> QED
        BY <4>1, <4>2 DEF TypeOK
    <3>4. CASE Commit(b) \/ Abort(b)
      BY <3>4 DEF Commit, Abort, Return, Goto, TypeOK
    <3> QED
      BY <1>5, <3>1, <3>2, <3>3, <3>4
  <2> QED
    BY <2>1 DEF RetryFits
<1>6. ASSUME Verify(b) PROVE RetryFits(b)'
  <2>1. /\ result'[b] = ServiceResult(b, row[b])
        /\ pc'[b] = AfterVerify(b, ServiceResult(b, row[b]).accepted)
    BY <1>6 DEF Verify, Goto, TypeOK
  <2>2. pc'[b] = "commit" => ~Throttles(b)'
    <3>1. call[b] \in Calls /\ call' = [call EXCEPT ![b].codes = <<>>]
      BY <1>6 DEF Verify, CallsAreOnRows
    <3>2. Scope(b)' = Scope(b)
      BY <3>1 DEF Scope, Calls, TypeOK
    <3> QED
      BY <2>1, <3>2 DEF AfterVerify, Throttles
  <2>3. pc'[b] \in {"add", "incr", "set"} => ~result'[b].accepted
    BY <2>1 DEF AfterVerify
  <2>4. result'[b].accepted => Retry(b, row[b])' = result'[b]
    BY <1>6, <2>1, ServiceAgain
  <2> QED
    BY <2>2, <2>3, <2>4 DEF RetryFits
<1>7. ASSUME ResetThrottle(b) PROVE RetryFits(b)'
  <2>1. /\ pc[b] = "reset" /\ pc'[b] = "commit" /\ call' = call /\ result' = result /\ row' = row
        /\ cache' = [cache EXCEPT ![Scope(b)] = NoEntry]
    BY <1>7 DEF ResetThrottle, Reset, Forgotten, Goto, TypeOK
  <2>2. /\ Retry(b, row[b])' = Retry(b, row[b]) /\ Scope(b)' = Scope(b)
        /\ Throttles(b)' = Throttles(b)
    BY <2>1 DEF Retry, Resubmitted, Device, Scope, Throttles, Sharing
  <2>3. Throttles(b) => Scope(b) \in Scopes
    BY <2>1 DEF CallsAreOnRows, Calls, Scope, Throttles
  <2> QED
    BY <1>0, <2>1, <2>2, <2>3 DEF RetryFits, TypeOK
<1>8. ASSUME RecordFailure(b) PROVE RetryFits(b)'
  <2>1. pc[b] \in {"add", "incr", "set"} /\ result' = result
    BY <1>8 DEF RecordFailure, Add, Incr, IncrRaises, SetOne
  <2> QED
    BY <1>0, <2>1 DEF RetryFits
<1> QED
  BY <1>1, <1>2, <1>3, <1>4, <1>5, <1>6, <1>7, <1>8 DEF Next, Work

\* An accepted call that fails at its end, when its throttle has been reset, leaves
\* the row ready for its codes, and a scope of its own without failures.
THEOREM ResetIsBacked == Spec => RetryIsAccepted
<1> DEFINE Backed ==
      \A c \in Clients :
          /\ pc[c] = "commit" /\ result[c].accepted
          /\ pc'[c] = "idle" /\ uses' = uses
          => /\ Retry(c, hotp_counter'[Device(c)]) = result[c]
             /\ Throttles(c) => cache'[Scope(c)] = NoEntry
<1>1. Init => RetriesFit
  BY DEF Init, RetriesFit, RetryFits
<1>2. InvWithThrottle /\ InvWithThrottle' /\ RetriesFit /\ [Next]_vars => RetriesFit'
  <2>1. CASE Next
    BY <2>1, RetriesFitNext DEF InvWithThrottle
  <2>2. CASE UNCHANGED vars
    BY <2>2 DEF vars, tables, RetriesFit, RetryFits, Retry, Resubmitted, Device, Scope, Throttles,
                Sharing
  <2> QED
    BY <2>1, <2>2
<1>3. InvWithThrottle /\ RetriesFit /\ [Next]_vars => [Backed]_vars
  <2> SUFFICES ASSUME InvWithThrottle, RetriesFit, Next, NEW c \in Clients,
                      pc[c] = "commit", result[c].accepted, pc'[c] = "idle", uses' = uses
               PROVE  /\ Retry(c, hotp_counter'[Device(c)]) = result[c]
                      /\ Throttles(c) => cache'[Scope(c)] = NoEntry
    OBVIOUS
  <2>1. Inv
    BY DEF InvWithThrottle
  <2>2. Commit(c) \/ Abort(c)
    <3> USE DEF Inv, TypeOK
    <3>1. ASSUME NEW d \in Devices,
                 enroll_hotp_device(d) \/ Confirm(d) \/ SetActive(d) \/ PressToken(d)
          PROVE  FALSE
      BY <3>1 DEF enroll_hotp_device, Confirm, SetActive, PressToken
    <3>2. ASSUME NEW s \in Scopes, CacheForget(s) PROVE FALSE
      BY <3>2 DEF CacheForget, Forget
    <3>3. ASSUME NEW b \in Clients, NEW kind \in Kinds, NEW d \in Devices, Call(b, kind, d)
          PROVE  FALSE
      BY <2>1, <3>3 DEF Call, Goto
    <3>4. ASSUME NEW b \in Clients, Lock(b) \/ CheckThrottle(b) \/ Verify(b)
          PROVE  FALSE
      BY <2>1, <3>4 DEF Lock, CheckThrottle, PassCheck, FailCheck, Verify, AfterVerify, Goto
    <3>5. ASSUME NEW b \in Clients, ResetThrottle(b) \/ RecordFailure(b) PROVE FALSE
      BY <2>1, <3>5 DEF ResetThrottle, RecordFailure, Reset, Add, Incr, IncrRaises, SetOne, Goto
    <3>6. ASSUME NEW b \in Clients, b # c, Commit(b) \/ Abort(b) PROVE FALSE
      BY <2>1, <3>6 DEF Commit, Abort, Return, Goto
    <3> QED
      BY <3>1, <3>2, <3>3, <3>4, <3>5, <3>6 DEF Next, Work
  <2>3. ~Commit(c)
    <3> SUFFICES ASSUME Commit(c) PROVE FALSE
      OBVIOUS
    <3>1. PICK d, res, n : d = Device(c) /\ res = result[c] /\ n = res.matched
      OBVIOUS
    <3>2. /\ d \in Devices /\ res.next \in Counters
          /\ n \in Nat /\ n < res.next
      BY <2>1, <3>1, CommitFacts
    <3>3. n \in Counters /\ n \in Spent(res)
      BY <3>1, <3>2, CountersAssumption DEF Counters, Spent
    <3>4. uses' = [uses EXCEPT ![d] =
                     [m \in Counters |-> uses[d][m] + (IF m \in Spent(res) THEN 1 ELSE 0)]]
      BY <3>1 DEF Commit
    <3>5. uses \in [Devices -> [Counters -> Nat]]
      BY <2>1 DEF Inv, TypeOK
    <3>6. uses'[d][n] = uses[d][n] + 1 /\ uses[d][n] \in Nat
      BY <3>2, <3>3, <3>4, <3>5
    <3> QED
      BY <3>6
  <2>4. UNCHANGED <<hotp_counter, cache>>
    BY <2>2, <2>3 DEF Abort, tables
  <2>5. row[c] = hotp_counter[Device(c)]
    BY <2>1 DEF Inv, RowIsCurrent, HasLock
  <2> QED
    BY <2>4, <2>5 DEF RetriesFit, RetryFits
<1> QED
  BY <1>1, <1>2, <1>3, ThrottleInvariance, PTL DEF Spec, RetryIsAccepted

(***************************************************************************)
(* What the trail is compared with: only commits and enrolments touch it.  *)
(***************************************************************************)
LEMMA OtherStepsKeepTables ==
    ASSUME Next,
           ~\E c \in Clients : Commit(c),
           ~\E d \in Devices : enroll_hotp_device(d)
    PROVE  UNCHANGED <<enrolled, hotp_counter, audit, uses>>
<1> USE DEF tables
<1>1. ASSUME NEW d \in Devices, Confirm(d) \/ SetActive(d) \/ PressToken(d)
      PROVE  UNCHANGED <<enrolled, hotp_counter, audit, uses>>
  BY <1>1 DEF Confirm, SetActive, PressToken
<1>2. ASSUME NEW s \in Scopes, CacheForget(s)
      PROVE  UNCHANGED <<enrolled, hotp_counter, audit, uses>>
  BY <1>2 DEF CacheForget
<1>3. ASSUME NEW c \in Clients, NEW kind \in Kinds, NEW d \in Devices, Call(c, kind, d)
      PROVE  UNCHANGED <<enrolled, hotp_counter, audit, uses>>
  BY <1>3 DEF Call
<1>4. ASSUME NEW c \in Clients, Lock(c) \/ CheckThrottle(c) \/ Verify(c) \/ Abort(c)
      PROVE  UNCHANGED <<enrolled, hotp_counter, audit, uses>>
  BY <1>4 DEF Lock, CheckThrottle, Verify, Abort
<1>5. ASSUME NEW c \in Clients, ResetThrottle(c) \/ RecordFailure(c)
      PROVE  UNCHANGED <<enrolled, hotp_counter, audit, uses>>
  BY <1>5 DEF ResetThrottle, RecordFailure
<1> QED
  BY <1>1, <1>2, <1>3, <1>4, <1>5 DEF Next, Work

(***************************************************************************)
(* Calls.                                                                  *)
(***************************************************************************)
AllAudited == \A c \in Clients : pc[c] # "idle" => call[c].audited

LEMMA AllAuditedNext ==
    ASSUME Inv, Next, AllAudited, AuditModes = {TRUE}
    PROVE  AllAudited'
<1>1. ASSUME pc' = pc, call' = call PROVE AllAudited'
  BY <1>1 DEF AllAudited
<1>2. ASSUME NEW c \in Clients, pc[c] # "idle", call' = call,
             \E label : pc' = [pc EXCEPT ![c] = label]
      PROVE  AllAudited'
  BY <1>2 DEF AllAudited, Inv, TypeOK
<1>3. ASSUME NEW d \in Devices,
             enroll_hotp_device(d) \/ Confirm(d) \/ SetActive(d) \/ PressToken(d)
      PROVE  AllAudited'
  BY <1>1, <1>3 DEF enroll_hotp_device, Confirm, SetActive, PressToken
<1>4. ASSUME NEW s \in Scopes, CacheForget(s) PROVE AllAudited'
  BY <1>1, <1>4 DEF CacheForget, Forget
<1>5. ASSUME NEW c \in Clients, NEW kind \in Kinds, NEW d \in Devices, Call(c, kind, d)
      PROVE  AllAudited'
  <2>1. PICK codes \in SubmittedCodes(d, kind), s \in ScopesOf[d] :
           call' = [call EXCEPT ![c] = [kind |-> kind, device |-> d, codes |-> codes,
                                        scope |-> s, audited |-> TRUE]]
    BY <1>5 DEF Call
  <2>2. pc' = [pc EXCEPT ![c] = "lock"]
    BY <1>5 DEF Call, Goto
  <2> QED
    BY <2>1, <2>2 DEF AllAudited, Inv, TypeOK
<1>6. ASSUME NEW c \in Clients,
             Lock(c) \/ CheckThrottle(c) \/ ResetThrottle(c) \/ RecordFailure(c)
      PROVE  AllAudited'
  BY <1>2, <1>6 DEF Lock, CheckThrottle, PassCheck, FailCheck, ResetThrottle, RecordFailure,
                    Reset, Add, Incr, IncrRaises, SetOne, Goto
<1>7. ASSUME NEW c \in Clients, Verify(c) PROVE AllAudited'
  <2>1. /\ pc[c] = "verify" /\ \E label : pc' = [pc EXCEPT ![c] = label]
        /\ call' = [call EXCEPT ![c].codes = <<>>]
    BY <1>7 DEF Verify, Goto
  <2>2. call[c] \in Calls
    BY <2>1 DEF Inv, CallsAreOnRows
  <2>3. call'[c].audited = call[c].audited
        /\ \A b \in Clients \ {c} : call'[b] = call[b] /\ pc'[b] = pc[b]
    BY <2>1, <2>2 DEF Calls, Inv, TypeOK
  <2> QED
    BY <2>1, <2>3 DEF AllAudited
<1>8. ASSUME NEW c \in Clients, Commit(c) \/ Abort(c) PROVE AllAudited'
  <2>1. pc' = [pc EXCEPT ![c] = "idle"] /\ call' = [call EXCEPT ![c] = NoCall]
    BY <1>8 DEF Commit, Abort, Return, Goto
  <2> QED
    BY <2>1 DEF AllAudited, Inv, TypeOK
<1> QED
  BY <1>3, <1>4, <1>5, <1>6, <1>7, <1>8 DEF Next, Work

(***************************************************************************)
(* The trail of a device.                                                  *)
(***************************************************************************)
\* What the trail of device d says of its counter and of its uses.
Accounts(d) ==
    LET n == Len(audit[d]) IN
    /\ \A i \in 1..(n - 1) : audit[d][i].next = audit[d][i + 1].server
    /\ n > 0 => /\ audit[d][1].server \in InitialCounters
                /\ audit[d][n].next = hotp_counter[d]
    /\ \A m \in Counters : uses[d][m] = Cardinality(Spenders(d, m))

Begins(d) == d \in enrolled /\ audit[d] = <<>> => hotp_counter[d] \in InitialCounters

\* A device whose row, trail and uses stay the same.
LEMMA SameTrail ==
    ASSUME NEW d \in Devices, Accounts(d), Begins(d), enrolled' = enrolled,
           audit'[d] = audit[d], hotp_counter'[d] = hotp_counter[d], uses'[d] = uses[d]
    PROVE  Accounts(d)' /\ Begins(d)'
BY DEF Accounts, Begins, Spenders

\* A new row has no events, and nothing has used its counters.
LEMMA EnrollTrail ==
    ASSUME Inv, NEW e \in Devices, enroll_hotp_device(e),
           \A d \in Devices : Accounts(d) /\ Begins(d)
    PROVE  \A d \in Devices : Accounts(d)' /\ Begins(d)'
<1> SUFFICES ASSUME NEW d \in Devices PROVE Accounts(d)' /\ Begins(d)'
  OBVIOUS
<1>1. audit' = audit /\ uses' = uses /\ enrolled' = enrolled \cup {e} /\ e \notin enrolled
      /\ \E n \in InitialCounters : hotp_counter' = [hotp_counter EXCEPT ![e] = n]
  BY DEF enroll_hotp_device
<1>2. CASE d = e
  <2>1. audit[d] = <<>> /\ hotp_counter'[d] \in InitialCounters
    BY <1>1, <1>2 DEF Inv, AuditIsOfRows, TypeOK
  <2>2. \A m \in Counters : uses[d][m] = Cardinality(Spenders(d, m))
    BY DEF Accounts
  <2> QED
    BY <1>1, <2>1, <2>2 DEF Accounts, Begins, Spenders
<1>3. CASE d # e
  <2>1. hotp_counter'[d] = hotp_counter[d]
    BY <1>1, <1>3 DEF Inv, TypeOK
  <2> QED
    BY <1>1, <1>3, <2>1 DEF Accounts, Begins, Spenders
<1> QED
  BY <1>2, <1>3

\* An event more that spends the counter counts one more.
LEMMA OneMoreSpender ==
    ASSUME NEW d \in Devices, audit[d] \in Seq(Results),
           NEW res \in Results, audit'[d] = Append(audit[d], res), NEW m
    PROVE  Cardinality(Spenders(d, m)') = Cardinality(Spenders(d, m)) +
              (IF res.accepted /\ m \in Spent(res) THEN 1 ELSE 0)
<1> DEFINE n == Len(audit[d])
<1>1. /\ n \in Nat /\ Len(audit'[d]) = n + 1
      /\ \A i \in 1..n : audit'[d][i] = audit[d][i]
      /\ audit'[d][n + 1] = res
  OBVIOUS
<1>2. IsFiniteSet(Spenders(d, m)) /\ Cardinality(Spenders(d, m)) \in Nat
      /\ n + 1 \notin Spenders(d, m)
  <2>1. Spenders(d, m) \in SUBSET (1..n) /\ n + 1 \notin Spenders(d, m)
    BY <1>1 DEF Spenders
  <2>2. IsFiniteSet(1..n)
    BY <1>1, FS_Interval
  <2> QED
    BY <2>1, <2>2, FS_Subset, FS_CardinalityType
<1>3. Spenders(d, m)' = Spenders(d, m) \cup
         (IF res.accepted /\ m \in Spent(res) THEN {n + 1} ELSE {})
  <2>1. Spenders(d, m)' = {i \in 1..(n + 1) : audit'[d][i].accepted
                                             /\ m \in Spent(audit'[d][i])}
    BY <1>1 DEF Spenders, Spent
  <2>2. 1..(n + 1) = (1..n) \cup {n + 1}
    BY <1>1
  <2> HIDE DEF n
  <2> QED
    BY <1>1, <2>1, <2>2 DEF Spenders, n
<1> HIDE DEF n
<1>4. Cardinality(Spenders(d, m) \cup {n + 1}) = Cardinality(Spenders(d, m)) + 1
  BY <1>2, FS_AddElement
<1>5. CASE res.accepted /\ m \in Spent(res)
  <2>1. Spenders(d, m)' = Spenders(d, m) \cup {n + 1}
    BY <1>3, <1>5
  <2> QED
    BY <1>4, <1>5, <2>1
<1>6. CASE ~(res.accepted /\ m \in Spent(res))
  <2>1. Spenders(d, m)' = Spenders(d, m)
    BY <1>3, <1>6
  <2> QED
    BY <1>2, <1>6, <2>1
<1> QED
  BY <1>5, <1>6

\* The event of a commit begins with the counter the row had, and ends with the one
\* it gets.
LEMMA CommitTrail ==
    ASSUME Inv, NEW c \in Clients, Commit(c), AllAudited,
           \A d \in Devices : Accounts(d) /\ Begins(d)
    PROVE  \A d \in Devices : Accounts(d)' /\ Begins(d)'
<1>0. PICK e, res : e = Device(c) /\ res = result[c]
  OBVIOUS
<1>1. /\ e \in Devices /\ e \in enrolled
      /\ hotp_counter[e] \in Nat /\ res \in Results /\ res.server = hotp_counter[e]
      /\ \/ /\ res.accepted
            /\ hotp_counter' = [hotp_counter EXCEPT ![e] = res.next]
            /\ uses' = [uses EXCEPT ![e] =
                  [n \in Counters |-> uses[e][n] + (IF n \in Spent(res) THEN 1 ELSE 0)]]
         \/ /\ ~res.accepted
            /\ res.next = hotp_counter[e]
            /\ UNCHANGED <<hotp_counter, uses>>
  BY <1>0, CommitFacts
<1>2. enrolled' = enrolled /\ audit' = [audit EXCEPT ![e] = Append(@, res)]
  <2>1. pc[c] = "commit" /\ enrolled' = enrolled
    BY DEF Commit
  <2>2. call[c].audited
    BY <2>1 DEF AllAudited
  <2> QED
    BY <1>0, <2>1, <2>2, CommitFacts
<1>3. /\ audit \in [Devices -> Seq(Results)] /\ hotp_counter \in [Devices -> Counters]
      /\ uses \in [Devices -> [Counters -> Nat]]
  BY DEF Inv, TypeOK
<1>4. /\ hotp_counter'[e] = res.next
      /\ \A m \in Counters : uses'[e][m] =
            uses[e][m] + (IF res.accepted /\ m \in Spent(res) THEN 1 ELSE 0)
  <2>1. CASE res.accepted
    BY <1>1, <1>3, <2>1
  <2>2. CASE ~res.accepted
    <3>1. \A m \in Counters : uses[e][m] \in Nat
      BY <1>1, <1>3
    <3> QED
      BY <1>1, <2>2, <3>1
  <2> QED
    BY <2>1, <2>2
<1>5. ASSUME NEW d \in Devices, d # e PROVE Accounts(d)' /\ Begins(d)'
  <2>1. audit'[d] = audit[d] /\ hotp_counter'[d] = hotp_counter[d] /\ uses'[d] = uses[d]
    BY <1>1, <1>2, <1>3, <1>5
  <2> QED
    BY <1>2, <1>5, <2>1, SameTrail
<1>6. Accounts(e)' /\ Begins(e)'
  <2>0. PICK n : n = Len(audit[e])
    OBVIOUS
  <2>1. /\ n \in Nat /\ audit[e] \in Seq(Results)
        /\ audit'[e] = Append(audit[e], res) /\ Len(audit'[e]) = n + 1
        /\ \A i \in 1..n : audit'[e][i] = audit[e][i]
        /\ audit'[e][n + 1] = res
    BY <1>1, <1>2, <1>3, <2>0
  <2>2. /\ \A i \in 1..(n - 1) : audit[e][i].next = audit[e][i + 1].server
        /\ n > 0 => /\ audit[e][1].server \in InitialCounters
                    /\ audit[e][n].next = hotp_counter[e]
        /\ \A m \in Counters : uses[e][m] = Cardinality(Spenders(e, m))
    BY <1>1, <2>0 DEF Accounts
  <2>3. \A i \in 1..n : audit'[e][i].next = audit'[e][i + 1].server
    BY <1>1, <2>1, <2>2
  <2>4. audit'[e][1].server \in InitialCounters
    <3>1. CASE n = 0
      <4>1. audit[e] = <<>>
        BY <2>0, <2>1, <3>1
      <4> QED
        BY <1>1, <2>1, <3>1, <4>1 DEF Begins
    <3>2. CASE n > 0
      BY <2>1, <2>2, <3>2
    <3> QED
      BY <2>1, <3>1, <3>2
  <2>5. \A m \in Counters : uses'[e][m] = Cardinality(Spenders(e, m)')
    BY <1>1, <1>4, <2>1, <2>2, OneMoreSpender
  <2>6. audit'[e] # <<>>
    BY <2>1
  <2> QED
    BY <1>4, <2>1, <2>3, <2>4, <2>5, <2>6 DEF Accounts, Begins
<1> QED
  BY <1>5, <1>6

(***************************************************************************)
(* The invariant.                                                          *)
(***************************************************************************)
LEMMA AuditInvParts ==
    ASSUME Inv
    PROVE  InvWithTrail <=>
              (AuditModes = {TRUE} =>
                  AllAudited /\ \A d \in Devices : Accounts(d) /\ Begins(d))
BY DEF InvWithTrail, AuditBegins, AuditAccountsForCounter, AllAudited, Accounts, Begins,
       Inv, TypeOK

\* The invariant for the trail of the HOTP adapters.
THEOREM AuditInvariance == Spec => []InvWithTrail
<1>1. Init => InvWithTrail
  <2> SUFFICES ASSUME Init PROVE InvWithTrail
    OBVIOUS
  <2>1. Inv
    BY InitInv
  <2>2. AllAudited
    BY DEF Init, AllAudited
  <2>3. ASSUME NEW d \in Devices PROVE Accounts(d) /\ Begins(d)
    <3>1. audit[d] = <<>> /\ d \notin enrolled /\ \A m \in Counters : uses[d][m] = 0
      BY DEF Init
    <3>2. \A m \in Counters : Spenders(d, m) = {}
      BY <3>1 DEF Spenders
    <3> QED
      BY <3>1, <3>2, FS_EmptySet DEF Accounts, Begins
  <2> QED
    BY <2>1, <2>2, <2>3, AuditInvParts
<1>2. InvWithTrail /\ [Next]_vars => InvWithTrail'
  <2> SUFFICES ASSUME InvWithTrail, [Next]_vars PROVE InvWithTrail'
    OBVIOUS
  <2>1. Inv /\ Inv'
    BY NextInv DEF InvWithTrail
  <2>2. SUFFICES ASSUME AuditModes = {TRUE}
                 PROVE  AllAudited' /\ \A d \in Devices : Accounts(d)' /\ Begins(d)'
    BY <2>1 DEF InvWithTrail, AuditBegins, AuditAccountsForCounter, AllAudited, Accounts,
                Begins, Inv, TypeOK
  <2>3. AllAudited /\ \A d \in Devices : Accounts(d) /\ Begins(d)
    BY <2>1, <2>2, AuditInvParts
  <2>4. ASSUME NEW c \in Clients, Commit(c)
        PROVE  \A d \in Devices : Accounts(d)' /\ Begins(d)'
    BY <2>1, <2>3, <2>4, CommitTrail
  <2>5. ASSUME NEW e \in Devices, enroll_hotp_device(e)
        PROVE  \A d \in Devices : Accounts(d)' /\ Begins(d)'
    BY <2>1, <2>3, <2>5, EnrollTrail
  <2>6. ASSUME UNCHANGED <<enrolled, hotp_counter, audit, uses>>
        PROVE  \A d \in Devices : Accounts(d)' /\ Begins(d)'
    <3> SUFFICES ASSUME NEW d \in Devices PROVE Accounts(d)' /\ Begins(d)'
      OBVIOUS
    <3>1. Accounts(d) /\ Begins(d)
      BY <2>3
    <3> QED
      BY <2>6, <3>1, SameTrail
  <2>7. CASE Next
    BY <2>1, <2>2, <2>3, <2>4, <2>5, <2>6, <2>7, AllAuditedNext, OtherStepsKeepTables
  <2>8. CASE UNCHANGED vars
    <3>1. UNCHANGED <<pc, call, enrolled, hotp_counter, audit, uses>>
      BY <2>8 DEF vars, tables
    <3>2. AllAudited'
      BY <2>3, <3>1 DEF AllAudited
    <3> QED
      BY <2>6, <3>1, <3>2
  <2> QED
    BY <2>7, <2>8
<1> QED
  BY <1>1, <1>2, PTL DEF Spec

\* With every call audited, the events of a device lead without a gap from the
\* counter it was enrolled with to the saved one, and account for every use.
THEOREM AuditAccounts == Spec => []AuditAccountsForCounter
<1>1. InvWithTrail => AuditAccountsForCounter
  BY DEF InvWithTrail
<1> QED
  BY <1>1, AuditInvariance, PTL
=============================================================================
