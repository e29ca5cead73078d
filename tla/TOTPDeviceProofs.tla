-------------------------- MODULE TOTPDeviceProofs --------------------------
(***************************************************************************)
(* Proofs about TOTPDevice, for any callers, devices, clocks, windows and  *)
(* codes.                                                                  *)
(***************************************************************************)
EXTENDS TOTPDevice, TLAPS

(***************************************************************************)
(* The service and the range of the time steps.                            *)
(***************************************************************************)
\* The constants that give the range of time steps, and what None is not.
LEMMA RangesFit ==
    /\ ValidWindow \in Nat /\ Skew \in Nat /\ Drift \in Nat
    /\ FirstStep \in Nat /\ LastStep \in Nat /\ ValidWindow + Skew <= FirstStep
    /\ FirstStep <= LastStep
    /\ None \notin Int
BY TimeAssumption, NoneAssumption

LEMMA FindTimecodeInWindow ==
    ASSUME NEW secret, NEW code, NEW base \in Int, NEW valid_window \in Nat
    PROVE  find_matching_timecode(secret, code, base, valid_window)
              \in ((base - valid_window)..(base + valid_window)) \cup {None}
BY DEF find_matching_timecode, Steps, FirstOf, IsLeast

\* What a service returns on any machine: a result whose step, when accepted, is
\* after the last one and near the present.
LEMMA VerifyFits ==
    ASSUME NEW secret, NEW code, NEW last \in Timecodes \cup {None},
           now \in FirstStep..LastStep, NEW at_time \in Readings
    PROVE  ResultFits(verify_totp(secret, code, at_time, ValidWindow, last), last)
<1> DEFINE matched == find_matching_timecode(secret, code, at_time, ValidWindow)
<1>1. at_time \in Int /\ now - Skew <= at_time /\ at_time <= now + Skew
  BY RangesFit DEF Readings
<1>2. matched \in ((at_time - ValidWindow)..(at_time + ValidWindow)) \cup {None}
  BY <1>1, FindTimecodeInWindow, RangesFit
<1>3. matched # None => NearNow(matched)
  BY <1>1, <1>2, RangesFit DEF NearNow, Timecodes
<1>4. matched \in Timecodes \cup {None}
  BY <1>3 DEF NearNow
<1>5. \A reason \in {"none", "invalid", "replay"}, b \in BOOLEAN :
         /\ TOTPResult(b, matched, reason) \in Results
         /\ TOTPResult(b, None, reason) \in Results
  BY <1>4 DEF TOTPResult, Results
<1>6. matched # None /\ ~IsReplay(matched, last) /\ last # None => last < matched
  BY <1>3, RangesFit DEF IsReplay, NearNow, Timecodes
<1>7. CASE code = Blank \/ matched = None
  BY <1>5, <1>7 DEF ResultFits, verify_totp, TOTPResult
<1>8. CASE ~(code = Blank \/ matched = None) /\ IsReplay(matched, last)
  BY <1>5, <1>8 DEF ResultFits, verify_totp, TOTPResult
<1>9. CASE ~(code = Blank \/ matched = None) /\ ~IsReplay(matched, last)
  BY <1>3, <1>5, <1>6, <1>9 DEF ResultFits, verify_totp, TOTPResult
<1> QED
  BY <1>7, <1>8, <1>9

LEMMA RefusalFits ==
    ASSUME NEW reason \in {"invalid", "throttled"}, NEW last
    PROVE  ResultFits(TOTPResult(FALSE, None, reason), last)
BY DEF ResultFits, TOTPResult, Results

(***************************************************************************)
(* The invariant.                                                          *)
(***************************************************************************)
LEMMA InitInv == Init => Inv
BY RangesFit, ClientsAssumption
   DEF Init, Inv, TypeOK, CallsAreTyped, RowIsCurrent, ResultsFit, SpentUpToLast, HasLock

\* The row and the application: nothing a call relies on changes.
LEMMA RowInv ==
    ASSUME Inv, NEW d \in Devices, enroll_totp_device(d) \/ Confirm(d) \/ SetActive(d)
    PROVE  Inv'
<1> USE DEF Inv, enroll_totp_device, Confirm, SetActive
<1>1. TypeOK'
  BY DEF TypeOK
<1>2. CallsAreTyped' /\ RowIsCurrent'
  BY DEF CallsAreTyped, RowIsCurrent, HasLock, Device
<1>3. ResultsFit' /\ SpentUpToLast'
  BY DEF ResultsFit, ResultFits, NearNow, SpentUpToLast
<1> QED
  BY <1>1, <1>2, <1>3

\* What is near the present stays near it.
LEMMA TickInv ==
    ASSUME Inv, Tick PROVE Inv'
<1> USE DEF Inv, Tick, tables
<1>1. TypeOK'
  BY RangesFit DEF TypeOK
<1>2. CallsAreTyped' /\ RowIsCurrent'
  BY DEF CallsAreTyped, RowIsCurrent, HasLock, Device
<1>3. \A t : NearNow(t) => NearNow(t)'
  BY RangesFit DEF TypeOK, NearNow, Timecodes
<1>4. ResultsFit' /\ SpentUpToLast'
  BY <1>3 DEF ResultsFit, ResultFits, SpentUpToLast
<1> QED
  BY <1>1, <1>2, <1>4

LEMMA CacheForgetInv ==
    ASSUME Inv, NEW s \in Scopes, CacheForget(s) PROVE Inv'
<1> USE DEF Inv, CacheForget, Forget, Forgotten, tables
<1>1. TypeOK'
  BY DEF TypeOK
<1>2. CallsAreTyped' /\ RowIsCurrent'
  BY DEF CallsAreTyped, RowIsCurrent, HasLock, Device
<1>3. ResultsFit' /\ SpentUpToLast'
  BY DEF ResultsFit, ResultFits, NearNow, SpentUpToLast
<1> QED
  BY <1>1, <1>2, <1>3

LEMMA CallInv ==
    ASSUME Inv, NEW c \in Clients, NEW d \in Devices, Call(c, d) PROVE Inv'
<1> USE DEF Inv, Call, Goto, tables
<1>1. PICK code \in Submissions(d), s \in ScopesOf[d] :
         call' = [call EXCEPT ![c] = [device |-> d, code |-> code, scope |-> s]]
  OBVIOUS
<1>2. \A t \in (FirstStep - ValidWindow - Skew)..(now + Drift) :
         t \in 0..(LastStep + Skew + ValidWindow + Drift)
  BY RangesFit DEF TypeOK
<1>3. [device |-> d, code |-> code, scope |-> s] \in Calls
  BY <1>2, ScopesAssumption DEF Submissions, Calls
<1>4. TypeOK'
  BY <1>1, <1>3 DEF TypeOK
<1>5. CallsAreTyped'
  BY <1>1, <1>3 DEF CallsAreTyped, TypeOK
<1>6. RowIsCurrent'
  BY <1>1 DEF RowIsCurrent, HasLock, Device, TypeOK
<1>7. ResultsFit' /\ SpentUpToLast'
  BY DEF ResultsFit, ResultFits, NearNow, SpentUpToLast, TypeOK
<1> QED
  BY <1>4, <1>5, <1>6, <1>7

\* The client that gets the lock is the only one that has it, and reads the row
\* as it stands.
LEMMA LockInv ==
    ASSUME Inv, NEW c \in Clients, Lock(c) PROVE Inv'
<1> DEFINE d == Device(c)
<1> USE DEF Inv, Lock, Goto, tables
<1>1. d \in Devices
  BY DEF CallsAreTyped, Calls, Device
<1>2. ResultFits(TOTPResult(FALSE, None, "invalid"), last_accepted_timecode[d])
  BY RefusalFits
<1>3. \A b \in Clients : HasLock(b) => Device(b) # d
  BY <1>1, ClientsAssumption DEF RowIsCurrent, LockFree
<1>4. TypeOK'
  BY <1>1, <1>2 DEF TypeOK, ResultFits
<1>5. CallsAreTyped'
  BY DEF CallsAreTyped, TypeOK
<1>6. RowIsCurrent'
  <2> HIDE DEF d
  <2>1. /\ lock' = [lock EXCEPT ![d] = c] /\ row' = [row EXCEPT ![c] = last_accepted_timecode[d]]
        /\ UNCHANGED <<call, last_accepted_timecode>> /\ d = Device(c)
    BY DEF d
  <2>2. \A b \in Clients : b # c => pc'[b] = pc[b] /\ row'[b] = row[b]
    BY <2>1 DEF TypeOK
  <2>3. \A b \in Clients : Device(b)' = Device(b)
    BY <2>1 DEF Device
  <2>4. lock'[d] = c /\ row'[c] = last_accepted_timecode[d]
    BY <1>1, <2>1 DEF TypeOK
  <2>5. \A e \in Devices : e # d => lock'[e] = lock[e]
    BY <2>1 DEF TypeOK
  <2>6. ASSUME NEW b \in Clients, b # c, HasLock(b)'
        PROVE  lock'[Device(b)] = b /\ row'[b] = last_accepted_timecode[Device(b)]
    <3>1. HasLock(b) /\ pc[b] # "idle"
      BY <2>2, <2>6 DEF HasLock
    <3>2. Device(b) \in Devices /\ Device(b) # d
      BY <1>3, <3>1 DEF CallsAreTyped, Calls, Device
    <3> QED
      BY <2>2, <2>5, <2>6, <3>1, <3>2 DEF RowIsCurrent
  <2> QED
    BY <2>1, <2>3, <2>4, <2>6 DEF RowIsCurrent
<1>7. ResultsFit'
  <2> SUFFICES ASSUME NEW b \in Clients, pc'[b] \in {"reset", "add", "incr", "set", "commit"}
               PROVE  ResultFits(result'[b], row'[b])
    BY DEF ResultsFit, ResultFits, NearNow
  <2>1. CASE b = c
    <3>1. result'[c] = TOTPResult(FALSE, None, "invalid") /\ row'[c] = last_accepted_timecode[d]
      BY <2>1 DEF TypeOK
    <3> QED
      BY <1>2, <2>1, <3>1
  <2>2. CASE b # c
    <3>1. pc'[b] = pc[b] /\ result'[b] = result[b] /\ row'[b] = row[b]
      BY <2>2 DEF TypeOK
    <3> QED
      BY <3>1 DEF ResultsFit
  <2> QED
    BY <2>1, <2>2
<1>8. SpentUpToLast'
  BY DEF SpentUpToLast, NearNow
<1> QED
  BY <1>4, <1>5, <1>6, <1>7, <1>8

LEMMA CheckThrottleInv ==
    ASSUME Inv, NEW c \in Clients, CheckThrottle(c) PROVE Inv'
<1> USE DEF Inv, CheckThrottle, PassCheck, FailCheck, Goto, tables
<1>1. ResultFits(TOTPResult(FALSE, None, "throttled"), row[c])
  BY RefusalFits
<1>2. TypeOK'
  BY <1>1 DEF TypeOK, ResultFits
<1>3. CallsAreTyped' /\ RowIsCurrent'
  BY DEF CallsAreTyped, RowIsCurrent, HasLock, Device, TypeOK
<1>4. ResultsFit'
  BY <1>1 DEF ResultsFit, ResultFits, NearNow, TypeOK
<1>5. SpentUpToLast'
  BY DEF SpentUpToLast, NearNow
<1> QED
  BY <1>2, <1>3, <1>4, <1>5

LEMMA VerifyInv ==
    ASSUME Inv, NEW c \in Clients, Verify(c) PROVE Inv'
<1> USE DEF Inv, Verify, AfterVerify, Goto, tables
<1>1. PICK at_time \in Readings :
         LET res == verify_totp(Device(c), call[c].code, at_time, ValidWindow, row[c]) IN
         /\ result' = [result EXCEPT ![c] = res]
         /\ Goto(c, AfterVerify(c, res.accepted))
  OBVIOUS
<1> DEFINE res == verify_totp(Device(c), call[c].code, at_time, ValidWindow, row[c])
<1>2. ResultFits(res, row[c])
  BY VerifyFits DEF TypeOK
<1>3. call[c] \in Calls /\ [call[c] EXCEPT !.code = Blank] \in Calls
  BY DEF CallsAreTyped, Calls
<1>4. /\ call' = [call EXCEPT ![c] = [call[c] EXCEPT !.code = Blank]]
      /\ Device(c)' = Device(c)
  BY <1>3 DEF TypeOK, Device, Calls
<1>5. /\ result' = [result EXCEPT ![c] = res]
      /\ \E label \in {"commit", "reset", "add"} : pc' = [pc EXCEPT ![c] = label]
  BY <1>1
<1> HIDE DEF res
<1>6. TypeOK'
  BY <1>2, <1>3, <1>4, <1>5 DEF TypeOK, ResultFits
<1>7. CallsAreTyped'
  BY <1>3, <1>4, <1>5 DEF CallsAreTyped, TypeOK
<1>8. RowIsCurrent'
  BY <1>4, <1>5 DEF RowIsCurrent, HasLock, Device, TypeOK
<1>9. ResultsFit'
  BY <1>2, <1>5 DEF ResultsFit, ResultFits, NearNow, TypeOK
<1>10. SpentUpToLast'
  BY DEF SpentUpToLast, NearNow
<1> QED
  BY <1>6, <1>7, <1>8, <1>9, <1>10

LEMMA ThrottleInv ==
    ASSUME Inv, NEW c \in Clients, ResetThrottle(c) \/ RecordFailure(c) PROVE Inv'
<1> USE DEF Inv, ResetThrottle, RecordFailure, Reset, Forgotten, Add, Added, Incr,
            IncrRaises, SetOne, Goto, tables
<1>1. cache' \in [Scopes -> Nat \cup {NoEntry}]
  BY DEF TypeOK
<1>2. \E label \in {"commit", "incr", "set"} : pc' = [pc EXCEPT ![c] = label]
  OBVIOUS
<1>3. pc[c] \in {"reset", "add", "incr", "set"}
  OBVIOUS
<1>4. UNCHANGED <<tables, lock, call, result, row, now>>
  OBVIOUS
<1> HIDE DEF ResetThrottle, RecordFailure, Reset, Forgotten, Add, Added, Incr,
             IncrRaises, SetOne
<1>5. TypeOK'
  BY <1>1, <1>2, <1>4 DEF TypeOK
<1>6. CallsAreTyped' /\ RowIsCurrent'
  BY <1>2, <1>3, <1>4 DEF CallsAreTyped, RowIsCurrent, HasLock, Device, TypeOK
<1>7. ResultsFit' /\ SpentUpToLast'
  BY <1>2, <1>3, <1>4 DEF ResultsFit, ResultFits, NearNow, SpentUpToLast, TypeOK
<1> QED
  BY <1>5, <1>6, <1>7

\* A transaction that rolls back leaves the others' rows as they read them.
LEMMA AbortInv ==
    ASSUME Inv, NEW c \in Clients, Abort(c) PROVE Inv'
<1> USE DEF Inv, Abort, Return, Goto, tables
<1>1. TypeOK'
  BY DEF TypeOK
<1>2. CallsAreTyped'
  BY DEF CallsAreTyped, TypeOK
<1>3. RowIsCurrent'
  BY DEF CallsAreTyped, Calls, RowIsCurrent, HasLock, Device, TypeOK
<1>4. ResultsFit' /\ SpentUpToLast'
  BY DEF ResultsFit, ResultFits, NearNow, SpentUpToLast, TypeOK
<1> QED
  BY <1>1, <1>2, <1>3, <1>4

\* What a client that commits relies on.
LEMMA CommitFacts ==
    ASSUME Inv, NEW c \in Clients, Commit(c)
    PROVE  LET d == Device(c)  last == last_accepted_timecode[d]  t == result[c].matched IN
           /\ d \in Devices /\ lock[d] = c
           /\ \A b \in Clients : b # c /\ HasLock(b) => Device(b) # d
           /\ ~result[c].accepted => UNCHANGED <<last_accepted_timecode, uses>>
           /\ result[c].accepted =>
                /\ NearNow(t) /\ (last # None => last < t)
                /\ \A u \in Timecodes : uses[d][u] = 1 => u < t
                /\ uses[d][t] = 0
                /\ last_accepted_timecode' = [last_accepted_timecode EXCEPT ![d] = t]
                /\ uses' = [uses EXCEPT ![d] = [uses[d] EXCEPT ![t] = 1]]
<1> DEFINE d == Device(c)
           last == last_accepted_timecode[d]
           t == result[c].matched
<1>1. d \in Devices /\ lock[d] = c /\ row[c] = last
  BY DEF Inv, CallsAreTyped, RowIsCurrent, Calls, Device, HasLock, Commit
<1>2. \A b \in Clients : b # c /\ HasLock(b) => Device(b) # d
  BY <1>1 DEF Inv, RowIsCurrent
<1>3. ResultFits(result[c], last)
  BY <1>1 DEF Inv, ResultsFit, Commit
<1>4. CASE result[c].accepted
  <2>1. NearNow(t) /\ (last # None => last < t)
    BY <1>3, <1>4 DEF ResultFits
  <2>2. last # None => last \in Nat
    BY <1>1 DEF Inv, SpentUpToLast, NearNow, Timecodes
  <2>3. \A u \in Timecodes : uses[d][u] = 1 => u < t
    BY <1>1, <2>1, <2>2 DEF Inv, SpentUpToLast, NearNow, Timecodes
  <2>4. uses[d][t] = 0
    BY <1>1, <2>1, <2>3 DEF Inv, SpentUpToLast, NearNow, Timecodes
  <2>5. /\ last_accepted_timecode' = [last_accepted_timecode EXCEPT ![d] = t]
        /\ uses' = [uses EXCEPT ![d] = [uses[d] EXCEPT ![t] = 1]]
    BY <1>4, <2>4 DEF Commit
  <2> QED
    BY <1>1, <1>2, <1>4, <2>1, <2>3, <2>4, <2>5
<1>5. CASE ~result[c].accepted
  BY <1>1, <1>2, <1>5 DEF Commit
<1> QED
  BY <1>4, <1>5

LEMMA CommitInv ==
    ASSUME Inv, NEW c \in Clients, Commit(c) PROVE Inv'
<1> DEFINE d == Device(c)
<1>1. /\ d \in Devices /\ lock[d] = c
      /\ \A b \in Clients : b # c /\ HasLock(b) => Device(b) # d
  BY CommitFacts
<1>2. /\ Return(c) /\ pc[c] = "commit"
      /\ UNCHANGED <<enrolled, is_active, confirmed, cache, now>>
  BY DEF Commit
<1>3. PICK t :
      \/ UNCHANGED <<last_accepted_timecode, uses>>
      \/ /\ NearNow(t)
         /\ \A u \in Timecodes : uses[d][u] = 1 => u < t
         /\ last_accepted_timecode' = [last_accepted_timecode EXCEPT ![d] = t]
         /\ uses' = [uses EXCEPT ![d] = [uses[d] EXCEPT ![t] = 1]]
  BY CommitFacts
<1> USE DEF Inv, Return, Goto
<1>4. TypeOK'
  <2>1. last_accepted_timecode' \in [Devices -> Timecodes \cup {None}]
    BY <1>1, <1>3 DEF TypeOK, NearNow
  <2>2. uses[d] \in [Timecodes -> Nat]
    BY <1>1 DEF TypeOK
  <2>3. [uses[d] EXCEPT ![t] = 1] \in [Timecodes -> Nat]
    BY <2>2
  <2>4. uses' \in [Devices -> [Timecodes -> Nat]]
    BY <1>3, <2>3 DEF TypeOK
  <2>5. /\ lock' \in [Devices -> Clients \cup {NoOne}]
        /\ pc' \in [Clients -> {"idle", "lock", "throttle", "verify", "reset", "add",
                               "incr", "set", "commit"}]
    BY <1>2 DEF TypeOK
  <2>6. /\ call' \in [Clients -> Calls \cup {NoCall}]
        /\ result' \in [Clients -> Results \cup {None}]
        /\ row' \in [Clients -> Timecodes \cup {None}]
    BY <1>2 DEF TypeOK
  <2> QED
    BY <1>2, <2>1, <2>4, <2>5, <2>6 DEF TypeOK
<1>5. CallsAreTyped'
  BY <1>2 DEF CallsAreTyped, TypeOK
<1>6. RowIsCurrent'
  BY <1>1, <1>2, <1>3 DEF CallsAreTyped, Calls, RowIsCurrent, HasLock, Device, TypeOK
<1>7. ResultsFit'
  BY <1>2 DEF ResultsFit, ResultFits, NearNow, TypeOK
<1>8. SpentUpToLast'
  <2>1. CASE UNCHANGED <<last_accepted_timecode, uses>>
    BY <1>2, <2>1 DEF SpentUpToLast, NearNow
  <2>2. CASE ~UNCHANGED <<last_accepted_timecode, uses>>
    <3>1. NearNow(t)' /\ t # None
      <4>1. NearNow(t) /\ now' = now
        BY <1>2, <1>3, <2>2
      <4>2. t \in Timecodes /\ t <= now + Skew + ValidWindow
        BY <4>1 DEF NearNow
      <4>3. t \in Int
        BY <4>2 DEF Timecodes
      <4>4. t \in Timecodes /\ t <= now' + Skew + ValidWindow
        BY <4>1, <4>2
      <4> QED
        BY <4>3, <4>4, RangesFit DEF NearNow
    <3>2. \A e \in Devices : e # d =>
             /\ last_accepted_timecode'[e] = last_accepted_timecode[e]
             /\ uses'[e] = uses[e]
      BY <1>1, <1>3, <2>2 DEF TypeOK
    <3>3. /\ last_accepted_timecode'[d] = t
          /\ \A u \in Timecodes : uses'[d][u] = IF u = t THEN 1 ELSE uses[d][u]
      <4>1. /\ last_accepted_timecode' = [last_accepted_timecode EXCEPT ![d] = t]
            /\ uses' = [uses EXCEPT ![d] = [uses[d] EXCEPT ![t] = 1]]
        BY <1>3, <2>2
      <4>2. last_accepted_timecode'[d] = t /\ uses'[d] = [uses[d] EXCEPT ![t] = 1]
        BY <1>1, <4>1 DEF TypeOK
      <4>3. uses[d] \in [Timecodes -> Nat]
        BY <1>1 DEF TypeOK
      <4>4. \A u \in Timecodes :
               [uses[d] EXCEPT ![t] = 1][u] = IF u = t THEN 1 ELSE uses[d][u]
        BY <4>3
      <4> QED
        BY <4>2, <4>4
    <3>4. \A u \in Timecodes : u \in Int
      BY DEF Timecodes
    <3>5. t \in Timecodes
      BY <1>3, <2>2 DEF NearNow
    <3>6. \A u \in Timecodes : /\ uses'[d][u] \in {0, 1}
                               /\ uses'[d][u] = 1 => u <= t
      BY <1>1, <1>3, <2>2, <3>3, <3>4, <3>5 DEF SpentUpToLast
    <3>7. ASSUME NEW e \in Devices, NEW last, last = last_accepted_timecode'[e]
          PROVE  /\ last # None => NearNow(last)'
                 /\ \A u \in Timecodes : /\ uses'[e][u] \in {0, 1}
                                         /\ uses'[e][u] = 1 => last # None /\ u <= last
      <4>1. CASE e = d
        <5>1. last = t
          BY <3>3, <3>7, <4>1
        <5> QED
          BY <3>1, <3>6, <4>1, <5>1 DEF NearNow
      <4>2. CASE e # d
        <5>1. last = last_accepted_timecode[e] /\ uses'[e] = uses[e]
          BY <3>2, <3>7, <4>2
        <5>2. \A u : NearNow(u)' <=> NearNow(u)
          BY <1>2 DEF NearNow
        <5> QED
          BY <5>1, <5>2 DEF SpentUpToLast
      <4> QED
        BY <4>1, <4>2
    <3> QED
      BY <3>7 DEF SpentUpToLast
  <2> QED
    BY <2>1, <2>2
<1> QED
  BY <1>4, <1>5, <1>6, <1>7, <1>8

LEMMA NextInv == Inv /\ [Next]_vars => Inv'
<1> SUFFICES ASSUME Inv, [Next]_vars PROVE Inv'
  OBVIOUS
<1>1. ASSUME NEW d \in Devices, enroll_totp_device(d) \/ Confirm(d) \/ SetActive(d)
      PROVE  Inv'
  BY <1>1, RowInv
<1>2. CASE Tick
  BY <1>2, TickInv
<1>3. ASSUME NEW s \in Scopes, CacheForget(s) PROVE Inv'
  BY <1>3, CacheForgetInv
<1>4. ASSUME NEW c \in Clients, NEW d \in Devices, Call(c, d) PROVE Inv'
  BY <1>4, CallInv
<1>5. ASSUME NEW c \in Clients, Lock(c) \/ Abort(c) PROVE Inv'
  BY <1>5, LockInv, AbortInv
<1>6. ASSUME NEW c \in Clients, Work(c) PROVE Inv'
  BY <1>6, CheckThrottleInv, VerifyInv, ThrottleInv, CommitInv DEF Work
<1>7. CASE UNCHANGED vars
  BY <1>7 DEF vars, tables, Inv, TypeOK, CallsAreTyped, RowIsCurrent, ResultsFit,
     ResultFits, NearNow, SpentUpToLast, HasLock, Device
<1> QED
  BY <1>1, <1>2, <1>3, <1>4, <1>5, <1>6, <1>7 DEF Next

\* The inductive invariant.
THEOREM Invariance == Spec => []Inv
BY InitInv, NextInv, PTL DEF Spec

\* Type correctness: what is stored is a time step counted from the epoch.
THEOREM TypeCorrect == Spec => []TypeOK
<1>1. Inv => TypeOK
  BY DEF Inv
<1> QED
  BY <1>1, Invariance, PTL

(***************************************************************************)
(* Locks.                                                                  *)
(***************************************************************************)
\* A step that leaves the locks, and the calls of those who hold one, at work on
\* the row they have locked, leaves the holders at work.
LEMMA HoldersKeepWorking ==
    ASSUME TypeOK, LockHoldersWork, UNCHANGED lock,
           \A b \in Clients : HasLock(b) => HasLock(b)' /\ Device(b)' = Device(b)
    PROVE  LockHoldersWork'
BY ClientsAssumption DEF LockHoldersWork, TypeOK

LEMMA LockHoldersStep == Inv /\ LockHoldersWork /\ [Next]_vars => LockHoldersWork'
<1> SUFFICES ASSUME Inv, LockHoldersWork, [Next]_vars PROVE LockHoldersWork'
  OBVIOUS
<1>1. TypeOK
  BY DEF Inv
<1>2. ASSUME UNCHANGED <<lock, pc, call>> PROVE LockHoldersWork'
  BY <1>1, <1>2, HoldersKeepWorking DEF HasLock, Device
<1>3. ASSUME NEW d \in Devices,
             enroll_totp_device(d) \/ Confirm(d) \/ SetActive(d)
      PROVE  LockHoldersWork'
  BY <1>2, <1>3 DEF enroll_totp_device, Confirm, SetActive
<1>4. ASSUME NEW s \in Scopes, CacheForget(s) PROVE LockHoldersWork'
  BY <1>2, <1>4 DEF CacheForget, Forget
<1>5. ASSUME NEW c \in Clients, NEW d \in Devices, Call(c, d)
      PROVE  LockHoldersWork'
  <2>1. /\ ~HasLock(c) /\ UNCHANGED lock
        /\ \A b \in Clients \ {c} : pc'[b] = pc[b] /\ call'[b] = call[b]
    BY <1>1, <1>5 DEF Call, Goto, HasLock, TypeOK
  <2> QED
    BY <1>1, <2>1, HoldersKeepWorking DEF HasLock, Device
<1>6. ASSUME NEW c \in Clients, Lock(c) PROVE LockHoldersWork'
  <2> DEFINE d == Device(c)
  <2>1. /\ pc[c] = "lock" /\ lock' = [lock EXCEPT ![d] = c] /\ UNCHANGED call
        /\ pc'[c] \in {"commit", "verify", "throttle"}
        /\ \A b \in Clients \ {c} : pc'[b] = pc[b]
    BY <1>1, <1>6 DEF Lock, Goto, TypeOK
  <2>2. HasLock(c)' /\ Device(c)' = d /\ ~HasLock(c)
    BY <2>1 DEF HasLock, Device
  <2>3. \A b \in Clients \ {c} : HasLock(b) => HasLock(b)' /\ Device(b)' = Device(b)
    BY <2>1 DEF HasLock, Device
  <2> SUFFICES ASSUME NEW e \in Devices, lock'[e] # NoOne
               PROVE  HasLock(lock[e])' /\ Device(lock[e])' = e
    BY DEF LockHoldersWork
  <2>4. CASE e = d
    BY <1>1, <2>1, <2>2, <2>4 DEF TypeOK, HasLock, Device
  <2>5. CASE e # d
    <3> DEFINE b == lock[e]
    <3>1. lock'[e] = b /\ b \in Clients /\ HasLock(b) /\ Device(b) = e
      BY <1>1, <2>1, <2>5 DEF TypeOK, LockHoldersWork
    <3> QED
      BY <2>2, <2>3, <3>1 DEF HasLock, Device
  <2> QED
    BY <2>4, <2>5
<1>7. ASSUME NEW c \in Clients, Work(c), ~Commit(c) PROVE LockHoldersWork'
  <2>1. CheckThrottle(c) \/ Verify(c) \/ ResetThrottle(c) \/ RecordFailure(c)
    BY <1>7 DEF Work
  <2>2. UNCHANGED lock
    BY <2>1 DEF CheckThrottle, Verify, ResetThrottle, RecordFailure
  <2>3. \A b \in Clients : HasLock(b) => HasLock(b)'
    <3>1. \E label \in {"verify", "reset", "add", "incr", "set", "commit"} :
             pc' = [pc EXCEPT ![c] = label]
      BY <2>1 DEF CheckThrottle, PassCheck, FailCheck, Verify, AfterVerify, ResetThrottle,
                  RecordFailure, Reset, Add, Incr, IncrRaises, SetOne, Goto
    <3> QED
      BY <1>1, <3>1 DEF HasLock, TypeOK
  <2>4. \A b \in Clients : HasLock(b) => Device(b)' = Device(b)
    <3>1. \A b \in Clients : HasLock(b) => call[b] \in Calls
      BY DEF Inv, CallsAreTyped, HasLock
    <3>2. call' = call \/ call' = [call EXCEPT ![c].code = Blank]
      BY <2>1 DEF CheckThrottle, Verify, ResetThrottle, RecordFailure
    <3>3. ASSUME NEW b \in Clients, HasLock(b) PROVE Device(b)' = Device(b)
      <4>1. call[b] \in Calls
        BY <3>1, <3>3
      <4>2. call'[b] = call[b] \/ call'[b] = [call[b] EXCEPT !.code = Blank]
        BY <1>1, <3>2 DEF TypeOK
      <4> QED
        BY <4>1, <4>2 DEF Device, Calls
    <3> QED
      BY <3>3
  <2> QED
    BY <1>1, <2>2, <2>3, <2>4, HoldersKeepWorking
<1>8. ASSUME NEW c \in Clients, Commit(c) \/ Abort(c) PROVE LockHoldersWork'
  <2>1. /\ lock' = [d \in Devices |-> IF lock[d] = c THEN NoOne ELSE lock[d]]
        /\ \A b \in Clients \ {c} : pc'[b] = pc[b] /\ call'[b] = call[b]
    BY <1>1, <1>8 DEF Commit, Abort, Return, Goto, TypeOK
  <2> QED
    BY <1>1, <2>1 DEF LockHoldersWork, HasLock, Device, TypeOK
<1>9. CASE Tick \/ UNCHANGED vars
  BY <1>2, <1>9 DEF Tick, vars
<1> QED
  BY <1>3, <1>4, <1>5, <1>6, <1>7, <1>8, <1>9 DEF Next, Work

\* Whoever holds the lock of a row is at work on it and waits for nobody, so calls
\* of the adapter never wait in a circle, whatever was rolled back before.
THEOREM HoldersAreAtWork == Spec => []LockHoldersWork
<1>1. Init => LockHoldersWork
  BY DEF Init, LockHoldersWork
<1> QED
  BY <1>1, LockHoldersStep, Invariance, PTL DEF Spec

\* Only a commit spends a step.
LEMMA OthersSpendNothing ==
    ASSUME Next, \A c \in Clients : ~Commit(c)
    PROVE  UNCHANGED uses
BY DEF Next, Work, tables, enroll_totp_device, Confirm, SetActive, Tick, CacheForget,
   Call, Lock, CheckThrottle, Verify, ResetThrottle, RecordFailure, Abort

\* Time steps are honoured in order, on any machines and under any interleaving.
THEOREM StepsInOrder == Spec => AcceptedInOrder
<1> DEFINE InOrder ==
      \A d \in Devices : \A t, u \in Timecodes :
          uses'[d][t] # uses[d][t] /\ uses[d][u] > 0 => u < t
<1>1. ASSUME Inv, NEW c \in Clients, Commit(c) PROVE InOrder
  <2>1. \A d \in Devices, u \in Timecodes : uses[d][u] > 0 => uses[d][u] = 1
    BY <1>1 DEF Inv, SpentUpToLast
  <2>2. CASE ~result[c].accepted
    BY <1>1, <2>2, CommitFacts
  <2>3. CASE result[c].accepted
    <3> DEFINE e == Device(c)
               m == result[c].matched
    <3>1. /\ e \in Devices /\ m \in Timecodes
          /\ \A u \in Timecodes : uses[e][u] = 1 => u < m
          /\ uses' = [uses EXCEPT ![e] = [uses[e] EXCEPT ![m] = 1]]
      BY <1>1, <2>3, CommitFacts DEF NearNow
    <3> HIDE DEF e, m
    <3>2. \A d \in Devices : \A t \in Timecodes :
             uses'[d][t] # uses[d][t] => d = e /\ t = m
      BY <3>1 DEF Inv, TypeOK
    <3> QED
      BY <2>1, <3>1, <3>2
  <2> QED
    BY <2>2, <2>3
<1>2. Inv /\ [Next]_vars => [InOrder]_vars
  BY <1>1, OthersSpendNothing
<1> QED
  BY <1>2, Invariance, PTL DEF Spec, AcceptedInOrder

\* The adapter implements one-time use: whatever the clocks, the interleaving, the
\* aborts and the codes, a time step of a device is honoured at most once.
THEOREM EachStepOnce == Spec => HonouredOnce
<1>1. Init => OneTime!Init
  BY DEF Init, OneTime!Init
<1>2. ASSUME Inv, NEW c \in Clients, Commit(c) PROVE OneTime!Next \/ UNCHANGED uses
  <2>1. CASE ~result[c].accepted
    BY <1>2, <2>1, CommitFacts
  <2>2. CASE result[c].accepted
    <3> DEFINE e == Device(c)
               m == result[c].matched
    <3>1. /\ e \in Devices /\ m \in Timecodes /\ uses[e][m] = 0
          /\ uses' = [uses EXCEPT ![e] = [uses[e] EXCEPT ![m] = 1]]
      BY <1>2, <2>2, CommitFacts DEF NearNow
    <3> HIDE DEF e, m
    <3>2. uses' = [uses EXCEPT ![e] =
                     [t \in Timecodes |-> IF t \in {m} THEN 1 ELSE uses[e][t]]]
      <4>1. uses[e] \in [Timecodes -> Nat]
        BY <1>2, <3>1 DEF Inv, TypeOK
      <4>2. [uses[e] EXCEPT ![m] = 1] =
               [t \in Timecodes |-> IF t \in {m} THEN 1 ELSE uses[e][t]]
        BY <4>1
      <4> QED
        BY <3>1, <4>2
    <3>3. OneTime!Use(e, {m})
      BY <3>1, <3>2 DEF OneTime!Use
    <3> QED
      BY <3>1, <3>3 DEF OneTime!Next
  <2> QED
    BY <2>1, <2>2
<1>3. Inv /\ [Next]_vars => [OneTime!Next]_uses
  BY <1>2, OthersSpendNothing DEF vars, tables
<1> QED
  BY <1>1, <1>3, Invariance, PTL DEF Spec, HonouredOnce, OneTime!Spec

(***************************************************************************)
(* The user, when no code comes again within a window and the clocks are   *)
(* no further apart than the window allows.                                *)
(***************************************************************************)
CodesDiffer ==
    \A d \in Devices : \A t \in Int :
        /\ CodeAt(d, t) # Blank
        /\ \A u \in (t - 2 * ValidWindow)..(t + 2 * ValidWindow) :
              CodeAt(d, u) = CodeAt(d, t) => u = t

\* The only hit of a search is what it finds.
LEMMA FirstOfOne ==
    ASSUME NEW t \in Int
    PROVE  FirstOf({t}) = t
BY DEF FirstOf, IsLeast

\* The present code is found as the present step on every machine.
LEMMA PresentIsFound ==
    ASSUME CodesDiffer, Skew <= ValidWindow, NEW d \in Devices, now \in Int,
           NEW at_time \in Readings
    PROVE  find_matching_timecode(d, CodeAt(d, now), at_time, ValidWindow) = now
<1> DEFINE hits == {t \in Steps(at_time, ValidWindow) : CodeAt(d, t) = CodeAt(d, now)}
<1>1. ValidWindow \in Nat /\ Skew \in Nat
  BY RangesFit
<1>2. at_time \in (now - Skew)..(now + Skew)
  BY DEF Readings
<1>3. now \in Steps(at_time, ValidWindow)
  BY <1>1, <1>2 DEF Steps
<1>4. \A t \in Steps(at_time, ValidWindow) :
         t \in (now - 2 * ValidWindow)..(now + 2 * ValidWindow)
  BY <1>1, <1>2 DEF Steps
<1>5. hits = {now}
  BY <1>3, <1>4 DEF CodesDiffer
<1> QED
  BY <1>5, FirstOfOne DEF find_matching_timecode

\* A step stored by a machine that is ahead is near the present, and once it is past
\* the present code is accepted, whichever machine is asked.
THEOREM UserGetsIn ==
    ASSUME CodesDiffer, Skew <= ValidWindow
    PROVE  Spec => []UserIsNotShutOut
<1>1. Inv => UserIsNotShutOut
  <2> SUFFICES ASSUME Inv, NEW d \in Devices, NEW last, last = last_accepted_timecode[d]
               PROVE  /\ last # None => last <= now + Skew + ValidWindow
                      /\ last = None \/ last < now =>
                            \A at_time \in Readings :
                                verify_totp(d, CodeAt(d, now), at_time, ValidWindow, last).accepted
    BY DEF UserIsNotShutOut
  <2>1. now \in Int
    BY RangesFit DEF Inv, TypeOK
  <2>2. last # None => NearNow(last) /\ last \in Int
    BY RangesFit DEF Inv, SpentUpToLast, NearNow, Timecodes
  <2>3. ASSUME last = None \/ last < now, NEW at_time \in Readings
        PROVE  verify_totp(d, CodeAt(d, now), at_time, ValidWindow, last).accepted
    <3>1. find_matching_timecode(d, CodeAt(d, now), at_time, ValidWindow) = now
      BY <2>1, PresentIsFound
    <3>2. now # None /\ CodeAt(d, now) # Blank
      BY <2>1, NoneAssumption DEF CodesDiffer
    <3>3. ~IsReplay(now, last)
      BY <2>1, <2>2, <2>3 DEF IsReplay
    <3> QED
      BY <3>1, <3>2, <3>3 DEF verify_totp, TOTPResult
  <2> QED
    BY <2>2, <2>3 DEF NearNow
<1> QED
  BY <1>1, Invariance, PTL
=============================================================================
