-------------------------- MODULE HOTPDeviceProofs --------------------------
(***************************************************************************)
(* Proofs about HOTPDevice, for every value of its constants.              *)
(***************************************************************************)
EXTENDS HOTPDevice, TLAPS

(***************************************************************************)
(* The services: their results fit the counter and the window they are     *)
(* given, whatever the codes are.                                          *)
(***************************************************************************)
\* A search returns a hit or nothing.
LEMMA FirstOfIsHit ==
    ASSUME NEW S
    PROVE  FirstOf(S) \in S \cup {None}
BY DEF FirstOf, IsLeast

LEMMA FindCounterInRange ==
    ASSUME NEW secret, NEW code, NEW start \in Int, NEW end \in Int
    PROVE  find_matching_counter(secret, code, start, end) \in (start..end) \cup {None}
BY FirstOfIsHit DEF find_matching_counter

LEMMA FindSequenceInRange ==
    ASSUME NEW secret, NEW codes, Len(codes) \in Nat, NEW start \in Int, NEW end \in Int
    PROVE  find_matching_sequence(secret, codes, start, end)
              \in (start..(end - Len(codes) + 1)) \cup {None}
BY FirstOfIsHit DEF find_matching_sequence, LastStart

LEMMA ReplayStartIsNat ==
    ASSUME NEW server \in Nat, NEW replay_window \in Nat
    PROVE  ReplayStart(server, replay_window) \in Nat
BY DEF ReplayStart

LEMMA AcceptedFits ==
    ASSUME NEW class \in {"success", "counter_window_match", "resync_success"},
           NEW server \in Nat, NEW width \in Nat, NEW matched \in Nat, NEW next \in Nat,
           server <= matched, matched < next, next <= server + width + 1
    PROVE  ResultFits(Accepted(class, server, matched, next), server, width)
BY DEF ResultFits, Results, Accepted

LEMMA RejectedFits ==
    ASSUME NEW class \in {"replay", "excessive_drift", "invalid", "throttled"},
           NEW server \in Nat, NEW width \in Nat, NEW matched \in Nat \cup {None}
    PROVE  ResultFits(Rejected(class, server, matched), server, width)
BY DEF ResultFits, Results, Rejected

LEMMA VerifyFits ==
    ASSUME NEW secret, NEW code, NEW server \in Nat,
           NEW look_ahead \in Nat, NEW replay_window \in Nat
    PROVE  ResultFits(verify_hotp(secret, code, server, look_ahead, replay_window),
                      server, look_ahead)
<1> DEFINE ahead == find_matching_counter(secret, code, server, server + look_ahead)
           spent == find_matching_counter(
                        secret, code, ReplayStart(server, replay_window), server - 1)
<1>1. ahead \in (server..(server + look_ahead)) \cup {None}
  BY FindCounterInRange
<1>2. spent \in Nat \cup {None}
  BY FindCounterInRange, ReplayStartIsNat
<1>3. None \notin Nat
  BY NoneAssumption
<1>4. ahead # None => ResultFits(Accepted("success", server, ahead, ahead + 1), server, look_ahead)
  BY <1>1, AcceptedFits
<1>5. ahead # None => ResultFits(Accepted("counter_window_match", server, ahead, ahead + 1),
                                 server, look_ahead)
  BY <1>1, AcceptedFits
<1>6. /\ ResultFits(Rejected("invalid", server, None), server, look_ahead)
      /\ ResultFits(Rejected("replay", server, spent), server, look_ahead)
  BY <1>2, RejectedFits
<1> QED
  BY <1>3, <1>4, <1>5, <1>6 DEF verify_hotp

LEMMA ResyncFits ==
    ASSUME NEW secret, NEW codes, Len(codes) \in Nat, Len(codes) >= 2,
           NEW server \in Nat, NEW search_window \in Nat, NEW replay_window \in Nat
    PROVE  ResultFits(resync_hotp(secret, codes, server, search_window, replay_window),
                      server, search_window)
<1> DEFINE end   == server + search_window
           ahead == find_matching_sequence(secret, codes, server, end)
           spent == find_matching_sequence(
                        secret, codes, ReplayStart(server, replay_window), server - 1)
           first == find_matching_counter(secret, codes[1], server, end)
<1>1. ahead \in (server..(end - Len(codes) + 1)) \cup {None}
  BY FindSequenceInRange
<1>2. spent \in Nat \cup {None}
  <2>1. ReplayStart(server, replay_window) \in Nat
    BY ReplayStartIsNat
  <2>2. spent \in (ReplayStart(server, replay_window)..(server - 1 - Len(codes) + 1)) \cup {None}
    BY <2>1, FindSequenceInRange
  <2> QED
    BY <2>1, <2>2
<1>3. first \in Nat \cup {None}
  BY FindCounterInRange
<1>4. ahead # None => ResultFits(Accepted("resync_success", server, ahead, ahead + Len(codes)),
                                 server, search_window)
  BY <1>1, AcceptedFits
<1>5. /\ ResultFits(Rejected("invalid", server, None), server, search_window)
      /\ ResultFits(Rejected("replay", server, spent), server, search_window)
      /\ ResultFits(Rejected("excessive_drift", server, None), server, search_window)
      /\ ResultFits(Rejected("invalid", server, first), server, search_window)
  BY <1>2, <1>3, RejectedFits
<1> QED
  BY <1>4, <1>5 DEF resync_hotp

\* A result that fits a window fits a wider one.
LEMMA WiderFits ==
    ASSUME NEW res, NEW server \in Nat, NEW width \in Nat, NEW wider \in Nat,
           width <= wider, ResultFits(res, server, width)
    PROVE  ResultFits(res, server, wider)
BY DEF ResultFits, Results

LEMMA WidestSearchIsWidest ==
    /\ WidestSearch \in Nat
    /\ LookAhead <= WidestSearch
    /\ SearchWindow <= WidestSearch
BY WindowsAssumption DEF WidestSearch

LEMMA ServiceResultFits ==
    ASSUME NEW c, NEW server \in Nat, call[c] \in Calls, ~ServiceRaises(c)
    PROVE  ResultFits(ServiceResult(c, server), server, WidestSearch)
<1>1. call[c].kind \in {"verify", "resync"} /\ call[c].codes \in Seq(Codes)
  BY DEF Calls
<1>2. CASE call[c].kind = "verify"
  <2>1. ResultFits(verify_hotp(Device(c), call[c].codes[1], server, LookAhead, ReplayWindow),
                   server, LookAhead)
    BY VerifyFits, WindowsAssumption
  <2> QED
    BY <1>2, <2>1, WiderFits, WidestSearchIsWidest, WindowsAssumption DEF ServiceResult
<1>3. CASE call[c].kind = "resync"
  <2>1. Len(call[c].codes) \in Nat /\ Len(call[c].codes) >= 2
    BY <1>1, <1>3 DEF ServiceRaises, EnoughCodes
  <2>2. ResultFits(resync_hotp(Device(c), call[c].codes, server, SearchWindow, ReplayWindow),
                   server, SearchWindow)
    BY <2>1, ResyncFits, WindowsAssumption
  <2>3. ServiceResult(c, server)
          = resync_hotp(Device(c), call[c].codes, server, SearchWindow, ReplayWindow)
    BY <1>3 DEF ServiceResult
  <2> QED
    BY <2>2, <2>3, WiderFits, WidestSearchIsWidest, WindowsAssumption
<1> QED
  BY <1>1, <1>2, <1>3

\* The answer to a call on an inactive device is a rejection.
LEMMA BlankResultFits ==
    ASSUME NEW c, NEW server \in Nat
    PROVE  /\ ResultFits(BlankResult(c, server), server, WidestSearch)
           /\ BlankResult(c, server).next = server
<1>1. verify_hotp(Device(c), Blank, server, LookAhead, ReplayWindow)
        = Rejected("invalid", server, None)
  BY DEF verify_hotp
<1>2. resync_hotp(Device(c), <<Blank, Blank>>, server, SearchWindow, ReplayWindow)
        = Rejected("invalid", server, None)
  <2>1. Len(<<Blank, Blank>>) = 2 /\ <<Blank, Blank>>[1] = Blank
    OBVIOUS
  <2>2. \E i \in 1..Len(<<Blank, Blank>>) : <<Blank, Blank>>[i] = Blank
    BY <2>1
  <2> QED
    BY <2>2 DEF resync_hotp
<1>3. BlankResult(c, server) = Rejected("invalid", server, None)
  BY <1>1, <1>2 DEF BlankResult
<1>4. ResultFits(Rejected("invalid", server, None), server, WidestSearch)
  BY RejectedFits, WidestSearchIsWidest
<1> QED
  BY <1>3, <1>4 DEF Rejected

(***************************************************************************)
(* The invariant.                                                          *)
(***************************************************************************)
LEMMA InitInv == Init => Inv
<1> SUFFICES ASSUME Init PROVE Inv
  OBVIOUS
<1> USE DEF Init
<1>1. TypeOK
  BY CountersAssumption DEF TypeOK, Counters
<1>2. CallsAreOnRows /\ RowIsCurrent /\ ResultsFit
  BY DEF CallsAreOnRows, RowIsCurrent, ResultsFit, HasLock
<1>3. SpentIsBelowCounter /\ AuditIsOrdered /\ AuditIsOfRows
  BY DEF SpentIsBelowCounter, AuditIsOrdered, AuditIsOfRows
<1> QED
  BY <1>1, <1>2, <1>3 DEF Inv

LEMMA EnrollInv ==
    ASSUME Inv, NEW d \in Devices, enroll_hotp_device(d)
    PROVE  Inv'
<1> USE DEF Inv, enroll_hotp_device, enroll_hotp
<1>1. TypeOK'
  <2>1. InitialCounters \subseteq 0..(MaxCounter + 1)
    BY CountersAssumption
  <2>2. hotp_counter' \in [Devices -> Counters] /\ token' \in [Devices -> 0..(MaxCounter + 1)]
    BY <2>1, CountersAssumption DEF TypeOK, Counters
  <2>3. is_active' \in [Devices -> BOOLEAN] /\ confirmed' \in [Devices -> BOOLEAN]
    BY DEF TypeOK
  <2> QED
    BY <2>2, <2>3 DEF TypeOK
<1>2. CallsAreOnRows'
  BY DEF CallsAreOnRows, Device
<1>3. RowIsCurrent'
  BY DEF RowIsCurrent, CallsAreOnRows, HasLock, Device, TypeOK
<1>4. ResultsFit'
  BY DEF ResultsFit
<1>5. SpentIsBelowCounter'
  BY DEF SpentIsBelowCounter, TypeOK
<1>6. AuditIsOrdered' /\ AuditIsOfRows'
  BY DEF AuditIsOrdered, AuditIsOfRows, TypeOK
<1> QED
  BY <1>1, <1>2, <1>3, <1>4, <1>5, <1>6

\* The application's updates of a row, and the user's token, leave the calls and
\* what they rely on alone.
LEMMA RowUpdateInv ==
    ASSUME Inv, NEW d \in Devices, Confirm(d) \/ SetActive(d) \/ PressToken(d)
    PROVE  Inv'
<1> USE DEF Inv, Confirm, SetActive, PressToken, tables
<1>1. TypeOK'
  <2>1. CASE Confirm(d) \/ SetActive(d)
    BY <2>1 DEF TypeOK
  <2>2. CASE PressToken(d)
    BY <2>2, CountersAssumption DEF TypeOK
  <2> QED
    BY <2>1, <2>2
<1>2. CallsAreOnRows'
  BY DEF CallsAreOnRows, Device
<1>3. RowIsCurrent'
  BY DEF RowIsCurrent, HasLock, Device
<1>4. ResultsFit'
  BY DEF ResultsFit
<1>5. SpentIsBelowCounter'
  BY DEF SpentIsBelowCounter
<1>6. AuditIsOrdered' /\ AuditIsOfRows'
  BY DEF AuditIsOrdered, AuditIsOfRows
<1> QED
  BY <1>1, <1>2, <1>3, <1>4, <1>5, <1>6

LEMMA CacheForgetInv ==
    ASSUME Inv, NEW s \in Scopes, CacheForget(s)
    PROVE  Inv'
<1> USE DEF Inv, CacheForget, Forget, Forgotten, tables
<1>1. TypeOK'
  BY DEF TypeOK
<1>2. CallsAreOnRows' /\ RowIsCurrent' /\ ResultsFit'
  BY DEF CallsAreOnRows, RowIsCurrent, ResultsFit, HasLock, Device
<1>3. SpentIsBelowCounter' /\ AuditIsOrdered' /\ AuditIsOfRows'
  BY DEF SpentIsBelowCounter, AuditIsOrdered, AuditIsOfRows
<1> QED
  BY <1>1, <1>2, <1>3

\* A call begins with the arguments of its type and holds nothing yet.
LEMMA CallInv ==
    ASSUME Inv, NEW c \in Clients, NEW kind \in Kinds, NEW d \in Devices, Call(c, kind, d)
    PROVE  Inv'
<1> USE DEF Inv, Call, Goto, tables
<1>1. PICK codes \in SubmittedCodes(d, kind), s \in ScopesOf[d], a \in AuditModes :
         call' = [call EXCEPT ![c] = [kind |-> kind, device |-> d, codes |-> codes,
                                      scope |-> s, audited |-> a]]
  OBVIOUS
<1>2. codes \in Seq(Codes)
  <2>1. token[d] - 1 <= MaxCounter /\ token[d] \in Nat
    BY CountersAssumption DEF TypeOK
  <2>2. Submissions(d) \subseteq Codes
    BY <2>1, CountersAssumption DEF Submissions, Shown, Codes, Counters
  <2>3. Junk \in Codes
    BY DEF Codes
  <2>4. \A x, y \in Codes : <<x>> \in Seq(Codes) /\ <<x, y>> \in Seq(Codes)
    OBVIOUS
  <2>5. \/ \E x \in Submissions(d) : codes = <<x>>
        \/ codes = <<Junk>>
        \/ \E x, y \in Submissions(d) : codes = <<x, y>>
    BY DEF SubmittedCodes
  <2> QED
    BY <2>2, <2>3, <2>4, <2>5
<1>3. [kind |-> kind, device |-> d, codes |-> codes, scope |-> s, audited |-> a] \in Calls
  BY <1>2, InputsAssumption, ScopesAssumption DEF Calls
<1>4. TypeOK'
  BY <1>1, <1>3 DEF TypeOK
<1>5. CallsAreOnRows'
  BY <1>1, <1>3 DEF CallsAreOnRows, Device, TypeOK
<1>6. RowIsCurrent'
  BY <1>1 DEF RowIsCurrent, HasLock, Device, TypeOK
<1>7. ResultsFit'
  BY DEF ResultsFit, TypeOK
<1>8. SpentIsBelowCounter' /\ AuditIsOrdered' /\ AuditIsOfRows'
  BY DEF SpentIsBelowCounter, AuditIsOrdered, AuditIsOfRows
<1> QED
  BY <1>4, <1>5, <1>6, <1>7, <1>8

\* The client that gets the lock is the only one that has it, and reads the row
\* as it stands.
LEMMA LockInv ==
    ASSUME Inv, NEW c \in Clients, Lock(c)
    PROVE  Inv'
<1> DEFINE d == Device(c)
<1> USE DEF Inv, Lock, Goto, tables
<1>1. /\ call[c] \in Calls /\ d \in Devices /\ d \in enrolled
      /\ hotp_counter[d] \in Nat /\ hotp_counter[d] <= MaxCounter
  BY CountersAssumption DEF CallsAreOnRows, Device, Calls, TypeOK, Counters
<1>2. /\ ResultFits(BlankResult(c, hotp_counter[d]), hotp_counter[d], WidestSearch)
      /\ BlankResult(c, hotp_counter[d]).next <= MaxCounter
  BY <1>1, BlankResultFits
<1>3. \A b \in Clients : HasLock(b) => Device(b) # d
  BY <1>1, ClientsAssumption DEF RowIsCurrent, LockFree
<1>4. TypeOK'
  BY <1>1, <1>2 DEF TypeOK, ResultFits
<1>5. CallsAreOnRows'
  BY DEF CallsAreOnRows, Device, TypeOK
<1>6. RowIsCurrent'
  BY <1>1, <1>3 DEF RowIsCurrent, HasLock, Device, TypeOK
<1>7. ResultsFit'
  BY <1>1, <1>2 DEF ResultsFit, CounterFits, TypeOK
<1>8. SpentIsBelowCounter' /\ AuditIsOrdered' /\ AuditIsOfRows'
  BY DEF SpentIsBelowCounter, AuditIsOrdered, AuditIsOfRows
<1> QED
  BY <1>4, <1>5, <1>6, <1>7, <1>8

LEMMA CheckThrottleInv ==
    ASSUME Inv, NEW c \in Clients, CheckThrottle(c)
    PROVE  Inv'
<1> USE DEF Inv, CheckThrottle, ThrottledResult, PassCheck, FailCheck, Goto, tables
<1>1. /\ call[c] \in Calls /\ Device(c) \in Devices /\ HasLock(c)
      /\ row[c] \in Nat /\ row[c] <= MaxCounter
  BY CountersAssumption
     DEF CallsAreOnRows, RowIsCurrent, HasLock, Device, Calls, TypeOK, Counters
<1>2. ResultFits(Rejected("throttled", row[c], None), row[c], WidestSearch)
  BY <1>1, RejectedFits, WidestSearchIsWidest
<1>3. Rejected("throttled", row[c], None).next = row[c]
  BY DEF Rejected
<1>4. TypeOK'
  BY <1>2 DEF TypeOK, ResultFits
<1>5. CallsAreOnRows'
  BY DEF CallsAreOnRows, Device, TypeOK
<1>6. RowIsCurrent'
  BY <1>1 DEF RowIsCurrent, HasLock, Device, TypeOK
<1>7. ResultsFit'
  BY <1>1, <1>2, <1>3 DEF ResultsFit, CounterFits, TypeOK
<1>8. SpentIsBelowCounter' /\ AuditIsOrdered' /\ AuditIsOfRows'
  BY DEF SpentIsBelowCounter, AuditIsOrdered, AuditIsOfRows
<1> QED
  BY <1>4, <1>5, <1>6, <1>7, <1>8

LEMMA VerifyInv ==
    ASSUME Inv, NEW c \in Clients, Verify(c)
    PROVE  Inv'
<1> DEFINE res == ServiceResult(c, row[c])
<1> USE DEF Inv, tables
<1>0. /\ pc[c] = "verify" /\ ~ServiceRaises(c) /\ CounterFits(res.next)
      /\ result' = [result EXCEPT ![c] = res]
      /\ call' = [call EXCEPT ![c].codes = <<>>]
      /\ UNCHANGED <<tables, lock, cache, row, token>>
      /\ \E label \in {"commit", "reset", "add"} : pc' = [pc EXCEPT ![c] = label]
  BY DEF Verify, AfterVerify, Goto
<1>1. /\ call[c] \in Calls /\ Device(c) \in Devices /\ HasLock(c) /\ row[c] \in Nat
  <2>1. HasLock(c) /\ pc[c] # "idle"
    BY <1>0 DEF HasLock
  <2>2. call[c] \in Calls /\ Device(c) \in Devices
    BY <2>1 DEF CallsAreOnRows, Device, Calls
  <2>3. row[c] = hotp_counter[Device(c)] /\ hotp_counter \in [Devices -> 0..MaxCounter]
    BY <2>1 DEF RowIsCurrent, TypeOK, Counters
  <2> QED
    BY <2>1, <2>2, <2>3, CountersAssumption
<1>2. ResultFits(res, row[c], WidestSearch) /\ CounterFits(res.next)
  BY <1>0, <1>1, ServiceResultFits
<1>3. /\ call'[c] \in Calls /\ call'[c].device = call[c].device
      /\ \A b \in Clients \ {c} : call'[b] = call[b]
  <2>1. call'[c] = [call[c] EXCEPT !.codes = <<>>]
    BY <1>0 DEF TypeOK
  <2>2. <<>> \in Seq(Codes)
    OBVIOUS
  <2>3. call'[c] \in Calls /\ call'[c].device = call[c].device
    BY <1>1, <2>1, <2>2 DEF Calls
  <2> QED
    BY <1>0, <2>3 DEF TypeOK
<1>4. TypeOK'
  <2>1. result' \in [Clients -> Results \cup {None}]
    BY <1>0, <1>2 DEF TypeOK, ResultFits
  <2>2. call' \in [Clients -> Calls \cup {NoCall}]
    BY <1>0, <1>3 DEF TypeOK
  <2>3. pc' \in [Clients -> {"idle", "lock", "throttle", "verify", "reset", "add",
                             "incr", "set", "commit"}]
    BY <1>0 DEF TypeOK
  <2> QED
    BY <1>0, <2>1, <2>2, <2>3 DEF TypeOK
<1>5. CallsAreOnRows'
  BY <1>0, <1>1, <1>3 DEF CallsAreOnRows, Device, TypeOK
<1>6. RowIsCurrent'
  BY <1>0, <1>1, <1>3 DEF RowIsCurrent, HasLock, Device, TypeOK
<1>7. ResultsFit'
  BY <1>0, <1>2 DEF ResultsFit, TypeOK
<1>8. SpentIsBelowCounter' /\ AuditIsOrdered' /\ AuditIsOfRows'
  BY <1>0 DEF SpentIsBelowCounter, AuditIsOrdered, AuditIsOfRows
<1> QED
  BY <1>4, <1>5, <1>6, <1>7, <1>8

\* What is done to the cache touches nothing else the invariant speaks of.
LEMMA ThrottleInv ==
    ASSUME Inv, NEW c \in Clients, ResetThrottle(c) \/ RecordFailure(c)
    PROVE  Inv'
<1> USE DEF Inv, tables
<1>1. /\ UNCHANGED <<tables, lock, call, result, row, token>>
      /\ \E label \in {"incr", "set", "commit"} : pc' = [pc EXCEPT ![c] = label]
      /\ pc[c] \in {"reset", "add", "incr", "set"}
  BY DEF ResetThrottle, RecordFailure, Reset, Add, Incr, IncrRaises, SetOne, Goto
<1>2. cache' \in [Scopes -> Nat \cup {NoEntry}]
  <2> DEFINE s == Scope(c)
  <2>1. \/ cache' = cache
        \/ cache' = [cache EXCEPT ![s] = NoEntry]
        \/ cache' = [cache EXCEPT ![s] = 0]
        \/ cache' = [cache EXCEPT ![s] = 1]
        \/ cache[s] # NoEntry /\ cache' = [cache EXCEPT ![s] = @ + 1]
    BY DEF ResetThrottle, RecordFailure, Reset, Forgotten, Add, Added, Incr, IncrRaises, SetOne
  <2>2. cache \in [Scopes -> Nat \cup {NoEntry}]
    BY DEF TypeOK
  <2> QED
    BY <2>1, <2>2
<1>3. TypeOK'
  BY <1>1, <1>2 DEF TypeOK
<1>4. CallsAreOnRows'
  BY <1>1 DEF CallsAreOnRows, Device, TypeOK
<1>5. RowIsCurrent'
  BY <1>1 DEF RowIsCurrent, HasLock, Device, TypeOK
<1>6. ResultsFit'
  BY <1>1 DEF ResultsFit, TypeOK
<1>7. SpentIsBelowCounter' /\ AuditIsOrdered' /\ AuditIsOfRows'
  BY <1>1 DEF SpentIsBelowCounter, AuditIsOrdered, AuditIsOfRows
<1> QED
  BY <1>3, <1>4, <1>5, <1>6, <1>7

LEMMA AbortInv ==
    ASSUME Inv, NEW c \in Clients, Abort(c)
    PROVE  Inv'
<1> USE DEF Inv, Abort, Release, Return, Goto, tables
<1>1. TypeOK'
  BY DEF TypeOK
<1>2. CallsAreOnRows'
  BY DEF CallsAreOnRows, Device, TypeOK
<1>3. RowIsCurrent'
  BY DEF RowIsCurrent, CallsAreOnRows, HasLock, Device, Calls, TypeOK
<1>4. ResultsFit'
  BY DEF ResultsFit, TypeOK
<1>5. SpentIsBelowCounter' /\ AuditIsOrdered' /\ AuditIsOfRows'
  BY DEF SpentIsBelowCounter, AuditIsOrdered, AuditIsOfRows
<1> QED
  BY <1>1, <1>2, <1>3, <1>4, <1>5

\* What a commit does, the row being locked and current: an accepted result moves
\* the counter of the row past every counter it spends, and those are at or above
\* the counter the row still has.
LEMMA CommitFacts ==
    ASSUME Inv, NEW c \in Clients, Commit(c)
    PROVE  LET d == Device(c)  res == result[c] IN
           /\ d \in Devices /\ d \in enrolled /\ lock[d] = c
           /\ \A b \in Clients : HasLock(b) /\ b # c => Device(b) # d
           /\ hotp_counter[d] \in Nat
           /\ res \in Results /\ res.server = hotp_counter[d] /\ res.next \in Counters
           /\ \/ /\ res.accepted
                 /\ res.matched \in Nat /\ hotp_counter[d] <= res.matched
                 /\ res.matched < res.next
                 /\ res.next <= hotp_counter[d] + WidestSearch + 1
                 /\ hotp_counter' = [hotp_counter EXCEPT ![d] = res.next]
                 /\ uses' = [uses EXCEPT ![d] =
                       [n \in Counters |-> uses[d][n] + (IF n \in Spent(res) THEN 1 ELSE 0)]]
              \/ /\ ~res.accepted
                 /\ res.next = hotp_counter[d]
                 /\ UNCHANGED <<hotp_counter, uses>>
           /\ audit' = IF call[c].audited THEN [audit EXCEPT ![d] = Append(@, res)] ELSE audit
<1> DEFINE d == Device(c)
           res == result[c]
<1> USE DEF Inv
<1>1. pc[c] = "commit" /\ pc[c] # "idle" /\ HasLock(c)
  BY DEF Commit, HasLock
<1>2. d \in Devices /\ d \in enrolled
  BY <1>1 DEF CallsAreOnRows, Device, Calls
<1>3. lock[d] = c /\ row[c] = hotp_counter[d] /\ hotp_counter[d] \in Nat
  <2>1. lock[d] = c /\ row[c] = hotp_counter[d] /\ hotp_counter \in [Devices -> 0..MaxCounter]
    BY <1>1 DEF RowIsCurrent, TypeOK, Counters
  <2> QED
    BY <1>2, <2>1, CountersAssumption
<1>4. \A b \in Clients : HasLock(b) /\ b # c => Device(b) # d
  BY <1>3 DEF RowIsCurrent
<1>5. ResultFits(res, hotp_counter[d], WidestSearch) /\ res.next <= MaxCounter
  BY <1>1, <1>3 DEF ResultsFit, CounterFits
<1>6. /\ res \in Results /\ res.next \in Nat /\ res.server = hotp_counter[d]
      /\ res.accepted => /\ res.matched \in Nat /\ hotp_counter[d] <= res.matched
                         /\ res.matched < res.next
                         /\ res.next <= hotp_counter[d] + WidestSearch + 1
      /\ ~res.accepted => res.next = hotp_counter[d]
  BY <1>3, <1>5 DEF ResultFits, Results
<1>7. res.next \in Counters
  BY <1>5, <1>6, CountersAssumption DEF Counters
<1>8. /\ IF res.accepted
           THEN /\ hotp_counter' = [hotp_counter EXCEPT ![d] = res.next]
                /\ uses' = [uses EXCEPT ![d] =
                     [n \in Counters |-> uses[d][n] + (IF n \in Spent(res) THEN 1 ELSE 0)]]
           ELSE UNCHANGED <<hotp_counter, uses>>
      /\ audit' = IF call[c].audited THEN [audit EXCEPT ![d] = Append(@, res)] ELSE audit
  BY DEF Commit, create_audit_event
<1> QED
  BY <1>2, <1>3, <1>4, <1>6, <1>7, <1>8

LEMMA CommitInv ==
    ASSUME Inv, NEW c \in Clients, Commit(c)
    PROVE  Inv'
<1> DEFINE d == Device(c)
           res == result[c]
<1> USE DEF Inv
<1>0. /\ lock' = [e \in Devices |-> IF lock[e] = c THEN NoOne ELSE lock[e]]
      /\ pc' = [pc EXCEPT ![c] = "idle"]
      /\ call' = [call EXCEPT ![c] = NoCall]
      /\ result' = [result EXCEPT ![c] = None]
      /\ row' = [row EXCEPT ![c] = None]
      /\ UNCHANGED <<enrolled, is_active, confirmed, cache, token>>
  BY DEF Commit, Release, Return, Goto
<1>1. /\ d \in Devices /\ d \in enrolled /\ lock[d] = c
      /\ \A b \in Clients : HasLock(b) /\ b # c => Device(b) # d
  BY CommitFacts
<1>2. /\ hotp_counter[d] \in Nat /\ res.next \in Nat /\ res.next \in Counters
      /\ hotp_counter[d] <= res.next
      /\ res \in Results /\ res.server = hotp_counter[d]
  BY CommitFacts DEF Results
<1>3. \/ /\ res.accepted
         /\ res.matched \in Nat /\ hotp_counter[d] <= res.matched /\ res.matched < res.next
         /\ hotp_counter' = [hotp_counter EXCEPT ![d] = res.next]
         /\ uses' = [uses EXCEPT ![d] =
               [n \in Counters |-> uses[d][n] + (IF n \in Spent(res) THEN 1 ELSE 0)]]
      \/ /\ ~res.accepted
         /\ res.next = hotp_counter[d]
         /\ UNCHANGED <<hotp_counter, uses>>
  BY CommitFacts
<1>4. audit' = IF call[c].audited THEN [audit EXCEPT ![d] = Append(@, res)] ELSE audit
  BY CommitFacts
<1>5. TypeOK'
  <2>1. hotp_counter' \in [Devices -> Counters]
    <3>1. hotp_counter \in [Devices -> Counters]
      BY DEF TypeOK
    <3> QED
      BY <1>2, <1>3, <3>1
  <2>2. uses' \in [Devices -> [Counters -> Nat]]
    <3>1. uses \in [Devices -> [Counters -> Nat]]
      BY DEF TypeOK
    <3>2. [n \in Counters |-> uses[d][n] + (IF n \in Spent(res) THEN 1 ELSE 0)]
            \in [Counters -> Nat]
      <4>1. \A n \in Counters : uses[d][n] \in Nat
        BY <1>1, <3>1
      <4> QED
        BY <4>1
    <3> QED
      BY <1>3, <3>1, <3>2
  <2>3. audit' \in [Devices -> Seq(Results)]
    BY <1>1, <1>2, <1>4 DEF TypeOK
  <2> QED
    BY <1>0, <2>1, <2>2, <2>3 DEF TypeOK
<1>6. CallsAreOnRows'
  BY <1>0 DEF CallsAreOnRows, Device, TypeOK
<1>7. RowIsCurrent'
  BY <1>0, <1>1, <1>3 DEF RowIsCurrent, CallsAreOnRows, HasLock, Device, Calls, TypeOK
<1>8. ResultsFit'
  BY <1>0 DEF ResultsFit, TypeOK
<1>9. SpentIsBelowCounter'
  <2> SUFFICES ASSUME NEW e \in Devices, NEW n \in Counters
               PROVE  /\ uses'[e][n] \in {0, 1}
                      /\ uses'[e][n] = 1 => e \in enrolled' /\ n < hotp_counter'[e]
    BY DEF SpentIsBelowCounter
  <2>1. /\ uses[e][n] \in {0, 1}
        /\ uses[e][n] = 1 => e \in enrolled /\ n < hotp_counter[e]
    BY DEF SpentIsBelowCounter
  <2>2. CASE res.accepted /\ e = d
    <3>1. /\ hotp_counter'[e] = res.next
          /\ uses'[e][n] = uses[d][n] + (IF n \in Spent(res) THEN 1 ELSE 0)
      BY <1>1, <1>3, <2>2 DEF TypeOK
    <3>2. n \in Int
      BY CountersAssumption DEF Counters
    <3>3. n \in Spent(res) => hotp_counter[d] <= n /\ n < res.next
      BY <1>2, <1>3, <2>2, <3>2 DEF Spent
    <3>4. CASE n \in Spent(res)
      BY <1>0, <1>1, <1>2, <2>1, <2>2, <3>1, <3>2, <3>3, <3>4
    <3>5. CASE n \notin Spent(res)
      BY <1>0, <1>1, <1>2, <2>1, <2>2, <3>1, <3>2, <3>5
    <3> QED
      BY <3>4, <3>5
  <2>3. CASE ~(res.accepted /\ e = d)
    BY <1>0, <1>1, <1>3, <2>1, <2>3 DEF TypeOK
  <2> QED
    BY <2>2, <2>3
<1>10. AuditIsOrdered'
  <2> SUFFICES ASSUME NEW e \in Devices
               PROVE  /\ \A j \in 1..Len(audit'[e]) : audit'[e][j].next <= hotp_counter'[e]
                      /\ \A i, j \in 1..Len(audit'[e]) :
                            i < j => audit'[e][i].next <= audit'[e][j].server
    BY DEF AuditIsOrdered
  <2>1. /\ \A j \in 1..Len(audit[e]) : audit[e][j].next <= hotp_counter[e]
        /\ \A i, j \in 1..Len(audit[e]) : i < j => audit[e][i].next <= audit[e][j].server
        /\ audit[e] \in Seq(Results)
    BY DEF AuditIsOrdered, TypeOK
  <2>2. \A j \in 1..Len(audit[e]) : audit[e][j].next \in Nat
    <3>1. \A j \in 1..Len(audit[e]) : audit[e][j] \in Results
      BY <2>1
    <3> QED
      BY <3>1 DEF Results
  <2>3. CASE e # d
    BY <1>1, <1>3, <1>4, <2>1, <2>3 DEF TypeOK
  <2>4. CASE e = d /\ ~call[c].audited
    <3>1. audit'[e] = audit[e] /\ hotp_counter'[e] = res.next
      BY <1>1, <1>3, <1>4, <2>4 DEF TypeOK
    <3> QED
      BY <1>1, <1>2, <2>1, <2>2, <2>4, <3>1
  <2>5. CASE e = d /\ call[c].audited
    <3>1. audit'[e] = Append(audit[e], res) /\ hotp_counter'[e] = res.next
      BY <1>1, <1>3, <1>4, <2>5 DEF TypeOK
    <3>2. /\ Len(audit'[e]) = Len(audit[e]) + 1 /\ Len(audit[e]) \in Nat
          /\ audit'[e][Len(audit[e]) + 1] = res
          /\ \A j \in 1..Len(audit[e]) : audit'[e][j] = audit[e][j]
      BY <1>2, <2>1, <3>1
    <3>3. hotp_counter[e] <= res.next /\ hotp_counter[e] = res.server
          /\ hotp_counter[e] \in Nat /\ res.next \in Nat
      BY <1>2, <2>5
    <3>4. \A j \in 1..Len(audit[e]) : audit[e][j].next <= res.next
                                     /\ audit[e][j].next <= res.server
      BY <2>1, <2>2, <3>3
    <3>5. \A j \in 1..Len(audit'[e]) : j \in 1..Len(audit[e]) \/ j = Len(audit[e]) + 1
      BY <3>2
    <3>6. \A j \in 1..Len(audit'[e]) : audit'[e][j].next <= hotp_counter'[e]
      BY <3>1, <3>2, <3>3, <3>4, <3>5
    <3>7. ASSUME NEW i \in 1..Len(audit'[e]), NEW j \in 1..Len(audit'[e]), i < j
          PROVE  audit'[e][i].next <= audit'[e][j].server
      <4>1. i \in 1..Len(audit[e])
        BY <3>2, <3>7
      <4> QED
        BY <2>1, <3>2, <3>4, <3>5, <3>7, <4>1
    <3> QED
      BY <3>6, <3>7
  <2> QED
    BY <2>3, <2>4, <2>5
<1>11. AuditIsOfRows'
  BY <1>0, <1>1, <1>4 DEF AuditIsOfRows, TypeOK
<1> QED
  BY <1>5, <1>6, <1>7, <1>8, <1>9, <1>10, <1>11

LEMMA NextInv == Inv /\ [Next]_vars => Inv'
<1> SUFFICES ASSUME Inv, [Next]_vars PROVE Inv'
  OBVIOUS
<1>1. ASSUME NEW d \in Devices, enroll_hotp_device(d) PROVE Inv'
  BY <1>1, EnrollInv
<1>2. ASSUME NEW d \in Devices, Confirm(d) \/ SetActive(d) \/ PressToken(d) PROVE Inv'
  BY <1>2, RowUpdateInv
<1>3. ASSUME NEW s \in Scopes, CacheForget(s) PROVE Inv'
  BY <1>3, CacheForgetInv
<1>4. ASSUME NEW c \in Clients, NEW kind \in Kinds, NEW d \in Devices, Call(c, kind, d)
      PROVE  Inv'
  BY <1>4, CallInv
<1>5. ASSUME NEW c \in Clients, Lock(c) PROVE Inv'
  BY <1>5, LockInv
<1>6. ASSUME NEW c \in Clients, Work(c) PROVE Inv'
  BY <1>6, CheckThrottleInv, VerifyInv, ThrottleInv, CommitInv DEF Work
<1>7. ASSUME NEW c \in Clients, Abort(c) PROVE Inv'
  BY <1>7, AbortInv
<1>8. CASE UNCHANGED vars
  BY <1>8 DEF vars, tables, Inv, TypeOK, CallsAreOnRows, RowIsCurrent, ResultsFit,
              SpentIsBelowCounter, AuditIsOrdered, AuditIsOfRows, HasLock, Device
<1> QED
  BY <1>1, <1>2, <1>3, <1>4, <1>5, <1>6, <1>7, <1>8 DEF Next

\* Inv holds in every state, and with it the types and the order of the audit
\* trail.
THEOREM Invariance == Spec => []Inv
<1>1. Init => Inv
  BY InitInv
<1>2. Inv /\ [Next]_vars => Inv'
  BY NextInv
<1> QED
  BY <1>1, <1>2, PTL DEF Spec

\* Every variable has its type, and in particular no counter outgrows its column.
THEOREM TypeCorrect == Spec => []TypeOK
<1>1. Inv => TypeOK
  BY DEF Inv
<1> QED
  BY <1>1, Invariance, PTL

\* The audit events of a device are in the order of its counter, and none is ahead
\* of it.
THEOREM AuditOrder == Spec => []AuditIsOrdered
<1>1. Inv => AuditIsOrdered
  BY DEF Inv
<1> QED
  BY <1>1, Invariance, PTL

(***************************************************************************)
(* Locks.                                                                  *)
(***************************************************************************)
\* A step that leaves the locks, and the calls of those who hold one, at work on
\* the row they have locked, leaves the holders at work.
LEMMA HoldersKeepWorking ==
    ASSUME TypeOK, LockHoldersWork, UNCHANGED lock,
           \A b \in Clients : HasLock(b) => HasLock(b)' /\ Device(b)' = Device(b)
    PROVE  LockHoldersWork'
BY ClientsAssumption DEF LockHoldersWork, TypeOK

LEMMA LockHoldersStep == Inv /\ LockHoldersWork /\ [Next]_vars => LockHoldersWork'
<1> SUFFICES ASSUME Inv, LockHoldersWork, [Next]_vars PROVE LockHoldersWork'
  OBVIOUS
<1>1. TypeOK
  BY DEF Inv
<1>2. ASSUME UNCHANGED <<lock, pc, call>> PROVE LockHoldersWork'
  BY <1>1, <1>2, HoldersKeepWorking DEF HasLock, Device
<1>3. ASSUME NEW d \in Devices,
             enroll_hotp_device(d) \/ Confirm(d) \/ SetActive(d) \/ PressToken(d)
      PROVE  LockHoldersWork'
  BY <1>2, <1>3 DEF enroll_hotp_device, Confirm, SetActive, PressToken
<1>4. ASSUME NEW s \in Scopes, CacheForget(s) PROVE LockHoldersWork'
  BY <1>2, <1>4 DEF CacheForget, Forget
<1>5. ASSUME NEW c \in Clients, NEW kind \in Kinds, NEW d \in Devices, Call(c, kind, d)
      PROVE  LockHoldersWork'
  <2>1. /\ ~HasLock(c) /\ UNCHANGED lock
        /\ \A b \in Clients \ {c} : pc'[b] = pc[b] /\ call'[b] = call[b]
    BY <1>1, <1>5 DEF Call, Goto, HasLock, TypeOK
  <2> QED
    BY <1>1, <2>1, HoldersKeepWorking DEF HasLock, Device
<1>6. ASSUME NEW c \in Clients, Lock(c) PROVE LockHoldersWork'
  <2> DEFINE d == Device(c)
  <2>1. /\ pc[c] = "lock" /\ lock' = [lock EXCEPT ![d] = c] /\ UNCHANGED call
        /\ pc'[c] \in {"commit", "verify", "throttle"}
        /\ \A b \in Clients \ {c} : pc'[b] = pc[b]
    BY <1>1, <1>6 DEF Lock, Goto, TypeOK
  <2>2. HasLock(c)' /\ Device(c)' = d /\ ~HasLock(c)
    BY <2>1 DEF HasLock, Device
  <2>3. \A b \in Clients \ {c} : HasLock(b) => HasLock(b)' /\ Device(b)' = Device(b)
    BY <2>1 DEF HasLock, Device
  <2> SUFFICES ASSUME NEW e \in Devices, lock'[e] # NoOne
               PROVE  HasLock(lock[e])' /\ Device(lock[e])' = e
    BY DEF LockHoldersWork
  <2>4. CASE e = d
    BY <1>1, <2>1, <2>2, <2>4 DEF TypeOK, HasLock, Device
  <2>5. CASE e # d
    <3> DEFINE b == lock[e]
    <3>1. lock'[e] = b /\ b \in Clients /\ HasLock(b) /\ Device(b) = e
      BY <1>1, <2>1, <2>5 DEF TypeOK, LockHoldersWork
    <3> QED
      BY <2>2, <2>3, <3>1 DEF HasLock, Device
  <2> QED
    BY <2>4, <2>5
<1>7. ASSUME NEW c \in Clients, Work(c), ~Commit(c) PROVE LockHoldersWork'
  <2>1. CheckThrottle(c) \/ Verify(c) \/ ResetThrottle(c) \/ RecordFailure(c)
    BY <1>7 DEF Work
  <2>2. UNCHANGED lock
    BY <2>1 DEF CheckThrottle, Verify, ResetThrottle, RecordFailure
  <2>3. \A b \in Clients : HasLock(b) => HasLock(b)'
    <3>1. \E label \in {"verify", "reset", "add", "incr", "set", "commit"} :
             pc' = [pc EXCEPT ![c] = label]
      BY <2>1 DEF CheckThrottle, PassCheck, FailCheck, Verify, AfterVerify, ResetThrottle,
                  RecordFailure, Reset, Add, Incr, IncrRaises, SetOne, Goto
    <3> QED
      BY <1>1, <3>1 DEF HasLock, TypeOK
  <2>4. \A b \in Clients : HasLock(b) => Device(b)' = Device(b)
    <3>1. \A b \in Clients : HasLock(b) => call[b] \in Calls
      BY DEF Inv, CallsAreOnRows, HasLock
    <3>2. call' = call \/ call' = [call EXCEPT ![c].codes = <<>>]
      BY <2>1 DEF CheckThrottle, Verify, ResetThrottle, RecordFailure
    <3>3. ASSUME NEW b \in Clients, HasLock(b) PROVE Device(b)' = Device(b)
      <4>1. call[b] \in Calls
        BY <3>1, <3>3
      <4>2. call'[b] = call[b] \/ call'[b] = [call[b] EXCEPT !.codes = <<>>]
        BY <1>1, <3>2 DEF TypeOK
      <4> QED
        BY <4>1, <4>2 DEF Device, Calls
    <3> QED
      BY <3>3
  <2> QED
    BY <1>1, <2>2, <2>3, <2>4, HoldersKeepWorking
<1>8. ASSUME NEW c \in Clients, Commit(c) \/ Abort(c) PROVE LockHoldersWork'
  <2>1. /\ lock' = [d \in Devices |-> IF lock[d] = c THEN NoOne ELSE lock[d]]
        /\ \A b \in Clients \ {c} : pc'[b] = pc[b] /\ call'[b] = call[b]
    BY <1>1, <1>8 DEF Commit, Abort, Release, Return, Goto, TypeOK
  <2> QED
    BY <1>1, <2>1 DEF LockHoldersWork, HasLock, Device, TypeOK
<1>9. CASE UNCHANGED vars
  BY <1>2, <1>9 DEF vars
<1> QED
  BY <1>3, <1>4, <1>5, <1>6, <1>7, <1>8, <1>9 DEF Next, Work

\* Whoever holds the lock of a row is at work on it and waits for nobody, so calls
\* of the adapters never wait in a circle, whatever was rolled back before.
THEOREM HoldersAreAtWork == Spec => []LockHoldersWork
<1>1. Init => LockHoldersWork
  BY DEF Init, LockHoldersWork
<1> QED
  BY <1>1, LockHoldersStep, Invariance, PTL DEF Spec

\* Only enrolment, which makes the row, and commits change counters and their uses.
LEMMA OtherStepsKeepCounters ==
    ASSUME Next,
           ~\E c \in Clients : Commit(c),
           ~\E d \in Devices : enroll_hotp_device(d)
    PROVE  UNCHANGED <<hotp_counter, uses>>
<1> USE DEF tables
<1>1. ASSUME NEW d \in Devices, Confirm(d) \/ SetActive(d) \/ PressToken(d)
      PROVE  UNCHANGED <<hotp_counter, uses>>
  BY <1>1 DEF Confirm, SetActive, PressToken
<1>2. ASSUME NEW s \in Scopes, CacheForget(s)
      PROVE  UNCHANGED <<hotp_counter, uses>>
  BY <1>2 DEF CacheForget
<1>3. ASSUME NEW c \in Clients, NEW kind \in Kinds, NEW d \in Devices, Call(c, kind, d)
      PROVE  UNCHANGED <<hotp_counter, uses>>
  BY <1>3 DEF Call
<1>4. ASSUME NEW c \in Clients, Lock(c) \/ Abort(c)
      PROVE  UNCHANGED <<hotp_counter, uses>>
  BY <1>4 DEF Lock, Abort
<1>5. ASSUME NEW c \in Clients, Work(c), ~Commit(c)
      PROVE  UNCHANGED <<hotp_counter, uses>>
  BY <1>5 DEF Work, CheckThrottle, Verify, ResetThrottle, RecordFailure
<1> QED
  BY <1>1, <1>2, <1>3, <1>4, <1>5 DEF Next, Work

\* The counter of a row never goes back and moves by no more than the widest
\* search and the counter it matched.
THEOREM CounterAdvances == Spec => CounterOnlyAdvances
<1> DEFINE Advance ==
      \A d \in enrolled :
          hotp_counter'[d] \in hotp_counter[d]..(hotp_counter[d] + WidestSearch + 1)
<1>1. ASSUME Inv, Next PROVE Advance
  <2> USE <1>1
  <2>1. \A d \in enrolled : d \in Devices /\ hotp_counter[d] \in Nat
    <3>1. enrolled \subseteq Devices /\ hotp_counter \in [Devices -> 0..MaxCounter]
      BY DEF Inv, TypeOK, Counters
    <3> QED
      BY <3>1, CountersAssumption
  <2>2. CASE UNCHANGED hotp_counter
    BY <2>1, <2>2, WidestSearchIsWidest
  <2>3. ASSUME NEW e \in Devices, enroll_hotp_device(e) PROVE Advance
    <3>1. \A d \in enrolled : hotp_counter'[d] = hotp_counter[d]
      BY <2>3 DEF enroll_hotp_device, Inv, TypeOK
    <3> QED
      BY <2>1, <3>1, WidestSearchIsWidest
  <2>4. ASSUME NEW c \in Clients, Commit(c) PROVE Advance
    <3> DEFINE e == Device(c)
    <3>1. /\ result[c].next \in Int
          /\ hotp_counter[e] <= result[c].next
          /\ result[c].next <= hotp_counter[e] + WidestSearch + 1
          /\ \/ hotp_counter' = [hotp_counter EXCEPT ![e] = result[c].next]
             \/ UNCHANGED hotp_counter
      BY <2>4, CommitFacts, WidestSearchIsWidest DEF Results
    <3>2. \A d \in enrolled :
             \/ hotp_counter'[d] = hotp_counter[d]
             \/ d = e /\ hotp_counter'[d] = result[c].next
      BY <3>1 DEF Inv, TypeOK
    <3> QED
      BY <2>1, <3>1, <3>2, WidestSearchIsWidest
  <2> QED
    BY <2>2, <2>3, <2>4, OtherStepsKeepCounters
<1>2. Inv /\ [Next]_vars => [Advance]_vars
  BY <1>1
<1> QED
  BY <1>2, Invariance, PTL DEF Spec, CounterOnlyAdvances

\* The adapters implement one-time use: whatever the interleaving, the aborts and
\* the repeated codes, a counter of a device is honoured at most once.
THEOREM EachCounterOnce == Spec => HonouredOnce
<1>1. Init => OneTime!Init
  BY DEF Init, OneTime!Init
<1>2. ASSUME Inv, Next PROVE OneTime!Next \/ UNCHANGED uses
  <2> USE <1>2
  <2>1. ASSUME NEW d \in Devices, enroll_hotp_device(d) PROVE UNCHANGED uses
    BY <2>1 DEF enroll_hotp_device
  <2>2. ASSUME NEW c \in Clients, Commit(c) PROVE OneTime!Next \/ UNCHANGED uses
    <3> DEFINE d == Device(c)
               S == Spent(result[c])
    <3>1. CASE ~result[c].accepted
      BY <2>2, <3>1, CommitFacts
    <3>2. CASE result[c].accepted
      <4>1. /\ d \in Devices /\ hotp_counter[d] \in Nat
            /\ result[c].matched \in Nat /\ hotp_counter[d] <= result[c].matched
            /\ result[c].matched < result[c].next /\ result[c].next \in Counters
            /\ uses' = [uses EXCEPT ![d] =
                  [n \in Counters |-> uses[d][n] + (IF n \in S THEN 1 ELSE 0)]]
        BY <2>2, <3>2, CommitFacts
      <4>2. S \in SUBSET Counters /\ S # {}
        <5>1. result[c].matched \in S
          BY <4>1, CountersAssumption DEF Spent, Counters
        <5> QED
          BY <4>1, <5>1, CountersAssumption DEF Spent, Counters
      <4>3. \A n \in S : uses[d][n] = 0
        BY <4>1, <4>2, CountersAssumption DEF Inv, SpentIsBelowCounter, Spent, Counters
      <4>4. \A n \in Counters :
               uses[d][n] + (IF n \in S THEN 1 ELSE 0) = IF n \in S THEN 1 ELSE uses[d][n]
        BY <4>1, <4>3 DEF Inv, SpentIsBelowCounter
      <4>5. uses' = [uses EXCEPT ![d] = [n \in Counters |-> IF n \in S THEN 1 ELSE uses[d][n]]]
        BY <4>1, <4>4
      <4>6. OneTime!Use(d, S)
        BY <4>2, <4>3, <4>5 DEF OneTime!Use
      <4> QED
        BY <4>1, <4>2, <4>6 DEF OneTime!Next
    <3> QED
      BY <3>1, <3>2
  <2> QED
    BY <2>1, <2>2, OtherStepsKeepCounters
<1>3. Inv /\ [Next]_vars => [OneTime!Next]_uses
  BY <1>2 DEF vars, tables
<1> QED
  BY <1>1, <1>3, Invariance, PTL DEF Spec, HonouredOnce, OneTime!Spec

(***************************************************************************)
(* The token, when the codes of a device are distinct.                     *)
(***************************************************************************)
CodesAreDistinct ==
    \A d \in Devices : \A m \in Nat :
        /\ CodeAt(d, m) \notin {Junk, Blank}
        /\ \A n \in Nat : CodeAt(d, m) = CodeAt(d, n) => m = n

\* A counter whose code was submitted is one the token has gone past.
LEMMA ShownIsPast ==
    ASSUME CodesAreDistinct, TypeOK, NEW d \in Devices, NEW n \in Nat,
           CodeAt(d, n) \in Submissions(d)
    PROVE  n < token[d]
<1>1. PICK m \in 0..(token[d] - 1) : CodeAt(d, n) = CodeAt(d, m)
  BY DEF CodesAreDistinct, Submissions, Shown
<1>2. token[d] \in Nat
  BY CountersAssumption DEF TypeOK
<1>3. m \in Nat /\ m = n
  BY <1>1, <1>2 DEF CodesAreDistinct
<1> QED
  BY <1>1, <1>2, <1>3

\* The services take a counter to the one after a code they were given.
LEMMA ServiceNotOvertaken ==
    ASSUME CodesAreDistinct, TypeOK, NEW c \in Clients, call[c] \in Calls, ~ServiceRaises(c),
           \A i \in 1..Len(call[c].codes) : call[c].codes[i] \in Submissions(Device(c)),
           call[c].kind = "verify" => Len(call[c].codes) = 1,
           NEW server \in Nat, server <= token[Device(c)]
    PROVE  ServiceResult(c, server).next <= token[Device(c)]
<1> DEFINE d == Device(c)
           codes == call[c].codes
<1>1. /\ d \in Devices /\ codes \in Seq(Codes) /\ Len(codes) \in Nat
      /\ call[c].kind \in {"verify", "resync"} /\ token[d] \in Nat
  BY CountersAssumption DEF Calls, Device, TypeOK
<1>2. CASE call[c].kind = "verify"
  <2> DEFINE ahead == find_matching_counter(d, codes[1], server, server + LookAhead)
  <2>1. codes[1] \in Submissions(d)
    BY <1>1, <1>2
  <2>2. ahead # None => ahead \in Nat /\ CodeAt(d, ahead) = codes[1]
    BY WindowsAssumption DEF find_matching_counter, FirstOf, IsLeast
  <2>3. ahead # None => ahead + 1 <= token[d]
    <3> HIDE DEF ahead
    <3> QED
      BY <1>1, <2>1, <2>2, ShownIsPast
  <2>4. server # None
    BY NoneAssumption
  <2>5. ServiceResult(c, server).next = server \/
          (ahead # None /\ ServiceResult(c, server).next = ahead + 1)
    BY <1>2, <2>4 DEF ServiceResult, verify_hotp, Accepted, Rejected
  <2> QED
    BY <2>3, <2>5
<1>3. CASE call[c].kind = "resync"
  <2> DEFINE n == Len(codes)
             end == server + SearchWindow
             ahead == find_matching_sequence(d, codes, server, end)
  <2>1. n \in Nat /\ n >= 2 /\ codes[n] \in Submissions(d)
    BY <1>1, <1>3 DEF ServiceRaises, EnoughCodes
  <2>2. ahead # None => ahead \in Nat /\ CodeAt(d, ahead + n - 1) = codes[n]
    <3>1. ahead # None => /\ ahead \in server..LastStart(codes, end)
                          /\ \A i \in 1..n : CodeAt(d, ahead + i - 1) = codes[i]
      BY DEF find_matching_sequence, FirstOf, IsLeast
    <3>2. end \in Int /\ LastStart(codes, end) \in Int
      BY <2>1, WindowsAssumption DEF LastStart
    <3> HIDE DEF ahead, end, n
    <3>3. ahead # None => ahead \in Nat
      BY <3>1, <3>2
    <3> QED
      BY <2>1, <3>1, <3>3
  <2>3. ahead # None => ahead + n <= token[d]
    <3> HIDE DEF ahead, n
    <3>1. ahead # None => ahead + n - 1 \in Nat
      BY <2>1, <2>2
    <3>2. ahead # None => ahead + n - 1 < token[d]
      BY <1>1, <2>1, <2>2, <3>1, ShownIsPast
    <3> QED
      BY <1>1, <2>1, <2>2, <3>2
  <2>4. ServiceResult(c, server).next = server \/
          (ahead # None /\ ServiceResult(c, server).next = ahead + n)
    BY <1>3 DEF ServiceResult, resync_hotp, Accepted, Rejected
  <2> QED
    BY <2>3, <2>4
<1> QED
  BY <1>1, <1>2, <1>3

\* What a client has after a step fits the token as it was before.
Early == {"lock", "throttle", "verify"}
Late  == {"reset", "add", "incr", "set", "commit"}

FitsToken(c) ==
    /\ pc'[c] \in Early =>
          /\ \A i \in 1..Len(call'[c].codes) : call'[c].codes[i] \in Submissions(Device(c)')
          /\ call'[c].kind = "verify" => Len(call'[c].codes) = 1
    /\ pc'[c] \in Late => result'[c].next <= token[Device(c)']

\* Then it fits the token after the step, which is the same or one further.
LEMMA TokenAhead ==
    ASSUME InvWithToken, Inv',
           \A d \in Devices : hotp_counter'[d] <= token[d],
           \A d \in Devices : token'[d] = token[d] \/ token'[d] = token[d] + 1,
           \A b \in Clients : FitsToken(b)
    PROVE  InvWithToken'
<1> USE DEF InvWithToken
<1>1. \A d \in Devices : /\ token[d] \in Nat /\ token'[d] \in Nat /\ token[d] <= token'[d]
                         /\ Submissions(d) \subseteq Submissions(d)'
  <2> SUFFICES ASSUME NEW d \in Devices
               PROVE  /\ token[d] \in Nat /\ token'[d] \in Nat /\ token[d] <= token'[d]
                      /\ Submissions(d) \subseteq Submissions(d)'
    OBVIOUS
  <2>1. token[d] \in Nat /\ token'[d] \in Nat /\ token[d] <= token'[d]
    <3>1. token[d] \in 0..(MaxCounter + 1)
      BY DEF Inv, TypeOK
    <3>2. token[d] \in Nat
      BY <3>1, CountersAssumption
    <3> QED
      BY <3>2
  <2>2. 0..(token[d] - 1) \subseteq 0..(token'[d] - 1)
    BY <2>1
  <2> QED
    BY <2>1, <2>2 DEF Submissions, Shown
<1>2. TokenNotOvertaken'
  <2>1. \A d \in Devices : hotp_counter'[d] \in Nat
    BY CountersAssumption DEF Inv, TypeOK, Counters
  <2> QED
    BY <1>1, <2>1 DEF TokenNotOvertaken
<1>3. \A b \in Clients : pc'[b] # "idle" => Device(b)' \in Devices
  BY DEF Inv, CallsAreOnRows, Calls, Device
<1>4. CodesAreShown'
  <2> SUFFICES ASSUME NEW b \in Clients, pc'[b] \in Early
               PROVE  /\ \A i \in 1..Len(call'[b].codes) :
                            call'[b].codes[i] \in Submissions(Device(b))'
                      /\ call'[b].kind = "verify" => Len(call'[b].codes) = 1
    BY DEF CodesAreShown, Submissions, Shown, Early
  <2>1. PICK d \in Devices : d = Device(b)'
    BY <1>3 DEF Early
  <2>2. Submissions(d)' = Submissions(Device(b))'
    BY <2>1 DEF Submissions, Shown
  <2> QED
    BY <1>1, <2>1, <2>2 DEF FitsToken
<1>5. ResultsNotOvertaken'
  <2> SUFFICES ASSUME NEW b \in Clients, pc'[b] \in Late
               PROVE  result'[b].next <= token'[Device(b)']
    BY DEF ResultsNotOvertaken, Late
  <2>1. Device(b)' \in Devices /\ result'[b].next \in Nat
    BY DEF Inv, CallsAreOnRows, Calls, Device, ResultsFit, ResultFits, Results, Late
  <2>2. result'[b].next <= token[Device(b)']
    BY DEF FitsToken
  <2> QED
    BY <1>1, <2>1, <2>2
<1> QED
  BY <1>2, <1>4, <1>5

\* A client that does not move fits the token as before.
LEMMA IdlerFits ==
    ASSUME InvWithToken, NEW b \in Clients,
           pc'[b] = pc[b], call'[b] = call[b], result'[b] = result[b]
    PROVE  FitsToken(b)
BY DEF InvWithToken, FitsToken, CodesAreShown, ResultsNotOvertaken, Device, Early, Late

\* A new row begins where the token does, and no call is on it yet.
LEMMA EnrollToken ==
    ASSUME InvWithToken, Inv', NEW d \in Devices, enroll_hotp_device(d)
    PROVE  InvWithToken'
<1> USE DEF InvWithToken
<1>1. PICK n \in InitialCounters : /\ token' = [token EXCEPT ![d] = n]
                                   /\ hotp_counter' = [hotp_counter EXCEPT ![d] = n]
  BY DEF enroll_hotp_device, enroll_hotp
<1>2. d \notin enrolled /\ UNCHANGED <<pc, call, result>>
  BY DEF enroll_hotp_device
<1>3. n \in Nat
  BY CountersAssumption
<1>4. TokenNotOvertaken'
  BY <1>1, <1>3 DEF TokenNotOvertaken, Inv, TypeOK
<1>5. \A c \in Clients : pc[c] # "idle" =>
         /\ Device(c)' = Device(c) /\ token'[Device(c)] = token[Device(c)]
         /\ Submissions(Device(c))' = Submissions(Device(c))
  <2>1. \A c \in Clients : pc[c] # "idle" => Device(c) \in Devices /\ Device(c) # d
    BY <1>2 DEF Inv, CallsAreOnRows, Calls, Device
  <2>2. \A e \in Devices \ {d} : token'[e] = token[e]
    BY <1>1 DEF Inv, TypeOK
  <2> QED
    BY <1>2, <2>1, <2>2 DEF Device, Submissions, Shown
<1>6. CodesAreShown' /\ ResultsNotOvertaken'
  BY <1>2, <1>5 DEF CodesAreShown, ResultsNotOvertaken
<1> QED
  BY <1>4, <1>6

\* The other steps outside the calls.
LEMMA OutsideToken ==
    ASSUME InvWithToken, Inv',
           \/ \E d \in Devices : Confirm(d) \/ SetActive(d) \/ PressToken(d)
           \/ \E s \in Scopes : CacheForget(s)
    PROVE  InvWithToken'
<1>1. /\ UNCHANGED <<hotp_counter, pc, call, result>>
      /\ \/ token' = token
         \/ \E d \in Devices : token' = [token EXCEPT ![d] = @ + 1]
  BY DEF Confirm, SetActive, PressToken, CacheForget, Forget, tables
<1>2. \A d \in Devices : token'[d] = token[d] \/ token'[d] = token[d] + 1
  BY <1>1 DEF InvWithToken, Inv, TypeOK
<1>3. \A d \in Devices : hotp_counter'[d] <= token[d]
  BY <1>1 DEF InvWithToken, TokenNotOvertaken
<1> QED
  BY <1>1, <1>2, <1>3, TokenAhead, IdlerFits

\* A call begins with codes the token has shown; its codes stay until the service
\* has compared them, and its result after that.
LEMMA CallToken ==
    ASSUME InvWithToken, Inv', CodesAreDistinct, NEW c \in Clients,
           \/ \E kind \in Kinds, d \in Devices : Call(c, kind, d)
           \/ Lock(c) \/ Work(c) \/ Abort(c)
    PROVE  InvWithToken'
<1> USE DEF InvWithToken
<1>1. token' = token /\ \A b \in Clients \ {c} : UNCHANGED <<pc[b], call[b], result[b]>>
  <2>1. ASSUME NEW kind \in Kinds, NEW d \in Devices, Call(c, kind, d)
        PROVE  token' = token /\ \A b \in Clients \ {c} : UNCHANGED <<pc[b], call[b], result[b]>>
    BY <2>1 DEF Call, Goto, Inv, TypeOK
  <2>2. CASE Lock(c) \/ CheckThrottle(c) \/ Verify(c)
    BY <2>2 DEF Lock, CheckThrottle, PassCheck, FailCheck, Verify, Goto, Inv, TypeOK
  <2>3. CASE ResetThrottle(c) \/ RecordFailure(c)
    BY <2>3 DEF ResetThrottle, RecordFailure, Reset, Add, Incr, IncrRaises, SetOne, Goto,
                Inv, TypeOK
  <2>4. CASE Commit(c) \/ Abort(c)
    BY <2>4 DEF Commit, Abort, Return, Goto, Inv, TypeOK
  <2> QED
    BY <2>1, <2>2, <2>3, <2>4 DEF Work
<1>2. \A b \in Clients \ {c} : FitsToken(b)
  BY <1>1, IdlerFits
<1>3. hotp_counter' = hotp_counter \/ Commit(c)
  BY DEF Call, Lock, Work, CheckThrottle, Verify, ResetThrottle, RecordFailure, Abort, tables
<1>4. \A d \in Devices : hotp_counter'[d] <= token[d]
  <2>1. CASE hotp_counter' = hotp_counter
    BY <2>1 DEF TokenNotOvertaken
  <2>2. CASE Commit(c)
    <3>1. /\ Device(c) \in Devices /\ pc[c] = "commit"
          /\ \/ hotp_counter' = hotp_counter
             \/ hotp_counter' = [hotp_counter EXCEPT ![Device(c)] = result[c].next]
      BY <2>2, CommitFacts DEF Commit
    <3>2. result[c].next <= token[Device(c)]
      BY <3>1 DEF ResultsNotOvertaken
    <3> QED
      BY <3>1, <3>2 DEF TokenNotOvertaken, Inv, TypeOK
  <2> QED
    BY <1>3, <2>1, <2>2
<1>5. FitsToken(c)
  <2>1. ASSUME NEW kind \in Kinds, NEW d \in Devices, Call(c, kind, d) PROVE FitsToken(c)
    <3>1. PICK codes \in SubmittedCodes(d, kind), s \in ScopesOf[d], a \in AuditModes :
             call' = [call EXCEPT ![c] = [kind |-> kind, device |-> d, codes |-> codes,
                                          scope |-> s, audited |-> a]]
      BY <2>1 DEF Call
    <3>2. /\ pc'[c] = "lock" /\ call'[c].codes = codes /\ call'[c].kind = kind
          /\ Device(c)' = d
      BY <2>1, <3>1 DEF Call, Goto, Device, Inv, TypeOK
    <3>3. /\ \A i \in 1..Len(codes) : codes[i] \in Submissions(d)
          /\ kind = "verify" => Len(codes) = 1
      BY <3>1 DEF SubmittedCodes, Submissions
    <3> QED
      BY <3>2, <3>3 DEF FitsToken, Late
  <2>2. CASE Lock(c)
    <3>1. pc[c] = "lock" /\ call' = call /\ Device(c)' = Device(c) /\ Device(c) \in Devices
      BY <2>2 DEF Lock, Inv, CallsAreOnRows, Calls, Device
    <3>2. pc'[c] \in Late => result'[c] = BlankResult(c, hotp_counter[Device(c)])
      BY <2>2 DEF Lock, Goto, Late, Inv, TypeOK
    <3>3. BlankResult(c, hotp_counter[Device(c)]).next = hotp_counter[Device(c)]
      <4>1. hotp_counter[Device(c)] \in Nat
        BY <3>1, CountersAssumption DEF Inv, TypeOK, Counters
      <4> QED
        BY <4>1, BlankResultFits
    <3> QED
      BY <3>1, <3>2, <3>3
         DEF FitsToken, CodesAreShown, TokenNotOvertaken, Early, Device
  <2>3. CASE CheckThrottle(c)
    <3>1. /\ pc[c] = "throttle" /\ call' = call /\ Device(c)' = Device(c)
          /\ Device(c) \in Devices /\ row[c] = hotp_counter[Device(c)]
      BY <2>3 DEF CheckThrottle, PassCheck, FailCheck, Inv, CallsAreOnRows, RowIsCurrent,
                  HasLock, Calls, Device
    <3>2. pc'[c] \in Late => result'[c].next = row[c]
      BY <2>3 DEF CheckThrottle, PassCheck, FailCheck, ThrottledResult, Rejected, Goto,
                  Late, Inv, TypeOK
    <3> QED
      BY <3>1, <3>2 DEF FitsToken, CodesAreShown, TokenNotOvertaken, Early, Device
  <2>4. CASE Verify(c)
    <3>1. /\ pc[c] = "verify" /\ call[c] \in Calls /\ ~ServiceRaises(c)
          /\ Device(c) \in Devices /\ row[c] = hotp_counter[Device(c)]
      BY <2>4 DEF Verify, Inv, CallsAreOnRows, RowIsCurrent, HasLock, Calls, Device
    <3>2. row[c] \in Nat /\ row[c] <= token[Device(c)]
      BY <3>1, CountersAssumption DEF TokenNotOvertaken, Inv, TypeOK, Counters
    <3>3. ServiceResult(c, row[c]).next <= token[Device(c)]
      BY <3>1, <3>2, ServiceNotOvertaken DEF CodesAreShown, Inv
    <3>4. result'[c] = ServiceResult(c, row[c]) /\ pc'[c] \in Late
      BY <2>4 DEF Verify, AfterVerify, Goto, Late, Inv, TypeOK
    <3>5. Device(c)' = Device(c)
      BY <2>4, <3>1 DEF Verify, Device, Calls, Inv, TypeOK
    <3> QED
      BY <3>3, <3>4, <3>5 DEF FitsToken, Early, Late
  <2>5. CASE ResetThrottle(c) \/ RecordFailure(c)
    <3>1. pc[c] \in Late /\ pc'[c] \in Late /\ call' = call /\ result' = result
      BY <2>5 DEF ResetThrottle, RecordFailure, Reset, Add, Incr, IncrRaises, SetOne, Goto,
                  Late, Inv, TypeOK
    <3> QED
      BY <3>1 DEF FitsToken, ResultsNotOvertaken, Device, Early, Late
  <2>6. CASE Commit(c) \/ Abort(c)
    <3>1. pc'[c] = "idle"
      BY <2>6 DEF Commit, Abort, Return, Goto, Inv, TypeOK
    <3> QED
      BY <3>1 DEF FitsToken, Early, Late
  <2> QED
    BY <2>1, <2>2, <2>3, <2>4, <2>5, <2>6 DEF Work
<1> QED
  BY <1>1, <1>2, <1>4, <1>5, TokenAhead

\* When the codes of a device are distinct the server never runs ahead of the token:
\* it stores no counter that is further than the one after the last code shown.
THEOREM TokenIsAhead ==
    ASSUME CodesAreDistinct PROVE Spec => []TokenNotOvertaken
<1>1. Init => InvWithToken
  BY InitInv DEF Init, InvWithToken, TokenNotOvertaken, CodesAreShown, ResultsNotOvertaken
<1>2. InvWithToken /\ [Next]_vars => InvWithToken'
  <2> SUFFICES ASSUME InvWithToken, [Next]_vars PROVE InvWithToken'
    OBVIOUS
  <2>1. Inv'
    BY NextInv DEF InvWithToken
  <2>2. CASE Next
    BY <2>1, <2>2, EnrollToken, OutsideToken, CallToken DEF Next
  <2>3. CASE UNCHANGED vars
    <3>1. UNCHANGED <<hotp_counter, token, pc, call, result>>
      BY <2>3 DEF vars, tables
    <3> QED
      BY <2>1, <3>1 DEF InvWithToken, TokenNotOvertaken, CodesAreShown, ResultsNotOvertaken,
                        Device, Submissions, Shown
  <2> QED
    BY <2>2, <2>3
<1>3. InvWithToken => TokenNotOvertaken
  BY DEF InvWithToken
<1> QED
  BY <1>1, <1>2, <1>3, PTL DEF Spec
=============================================================================
