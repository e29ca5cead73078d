-------------------------- MODULE ThrottlingProofs --------------------------
(***************************************************************************)
(* Proofs about Throttling, for any callers, scopes, limit and period.     *)
(***************************************************************************)
EXTENDS Throttling, FiniteSetTheorems, TLAPS

(***************************************************************************)
(* Counting callers.                                                       *)
(***************************************************************************)
In(c, S) == IF c \in S THEN 1 ELSE 0

LEMMA CallersAreFinite ==
    ASSUME NEW S \in SUBSET Clients
    PROVE  IsFiniteSet(S) /\ Cardinality(S) \in Nat
BY ClientsAssumption, FS_Subset, FS_CardinalityType

\* What a set of callers counts when one of them enters or leaves.
LEMMA OneMoves ==
    ASSUME NEW S \in SUBSET Clients, NEW T \in SUBSET Clients, NEW c \in Clients,
           T \ {c} = S \ {c}
    PROVE  Cardinality(T) = Cardinality(S) - In(c, S) + In(c, T)
<1>1. ASSUME NEW R \in SUBSET Clients
      PROVE  /\ Cardinality(R \ {c}) \in Nat /\ Cardinality(R) \in Nat
             /\ Cardinality(R) = Cardinality(R \ {c}) + In(c, R)
  <2>1. IsFiniteSet(R) /\ Cardinality(R) \in Nat /\ Cardinality(R \ {c}) \in Nat
    BY CallersAreFinite
  <2>2. Cardinality(R \ {c}) = IF c \in R THEN Cardinality(R) - 1 ELSE Cardinality(R)
    BY <2>1, FS_RemoveElement
  <2> QED
    BY <2>1, <2>2 DEF In
<1>2. Cardinality(T \ {c}) = Cardinality(S \ {c})
  OBVIOUS
<1> QED
  BY <1>1, <1>2 DEF In

LEMMA SubsetCounts ==
    ASSUME NEW S \in SUBSET Clients, NEW T \in SUBSET S
    PROVE  Cardinality(T) <= Cardinality(S)
BY CallersAreFinite, FS_Subset

LEMMA CountsAreNat ==
    ASSUME NEW s \in Scopes
    PROVE  /\ Cardinality(Reporting(s)) \in Nat
           /\ Cardinality(Admitted(s)) \in Nat
           /\ Cardinality(Callers(s)) \in Nat
           /\ Cardinality(Admitted(s)) <= Cardinality(Callers(s))
BY CallersAreFinite, SubsetCounts DEF Reporting, Admitted, Callers

\* A caller moves to a label: the callers that report and the admitted ones change
\* by it at most, and only those of its scope.
Moves(c, label) == pc' = [pc EXCEPT ![c] = label] /\ scope' = scope

LEMMA MoveCounts ==
    ASSUME LocalsAreTyped, NEW c \in Clients, NEW label \in Labels, Moves(c, label),
           NEW s \in Scopes
    PROVE  /\ Cardinality(Reporting(s)') =
                 Cardinality(Reporting(s)) - In(c, Reporting(s)) + In(c, Reporting(s)')
           /\ Cardinality(Admitted(s)') =
                 Cardinality(Admitted(s)) - In(c, Admitted(s)) + In(c, Admitted(s)')
           /\ Callers(s)' = Callers(s)
           /\ s # scope[c] => In(c, Reporting(s)) = 0 /\ In(c, Reporting(s)') = 0
                              /\ In(c, Admitted(s)) = 0 /\ In(c, Admitted(s)') = 0
           /\ s = scope[c] =>
                 /\ In(c, Reporting(s)) = IF pc[c] \in {"add", "incr", "set"} THEN 1 ELSE 0
                 /\ In(c, Reporting(s)') = IF label \in {"add", "incr", "set"} THEN 1 ELSE 0
                 /\ In(c, Admitted(s)) =
                       IF pc[c] \in {"verify", "reset", "add", "incr", "set"} THEN 1 ELSE 0
                 /\ In(c, Admitted(s)') =
                       IF label \in {"verify", "reset", "add", "incr", "set"} THEN 1 ELSE 0
<1>1. pc'[c] = label /\ \A d \in Clients \ {c} : pc'[d] = pc[d]
  BY DEF Moves, LocalsAreTyped
<1>2. /\ Reporting(s) \in SUBSET Clients /\ Reporting(s)' \in SUBSET Clients
      /\ Reporting(s)' \ {c} = Reporting(s) \ {c}
  BY <1>1 DEF Reporting, Moves
<1>3. /\ Admitted(s) \in SUBSET Clients /\ Admitted(s)' \in SUBSET Clients
      /\ Admitted(s)' \ {c} = Admitted(s) \ {c}
  BY <1>1 DEF Admitted, Moves
<1>4. /\ Cardinality(Reporting(s)') =
            Cardinality(Reporting(s)) - In(c, Reporting(s)) + In(c, Reporting(s)')
      /\ Cardinality(Admitted(s)') =
            Cardinality(Admitted(s)) - In(c, Admitted(s)) + In(c, Admitted(s)')
  BY <1>2, <1>3, OneMoves
<1> QED
  BY <1>1, <1>4 DEF In, Reporting, Admitted, Callers, Moves

(***************************************************************************)
(* The invariant.                                                          *)
(***************************************************************************)
LEMMA AttemptsAreNat ==
    ASSUME LocalsAreTyped, NEW s \in Scopes
    PROVE  /\ Attempts(s) \in Nat /\ failures[s] \in Nat
           /\ Limit \in Nat /\ Limit >= 1
           /\ ~Present(s) => Attempts(s) = 0
BY LimitAssumption, BoundAssumption DEF LocalsAreTyped, Attempts, Present

LEMMA InitInv == Init => Inv
<1> SUFFICES ASSUME Init PROVE Inv
  OBVIOUS
<1> USE DEF Init
<1>1. LocalsAreTyped
  BY PeriodAssumption, BoundAssumption DEF LocalsAreTyped, Labels
<1>2. EntriesHaveTime /\ LostIsTorn
  BY DEF EntriesHaveTime, Present, LostIsTorn
<1>3. \A s \in Scopes : Reporting(s) = {} /\ Admitted(s) = {} /\ Attempts(s) = 0
  BY DEF Reporting, Admitted, Attempts
<1>4. FailuresCounted
  BY <1>3, FS_EmptySet DEF FailuresCounted
<1>5. RoomForAdmitted
  BY <1>3, FS_EmptySet, CountsAreNat, LimitAssumption DEF RoomForAdmitted
<1> QED
  BY <1>1, <1>2, <1>4, <1>5 DEF Inv

\* A caller moves on and leaves the cache alone; a rejected one reports a failure.
LEMMA QuietInv ==
    ASSUME Inv, NEW c \in Clients,
           Start(c) \/ Check(c) \/ Succeed(c) \/ Fail(c) \/ Finish(c)
    PROVE  Inv'
<1> USE DEF Inv
<1> DEFINE label == pc'[c]
<1>1. /\ label \in Labels /\ Moves(c, label)
      /\ cache' = cache /\ ttl' = ttl /\ torn' = torn
      /\ pc[c] \in {"idle", "throttle", "verify", "commit"}
      /\ label \in {"idle", "throttle", "verify", "reset", "add", "commit"}
  BY DEF Start, Check, PassCheck, FailCheck, Succeed, Fail, Finish, Goto, Moves, Labels,
         LocalsAreTyped, history
<1>2. /\ label = "add" =>
            /\ failures' = [failures EXCEPT ![scope[c]] = @ + 1]
            /\ failures[scope[c]] < MaxFailures
      /\ label # "add" => failures' = failures
      /\ label \in {"verify", "reset", "add"} =>
            pc[c] = "verify" \/ Attempts(scope[c]) < Limit
  BY DEF Start, Check, PassCheck, FailCheck, ThrottleAllows, Succeed, Fail, Finish, Goto,
         LocalsAreTyped, history
<1> HIDE DEF label
<1>3. scope[c] \in Scopes /\ scope' = scope
  BY <1>1 DEF LocalsAreTyped, Moves
<1>4. LocalsAreTyped'
  <2>1. failures' \in [Scopes -> 0..MaxFailures]
    BY <1>2, <1>3, BoundAssumption DEF LocalsAreTyped
  <2> QED
    BY <1>1, <2>1 DEF LocalsAreTyped, Moves
<1>5. EntriesHaveTime' /\ \A s \in Scopes : Attempts(s)' = Attempts(s) /\ Present(s)' = Present(s)
  BY <1>1 DEF EntriesHaveTime, Present, Attempts
<1>6. LostIsTorn'
  BY <1>1, <1>3, <1>5 DEF LostIsTorn, Moves, LocalsAreTyped
<1>7. FailuresCounted'
  <2> SUFFICES ASSUME NEW s \in Scopes
               PROVE  LET counted == Attempts(s)' + Cardinality(Reporting(s)') IN
                      counted <= failures'[s] /\ (~torn'[s] => counted = failures'[s])
    BY DEF FailuresCounted
  <2>1. /\ Cardinality(Reporting(s)') =
              Cardinality(Reporting(s)) - In(c, Reporting(s)) + In(c, Reporting(s)')
        /\ s # scope[c] => In(c, Reporting(s)) = 0 /\ In(c, Reporting(s)') = 0
        /\ s = scope[c] => /\ In(c, Reporting(s)) = 0
                           /\ In(c, Reporting(s)') = IF label = "add" THEN 1 ELSE 0
    BY <1>1, MoveCounts
  <2>2. failures'[s] = failures[s] + (IF s = scope[c] /\ label = "add" THEN 1 ELSE 0)
    BY <1>2, AttemptsAreNat DEF LocalsAreTyped
  <2> QED
    BY <1>1, <1>5, <2>1, <2>2, AttemptsAreNat, CountsAreNat DEF FailuresCounted
<1>8. RoomForAdmitted'
  <2> SUFFICES ASSUME NEW s \in Scopes
               PROVE  Attempts(s)' + Cardinality(Admitted(s)') <=
                          Limit - 1 + Cardinality(Callers(s)')
    BY DEF RoomForAdmitted
  <2>1. /\ Cardinality(Admitted(s)') =
              Cardinality(Admitted(s)) - In(c, Admitted(s)) + In(c, Admitted(s)')
        /\ Callers(s)' = Callers(s)
        /\ s # scope[c] => In(c, Admitted(s)) = 0 /\ In(c, Admitted(s)') = 0
        /\ s = scope[c] =>
              /\ In(c, Admitted(s)) = IF pc[c] = "verify" THEN 1 ELSE 0
              /\ In(c, Admitted(s)') = IF label \in {"verify", "reset", "add"} THEN 1 ELSE 0
    BY <1>1, MoveCounts
  <2>2. CASE s # scope[c] \/ pc[c] = "verify" \/ label \notin {"verify", "reset", "add"}
    BY <1>5, <2>1, <2>2, AttemptsAreNat, CountsAreNat DEF RoomForAdmitted
  <2>3. CASE s = scope[c] /\ Attempts(s) < Limit
    <3>1. Callers(s)' \in SUBSET Clients /\ Admitted(s)' \in SUBSET Callers(s)'
      BY DEF Callers, Admitted
    <3>2. Cardinality(Admitted(s)') <= Cardinality(Callers(s)')
          /\ Cardinality(Admitted(s)') \in Nat /\ Cardinality(Callers(s)') \in Nat
      BY <3>1, SubsetCounts, CallersAreFinite
    <3> QED
      BY <1>5, <2>3, <3>2, AttemptsAreNat
  <2> QED
    BY <1>2, <2>2, <2>3
<1> QED
  BY <1>4, <1>5, <1>6, <1>7, <1>8

\* What one step of a record does to its scope: the failure moves from the records
\* under way to the count, or the count starts again after it was lost.
LEMMA RecordFacts ==
    ASSUME Inv, NEW c \in Clients, record_mfa_throttle_failure(c),
           NEW s \in Scopes, s = scope[c], NEW label, label = pc'[c]
    PROVE  /\ label \in Labels /\ Moves(c, label)
           /\ UNCHANGED <<failures, torn>>
           /\ cache' \in [Scopes -> Nat \cup {NoEntry}] /\ ttl' \in [Scopes -> 0..Period]
           /\ \A t \in Scopes \ {s} : cache'[t] = cache[t] /\ ttl'[t] = ttl[t]
           /\ pc[c] \in {"add", "incr", "set"}
           /\ \/ /\ label = "incr" /\ Attempts(s)' = Attempts(s)
                 /\ Present(s)' /\ ttl'[s] > 0
              \/ /\ label = "set" /\ cache' = cache /\ ttl' = ttl
                 /\ pc[c] = "incr" /\ ~Present(s)
              \/ /\ label = "commit" /\ Attempts(s)' = Attempts(s) + 1
                 /\ Present(s)' /\ ttl'[s] > 0
              \/ /\ label = "commit" /\ Attempts(s)' = 1 /\ pc[c] = "set"
                 /\ Present(s)' /\ ttl'[s] > 0
<1> USE DEF Inv
<1>1. scope[c] = s /\ NoEntry \notin Int /\ Period \in Nat /\ Period > 0
  BY NoEntryAssumption, PeriodAssumption DEF LocalsAreTyped
<1>2. UNCHANGED <<failures, torn>> /\ scope' = scope
  BY DEF record_mfa_throttle_failure, history
<1>3. Present(s) <=> ttl[s] > 0
  BY <1>1 DEF EntriesHaveTime
<1>4. CASE Add(c, s) /\ ttl' = IF Present(s) THEN ttl ELSE TtlStarted(s)
  BY <1>1, <1>2, <1>3, <1>4
     DEF Add, Added, TtlStarted, Goto, Moves, Labels, Present, Attempts, LocalsAreTyped
<1>5. CASE Incr(c, s) /\ ttl' = TtlKept(s)
  BY <1>1, <1>2, <1>3, <1>5
     DEF Incr, TtlKept, Goto, Moves, Labels, Present, Attempts, LocalsAreTyped
<1>6. CASE IncrRaises(c, s) /\ UNCHANGED ttl
  BY <1>1, <1>2, <1>6
     DEF IncrRaises, Goto, Moves, Labels, Present, Attempts, LocalsAreTyped
<1>7. CASE SetOne(c, s) /\ ttl' = TtlStarted(s)
  BY <1>1, <1>2, <1>7
     DEF SetOne, TtlStarted, Goto, Moves, Labels, Present, Attempts, LocalsAreTyped
<1> QED
  BY <1>4, <1>5, <1>6, <1>7 DEF record_mfa_throttle_failure

LEMMA RecordInv ==
    ASSUME Inv, NEW c \in Clients, record_mfa_throttle_failure(c)
    PROVE  Inv'
<1> USE DEF Inv
<1>0. PICK s \in Scopes : s = scope[c]
  BY DEF LocalsAreTyped
<1>0a. PICK label : label = pc'[c]
  OBVIOUS
<1>1. /\ label \in Labels /\ Moves(c, label)
      /\ UNCHANGED <<failures, torn>>
      /\ cache' \in [Scopes -> Nat \cup {NoEntry}] /\ ttl' \in [Scopes -> 0..Period]
      /\ \A t \in Scopes \ {s} : cache'[t] = cache[t] /\ ttl'[t] = ttl[t]
      /\ pc[c] \in {"add", "incr", "set"}
  BY <1>0, <1>0a, RecordFacts
<1>2. \/ /\ label = "incr" /\ Attempts(s)' = Attempts(s)
         /\ Present(s)' /\ ttl'[s] > 0
      \/ /\ label = "set" /\ cache' = cache /\ ttl' = ttl
         /\ pc[c] = "incr" /\ ~Present(s)
      \/ /\ label = "commit" /\ Attempts(s)' = Attempts(s) + 1
         /\ Present(s)' /\ ttl'[s] > 0
      \/ /\ label = "commit" /\ Attempts(s)' = 1 /\ pc[c] = "set"
         /\ Present(s)' /\ ttl'[s] > 0
  BY <1>0, <1>0a, RecordFacts
<1>3. \A t \in Scopes \ {s} : Attempts(t)' = Attempts(t) /\ Present(t)' = Present(t)
  BY <1>1 DEF Attempts, Present
<1>4. /\ label = "set" => Attempts(s)' = Attempts(s) /\ (Present(s)' <=> Present(s))
      /\ Present(s) => Present(s)'
  BY <1>2 DEF Attempts, Present
<1>5. pc[c] = "set" \/ label = "set" => torn[s]
  BY <1>0, <1>2 DEF LostIsTorn
<1>6. LocalsAreTyped'
  BY <1>1 DEF LocalsAreTyped, Moves
<1>7. EntriesHaveTime'
  BY <1>1, <1>2, <1>3, <1>4 DEF EntriesHaveTime
<1>8. LostIsTorn'
  <2> SUFFICES ASSUME NEW d \in Clients,
                      pc'[d] = "set" \/ (pc'[d] = "incr" /\ ~Present(scope[d])')
               PROVE  torn[scope[d]]
    BY <1>1 DEF LostIsTorn, Moves
  <2>1. CASE d = c
    BY <1>0, <1>0a, <1>1, <1>2, <1>5, <2>1 DEF Moves
  <2>2. CASE d # c
    <3>1. pc'[d] = pc[d] /\ scope[d] \in Scopes
      BY <1>1, <2>2 DEF Moves, LocalsAreTyped
    <3>2. Present(scope[d]) => Present(scope[d])'
      BY <1>1, <1>3, <1>4, <3>1 DEF Moves, Present
    <3> QED
      BY <3>1, <3>2 DEF LostIsTorn
  <2> QED
    BY <2>1, <2>2
<1>9. FailuresCounted'
  <2> SUFFICES ASSUME NEW t \in Scopes
               PROVE  LET counted == Attempts(t)' + Cardinality(Reporting(t)') IN
                      counted <= failures'[t] /\ (~torn'[t] => counted = failures'[t])
    BY DEF FailuresCounted
  <2>1. /\ Cardinality(Reporting(t)') =
              Cardinality(Reporting(t)) - In(c, Reporting(t)) + In(c, Reporting(t)')
        /\ t # s => In(c, Reporting(t)) = 0 /\ In(c, Reporting(t)') = 0
        /\ t = s => /\ In(c, Reporting(t)) = 1
                    /\ In(c, Reporting(t)') = IF label = "commit" THEN 0 ELSE 1
    BY <1>0, <1>1, <1>2, MoveCounts
  <2>2. CASE t # s
    BY <1>1, <1>3, <2>1, <2>2, AttemptsAreNat, CountsAreNat DEF FailuresCounted
  <2>3. CASE t = s
    BY <1>1, <1>2, <1>4, <1>5, <2>1, <2>3, AttemptsAreNat, CountsAreNat DEF FailuresCounted
  <2> QED
    BY <2>2, <2>3
<1>10. RoomForAdmitted'
  <2> SUFFICES ASSUME NEW t \in Scopes
               PROVE  Attempts(t)' + Cardinality(Admitted(t)') <=
                          Limit - 1 + Cardinality(Callers(t)')
    BY DEF RoomForAdmitted
  <2>1. /\ Cardinality(Admitted(t)') =
              Cardinality(Admitted(t)) - In(c, Admitted(t)) + In(c, Admitted(t)')
        /\ Callers(t)' = Callers(t)
        /\ t # s => In(c, Admitted(t)) = 0 /\ In(c, Admitted(t)') = 0
        /\ t = s => /\ In(c, Admitted(t)) = 1
                    /\ In(c, Admitted(t)') = IF label = "commit" THEN 0 ELSE 1
    BY <1>0, <1>1, <1>2, MoveCounts
  <2>2. CASE t # s
    BY <1>3, <2>1, <2>2, AttemptsAreNat, CountsAreNat DEF RoomForAdmitted
  <2>3. CASE t = s
    BY <1>2, <1>4, <2>1, <2>3, AttemptsAreNat, CountsAreNat DEF RoomForAdmitted
  <2> QED
    BY <2>2, <2>3
<1> QED
  BY <1>6, <1>7, <1>8, <1>9, <1>10

\* The entries of S are gone, and what was counted with them.
LEMMA ForgetFits ==
    ASSUME Inv, NEW S \in SUBSET Scopes, ForgetFailures(S), scope' = scope,
           cache' = [s \in Scopes |-> IF s \in S THEN NoEntry ELSE cache[s]],
           \A d \in Clients : pc'[d] \in {"add", "incr", "set"} <=> pc[d] \in {"add", "incr", "set"},
           \A d \in Clients : pc'[d] \in {"incr", "set"} => pc'[d] = pc[d],
           \A s \in Scopes : Admitted(s)' \subseteq Admitted(s)
    PROVE  /\ cache' \in [Scopes -> Nat \cup {NoEntry}]
           /\ failures' \in [Scopes -> 0..MaxFailures] /\ torn' \in [Scopes -> BOOLEAN]
           /\ \A s \in Scopes : Present(s)' <=> s \notin S /\ Present(s)
           /\ FailuresCounted' /\ RoomForAdmitted' /\ LostIsTorn'
<1> USE DEF Inv
<1>1. \A s \in Scopes : /\ Attempts(s)' = IF s \in S THEN 0 ELSE Attempts(s)
                        /\ Present(s)' <=> s \notin S /\ Present(s)
  BY DEF Attempts, Present
<1>2. \A s \in Scopes : Reporting(s)' = Reporting(s) /\ Callers(s)' = Callers(s)
  BY DEF Reporting, Callers
<1>3. \A s \in Scopes : /\ failures'[s] = IF s \in S THEN Cardinality(Reporting(s)) ELSE failures[s]
                        /\ torn'[s] = IF s \in S THEN Reporting(s) # {} ELSE torn[s]
  BY DEF ForgetFailures
<1>4. \A s \in Scopes : Cardinality(Reporting(s)) \in 0..MaxFailures
  <2> TAKE s \in Scopes
  <2>1. Attempts(s) + Cardinality(Reporting(s)) <= failures[s] /\ failures[s] \in 0..MaxFailures
    BY DEF FailuresCounted, LocalsAreTyped
  <2> QED
    BY <2>1, AttemptsAreNat, CountsAreNat, BoundAssumption
<1>5. /\ cache' \in [Scopes -> Nat \cup {NoEntry}]
      /\ failures' \in [Scopes -> 0..MaxFailures] /\ torn' \in [Scopes -> BOOLEAN]
  BY <1>4 DEF ForgetFailures, LocalsAreTyped
<1>6. FailuresCounted'
  <2> SUFFICES ASSUME NEW s \in Scopes
               PROVE  LET counted == Attempts(s)' + Cardinality(Reporting(s)') IN
                      counted <= failures'[s] /\ (~torn'[s] => counted = failures'[s])
    BY DEF FailuresCounted
  <2>1. Cardinality(Reporting(s)') = Cardinality(Reporting(s))
    BY <1>2
  <2> QED
    BY <1>1, <1>3, <2>1, CountsAreNat DEF FailuresCounted
<1>7. RoomForAdmitted'
  <2> SUFFICES ASSUME NEW s \in Scopes
               PROVE  Attempts(s)' + Cardinality(Admitted(s)') <=
                          Limit - 1 + Cardinality(Callers(s)')
    BY DEF RoomForAdmitted
  <2>1. /\ Cardinality(Admitted(s)') \in Nat
        /\ Cardinality(Admitted(s)') <= Cardinality(Admitted(s))
        /\ Callers(s)' = Callers(s)
    <3>1. Admitted(s) \in SUBSET Clients /\ Admitted(s)' \in SUBSET Admitted(s)
          /\ Admitted(s)' \in SUBSET Clients
      BY DEF Admitted
    <3> QED
      BY <1>2, <3>1, SubsetCounts, CallersAreFinite
  <2> QED
    BY <1>1, <2>1, AttemptsAreNat, CountsAreNat DEF RoomForAdmitted
<1>8. LostIsTorn'
  <2> SUFFICES ASSUME NEW d \in Clients,
                      pc'[d] = "set" \/ (pc'[d] = "incr" /\ ~Present(scope[d])')
               PROVE  torn'[scope[d]]
    BY DEF LostIsTorn
  <2>1. PICK s \in Scopes : s = scope[d]
    BY DEF LocalsAreTyped
  <2>2. CASE s \in S
    BY <1>3, <2>1, <2>2 DEF Reporting
  <2>3. CASE s \notin S
    <3>1. ~Present(scope[d])' => ~Present(s)
      BY <1>1, <2>1, <2>3
    <3> QED
      BY <1>3, <2>1, <2>3, <3>1 DEF LostIsTorn
  <2> QED
    BY <2>2, <2>3
<1> QED
  BY <1>1, <1>5, <1>6, <1>7, <1>8

LEMMA ResetInv ==
    ASSUME Inv, NEW c \in Clients, reset_mfa_throttle(c)
    PROVE  Inv'
<1> USE DEF Inv
<1>1. PICK s \in Scopes : s = scope[c]
  BY DEF LocalsAreTyped
<1>2. /\ pc[c] = "reset" /\ Moves(c, "commit") /\ ForgetFailures({s})
      /\ cache' = [cache EXCEPT ![s] = NoEntry]
      /\ ttl' = [ttl EXCEPT ![s] = 0]
  BY <1>1 DEF reset_mfa_throttle, Reset, Forgotten, Goto, Moves
<1>3. cache' = [t \in Scopes |-> IF t \in {s} THEN NoEntry ELSE cache[t]]
  BY <1>2 DEF LocalsAreTyped
<1>4. /\ \A d \in Clients : pc'[d] \in {"add", "incr", "set"} <=> pc[d] \in {"add", "incr", "set"}
      /\ \A d \in Clients : pc'[d] \in {"incr", "set"} => pc'[d] = pc[d]
      /\ \A t \in Scopes : Admitted(t)' \subseteq Admitted(t)
  BY <1>2 DEF Moves, LocalsAreTyped, Admitted
<1>5. /\ cache' \in [Scopes -> Nat \cup {NoEntry}]
      /\ failures' \in [Scopes -> 0..MaxFailures] /\ torn' \in [Scopes -> BOOLEAN]
      /\ \A t \in Scopes : Present(t)' <=> t \notin {s} /\ Present(t)
      /\ FailuresCounted' /\ RoomForAdmitted' /\ LostIsTorn'
  BY <1>2, <1>3, <1>4, ForgetFits DEF Moves
<1>6. LocalsAreTyped'
  BY <1>2, <1>5, PeriodAssumption DEF LocalsAreTyped, Moves, Labels
<1>7. EntriesHaveTime'
  BY <1>2, <1>5 DEF EntriesHaveTime, LocalsAreTyped
<1> QED
  BY <1>5, <1>6, <1>7

LEMMA TickInv ==
    ASSUME Inv, Tick
    PROVE  Inv'
<1> USE DEF Inv
<1> DEFINE S == {s \in Scopes : ttl[s] = 1}
<1>1. /\ ForgetFailures(S) /\ UNCHANGED <<pc, scope>>
      /\ ttl' = [s \in Scopes |-> IF ttl[s] \in 1..Period THEN ttl[s] - 1 ELSE ttl[s]]
      /\ cache' = [s \in Scopes |-> IF s \in S THEN NoEntry ELSE cache[s]]
  BY DEF Tick
<1>2. \A s \in Scopes : Admitted(s)' \subseteq Admitted(s)
  BY <1>1 DEF Admitted
<1>3. /\ cache' \in [Scopes -> Nat \cup {NoEntry}]
      /\ failures' \in [Scopes -> 0..MaxFailures] /\ torn' \in [Scopes -> BOOLEAN]
      /\ \A t \in Scopes : Present(t)' <=> t \notin S /\ Present(t)
      /\ FailuresCounted' /\ RoomForAdmitted' /\ LostIsTorn'
  <2> HIDE DEF S
  <2>1. S \in SUBSET Scopes
    BY DEF S
  <2> QED
    BY <1>1, <1>2, <2>1, ForgetFits
<1>4. \A s \in Scopes : ttl[s] \in 0..Period /\ ttl'[s] = IF ttl[s] = 0 THEN 0 ELSE ttl[s] - 1
  BY <1>1, PeriodAssumption DEF LocalsAreTyped
<1>5. LocalsAreTyped'
  <2>1. ttl' \in [Scopes -> 0..Period]
    BY <1>1, <1>4, PeriodAssumption
  <2> QED
    BY <1>1, <1>3, <2>1 DEF LocalsAreTyped
<1>6. EntriesHaveTime'
  BY <1>3, <1>4, PeriodAssumption DEF EntriesHaveTime
<1> QED
  BY <1>3, <1>5, <1>6

\* A caller that dies in a record leaves its failure uncounted.
LEMMA DieInv ==
    ASSUME Inv, NEW c \in Clients, Die(c)
    PROVE  Inv'
<1> USE DEF Inv
<1>1. PICK s \in Scopes : s = scope[c]
  BY DEF LocalsAreTyped
<1>2. /\ Moves(c, "idle") /\ UNCHANGED <<cache, ttl>>
      /\ \A d \in Clients : pc'[d] = IF d = c THEN "idle" ELSE pc[d]
  BY DEF Die, Goto, Moves, LocalsAreTyped
<1>3. /\ In(c, Reporting(s)) = 1 =>
            /\ torn' = [torn EXCEPT ![s] = @ \/ Present(s)]
            /\ failures' = [failures EXCEPT ![s] = IF Present(s) THEN @ ELSE @ - 1]
      /\ In(c, Reporting(s)) = 0 => torn' = torn /\ failures' = failures
      /\ In(c, Reporting(s)) \in {0, 1}
  BY <1>1 DEF Die, In, history
<1>4. \A t \in Scopes : Attempts(t)' = Attempts(t) /\ Present(t)' = Present(t)
  BY <1>2 DEF Attempts, Present
<1>5. \A t \in Scopes :
         /\ Cardinality(Reporting(t)') = Cardinality(Reporting(t)) - In(c, Reporting(t))
         /\ Cardinality(Admitted(t)') <= Cardinality(Admitted(t))
         /\ Cardinality(Admitted(t)') \in Nat
         /\ Callers(t)' = Callers(t)
         /\ t # s => In(c, Reporting(t)) = 0
  <2> TAKE t \in Scopes
  <2>1. /\ Cardinality(Reporting(t)') =
              Cardinality(Reporting(t)) - In(c, Reporting(t)) + In(c, Reporting(t)')
        /\ Callers(t)' = Callers(t)
        /\ t # s => In(c, Reporting(t)) = 0 /\ In(c, Reporting(t)') = 0
        /\ t = s => In(c, Reporting(t)') = 0
    BY <1>1, <1>2, MoveCounts DEF Labels
  <2>2. Admitted(t) \in SUBSET Clients /\ Admitted(t)' \in SUBSET Admitted(t)
        /\ Admitted(t)' \in SUBSET Clients
    BY <1>2 DEF Admitted, Moves
  <2> QED
    BY <2>1, <2>2, SubsetCounts, CallersAreFinite, CountsAreNat DEF In
<1>6. \A t \in Scopes :
         /\ torn[t] => torn'[t]
         /\ torn'[t] => torn[t] \/ (t = s /\ In(c, Reporting(s)) = 1 /\ Present(s))
         /\ t = s /\ In(c, Reporting(s)) = 1 /\ Present(s) => torn'[t]
         /\ failures'[t] = IF t = s /\ In(c, Reporting(s)) = 1 /\ ~Present(s)
                             THEN failures[t] - 1 ELSE failures[t]
  BY <1>3 DEF LocalsAreTyped
<1>7. FailuresCounted'
  <2> SUFFICES ASSUME NEW t \in Scopes
               PROVE  LET counted == Attempts(t)' + Cardinality(Reporting(t)') IN
                      counted <= failures'[t] /\ (~torn'[t] => counted = failures'[t])
    BY DEF FailuresCounted
  <2>1. /\ Attempts(t) + Cardinality(Reporting(t)) <= failures[t]
        /\ ~torn[t] => Attempts(t) + Cardinality(Reporting(t)) = failures[t]
        /\ Attempts(t) \in Nat /\ failures[t] \in Nat /\ Cardinality(Reporting(t)) \in Nat
        /\ ~Present(t) => Attempts(t) = 0
    BY AttemptsAreNat, CountsAreNat DEF FailuresCounted
  <2>2. Attempts(t)' = Attempts(t)
        /\ Cardinality(Reporting(t)') = Cardinality(Reporting(t)) - In(c, Reporting(t))
    BY <1>4, <1>5
  <2>3. CASE t # s \/ In(c, Reporting(s)) = 0
    <3>1. In(c, Reporting(t)) = 0 /\ failures'[t] = failures[t]
      BY <1>5, <1>6, <2>3
    <3> QED
      BY <1>6, <2>1, <2>2, <3>1
  <2>4. CASE t = s /\ In(c, Reporting(s)) = 1 /\ Present(s)
    BY <1>6, <2>1, <2>2, <2>4
  <2>5. CASE t = s /\ In(c, Reporting(s)) = 1 /\ ~Present(s)
    BY <1>6, <2>1, <2>2, <2>5
  <2> QED
    BY <1>3, <2>3, <2>4, <2>5
<1>8. RoomForAdmitted'
  BY <1>4, <1>5, AttemptsAreNat, CountsAreNat DEF RoomForAdmitted
<1>9. LostIsTorn'
  <2> SUFFICES ASSUME NEW d \in Clients,
                      pc'[d] = "set" \/ (pc'[d] = "incr" /\ ~Present(scope[d])')
               PROVE  torn'[scope[d]]
    BY <1>2 DEF LostIsTorn, Moves
  <2>1. PICK t \in Scopes : t = scope[d]
    BY DEF LocalsAreTyped
  <2>2. ~Present(scope[d])' => ~Present(t)
    BY <1>2, <2>1 DEF Present, Moves
  <2>3. torn[t]
    BY <1>2, <2>1, <2>2 DEF LostIsTorn
  <2> QED
    BY <1>6, <2>1, <2>3
<1>10. LocalsAreTyped' /\ EntriesHaveTime'
  <2>1. \A t \in Scopes : failures'[t] \in 0..MaxFailures
    <3> TAKE t \in Scopes
    <3>1. /\ Attempts(t) + Cardinality(Reporting(t)) <= failures[t]
          /\ failures[t] \in 0..MaxFailures
      BY DEF FailuresCounted, LocalsAreTyped
    <3>2. Cardinality(Reporting(t)') \in Nat
      BY CallersAreFinite DEF Reporting
    <3>3. In(c, Reporting(s)) = 1 /\ t = s => failures[t] >= 1
      BY <1>5, <3>1, <3>2, AttemptsAreNat, CountsAreNat
    <3> QED
      BY <1>6, <3>1, <3>3, BoundAssumption
  <2>2. failures' \in [Scopes -> 0..MaxFailures] /\ torn' \in [Scopes -> BOOLEAN]
    BY <1>3, <2>1 DEF LocalsAreTyped
  <2> QED
    BY <1>2, <1>4, <2>2 DEF LocalsAreTyped, EntriesHaveTime, Moves, Labels
<1> QED
  BY <1>7, <1>8, <1>9, <1>10

LEMMA NextInv == Inv /\ [Next]_vars => Inv'
<1> SUFFICES ASSUME Inv, [Next]_vars PROVE Inv'
  OBVIOUS
<1>1. ASSUME NEW c \in Clients, Start(c) \/ Step(c) PROVE Inv'
  BY <1>1, QuietInv, ResetInv, RecordInv DEF Step
<1>2. ASSUME NEW c \in Clients, Die(c) PROVE Inv'
  BY <1>2, DieInv
<1>3. CASE Tick
  BY <1>3, TickInv
<1>4. CASE UNCHANGED vars
  BY <1>4 DEF vars, history, Inv, LocalsAreTyped, EntriesHaveTime, FailuresCounted,
              RoomForAdmitted, LostIsTorn, Attempts, Present, Reporting, Admitted, Callers
<1> QED
  BY <1>1, <1>2, <1>3, <1>4 DEF Next

(***************************************************************************)
(* Results.                                                                *)
(***************************************************************************)
\* Inv is an invariant of throttling.py: counts, records under way and reported
\* failures go together, however the calls on the cache interleave.
THEOREM Invariance == Spec => []Inv
<1>1. Init => Inv
  BY InitInv
<1>2. Inv /\ [Next]_vars => Inv'
  BY NextInv
<1> QED
  BY <1>1, <1>2, PTL DEF Spec

\* No record of record_mfa_throttle_failure is lost or invented.
THEOREM CountIsRight == Spec => []FailuresCounted
<1>1. Inv => FailuresCounted
  BY DEF Inv
<1> QED
  BY <1>1, Invariance, PTL

\* Callers that check_mfa_throttle has let through at once take the count beyond the
\* limit by their number less one at most.
THEOREM Overshoot == Spec => []OvershootBounded
<1>1. Inv => OvershootBounded
  <2> SUFFICES ASSUME Inv, NEW s \in Scopes
               PROVE  Attempts(s) <= Limit - 1 + Cardinality({c \in Clients : scope[c] = s})
    BY DEF OvershootBounded
  <2>1. Attempts(s) + Cardinality(Admitted(s)) <= Limit - 1 + Cardinality(Callers(s))
    BY DEF Inv, RoomForAdmitted
  <2> QED
    BY <2>1, AttemptsAreNat, CountsAreNat DEF Inv, Callers
<1> QED
  BY <1>1, Invariance, PTL

\* Every variable of the throttle keeps its type, and an entry is there as long as
\* it has time left.
THEOREM TypeCorrect == Spec => []TypeOK
<1>1. Inv => TypeOK
  <2> SUFFICES ASSUME Inv PROVE TypeOK
    OBVIOUS
  <2>1. \A s \in Scopes : cache[s] \in 0..(Limit + Cardinality(Clients)) \cup {NoEntry}
    <3> TAKE s \in Scopes
    <3>1. /\ Attempts(s) + Cardinality(Admitted(s)) <= Limit - 1 + Cardinality(Callers(s))
          /\ Attempts(s) \in Nat /\ Limit \in Nat
          /\ cache[s] = NoEntry \/ Attempts(s) = cache[s]
      BY AttemptsAreNat DEF Inv, RoomForAdmitted, Attempts
    <3>2. /\ Cardinality(Callers(s)) <= Cardinality(Clients) /\ Cardinality(Clients) \in Nat
          /\ Cardinality(Callers(s)) \in Nat /\ Cardinality(Admitted(s)) \in Nat
      <4>1. Callers(s) \in SUBSET Clients /\ Clients \in SUBSET Clients
        BY DEF Callers
      <4> QED
        BY <4>1, SubsetCounts, CallersAreFinite, CountsAreNat
    <3> QED
      BY <3>1, <3>2
  <2>2. cache \in [Scopes -> 0..(Limit + Cardinality(Clients)) \cup {NoEntry}]
    BY <2>1 DEF Inv, LocalsAreTyped
  <2> QED
    BY <2>2 DEF Inv, LocalsAreTyped, EntriesHaveTime, TypeOK
<1> QED
  BY <1>1, Invariance, PTL

\* Once a scope is locked and nobody is admitted, check_mfa_throttle admits nobody and
\* nothing but its expiry touches the entry.
THEOREM SettledLockout == Spec => SettledLockoutHolds
<1> DEFINE Holds == \A s \in Scopes :
               Locked(s) /\ Admitted(s) = {} =>
                   \/ cache'[s] = cache[s] /\ Admitted(s)' = {}
                   \/ cache'[s] = NoEntry /\ ttl[s] = 1
<1>1. Inv /\ [Next]_vars => [Holds]_vars
  <2> SUFFICES ASSUME Inv, Next, NEW s \in Scopes, Locked(s), Admitted(s) = {}
               PROVE  \/ cache'[s] = cache[s] /\ Admitted(s)' = {}
                      \/ cache'[s] = NoEntry /\ ttl[s] = 1
    OBVIOUS
  <2>1. \A c \in Clients : scope[c] = s => pc[c] \in {"idle", "throttle", "commit"}
    BY DEF Admitted, Inv, LocalsAreTyped, Labels
  <2>2. CASE Tick
    BY <2>2 DEF Tick, Admitted
  <2>3. ASSUME NEW c \in Clients, Start(c) \/ Step(c) \/ Die(c)
        PROVE  cache'[s] = cache[s] /\ Admitted(s)' = {}
    <3>1. CASE scope[c] = s
      <4>1. /\ cache' = cache /\ scope' = scope
            /\ \E label \in {"idle", "throttle", "commit"} : pc' = [pc EXCEPT ![c] = label]
        BY <2>1, <2>3, <3>1, AttemptsAreNat
           DEF Inv, Start, Step, Check, PassCheck, FailCheck, ThrottleAllows, Succeed, Fail,
               reset_mfa_throttle, Reset, record_mfa_throttle_failure, Add, Incr, IncrRaises,
               SetOne, Finish, Die, Goto, Locked
      <4> QED
        BY <2>1, <4>1 DEF Admitted, Inv, LocalsAreTyped
    <3>2. CASE scope[c] # s
      <4>1. /\ cache'[s] = cache[s] /\ scope' = scope
            /\ \E label : pc' = [pc EXCEPT ![c] = label]
        BY <2>3, <3>2
           DEF Inv, LocalsAreTyped, Start, Step, Check, PassCheck, FailCheck, Succeed, Fail,
               reset_mfa_throttle, Reset, Forgotten, record_mfa_throttle_failure, Add, Added,
               Incr, IncrRaises, SetOne, Finish, Die, Goto
      <4> QED
        BY <3>2, <4>1 DEF Admitted, Inv, LocalsAreTyped
    <3> QED
      BY <3>1, <3>2
  <2> QED
    BY <2>2, <2>3 DEF Next
<1> QED
  BY <1>1, Invariance, PTL DEF Spec, SettledLockoutHolds

\* Of the calls of record_mfa_throttle_failure only the set() of a record that found
\* the entry gone gives an entry that is there more time.
THEOREM FixedWindow == Spec => WindowIsFixed
<1> DEFINE Fixed == \A s \in Scopes :
               Present(s) /\ ttl'[s] > ttl[s] =>
                   cache'[s] = 1 /\ \E c \in Clients : scope[c] = s /\ pc[c] = "set"
<1>1. Inv /\ [Next]_vars => [Fixed]_vars
  <2> SUFFICES ASSUME Inv, Next, NEW s \in Scopes, Present(s), ttl'[s] > ttl[s]
               PROVE  cache'[s] = 1 /\ \E c \in Clients : scope[c] = s /\ pc[c] = "set"
    OBVIOUS
  <2>1. ttl[s] \in 0..Period /\ Period \in Nat
    BY PeriodAssumption DEF Inv, LocalsAreTyped
  <2>2. ~Tick
    BY <2>1 DEF Tick
  <2>3. ASSUME NEW c \in Clients, Start(c) \/ Step(c) \/ Die(c)
        PROVE  scope[c] = s /\ SetOne(c, s)
    BY <2>1, <2>3
       DEF Inv, LocalsAreTyped, Start, Step, Check, Succeed, Fail, reset_mfa_throttle,
           record_mfa_throttle_failure, TtlStarted, TtlKept, Finish, Die
  <2> QED
    BY <2>2, <2>3 DEF Next, SetOne, Inv, LocalsAreTyped
<1> QED
  BY <1>1, Invariance, PTL DEF Spec, WindowIsFixed
=============================================================================
