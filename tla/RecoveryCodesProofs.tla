------------------------ MODULE RecoveryCodesProofs ------------------------
(***************************************************************************)
(* Proofs about RecoveryCodes, for any callers, sizes and numbers of       *)
(* batches, and choices of arguments.                                      *)
(***************************************************************************)
EXTENDS RecoveryCodes, FiniteSetTheorems, TLAPS

(***************************************************************************)
(* Rows and their locks.                                                   *)
(***************************************************************************)
LEMMA RowsDiffer ==
    /\ \A k \in Codes : CodeRow(k) \in Rows
    /\ \A b \in Batches : BatchRow(b) \in Rows
    /\ \A k, m : CodeRow(k) = CodeRow(m) => k = m
    /\ \A b, a : BatchRow(b) = BatchRow(a) => b = a
    /\ \A k, b : CodeRow(k) # BatchRow(b)
BY DEF CodeRow, BatchRow, Rows

\* Batches that were inserted have their numbers.
LEMMA InsertedFit ==
    ASSUME TypeOK
    PROVE  /\ issued \in Nat /\ issued <= MaxBatches
           /\ batches \subseteq Batches
           /\ \A k \in CodesOf(batches) : k \in Codes /\ BatchOf(k) \in Batches
<1>1. batches \subseteq 1..issued /\ issued \in 0..MaxBatches
  BY DEF TypeOK
<1>2. issued \in Nat /\ issued <= MaxBatches
  BY <1>1, BatchAssumption
<1>3. batches \subseteq Batches
  BY <1>1, <1>2, BatchAssumption DEF Batches
<1> QED
  BY <1>2, <1>3 DEF CodesOf

LEMMA NothingWritten == NoWrites \in Writes
BY DEF NoWrites, Writes

(***************************************************************************)
(* Room for the batches that calls under way will insert.                  *)
(***************************************************************************)
LEMMA InsertingIsFinite ==
    /\ IsFiniteSet(Inserting)
    /\ Cardinality(Inserting) \in Nat
    /\ \A S \in SUBSET Inserting :
          IsFiniteSet(S) /\ Cardinality(S) \in Nat /\ Cardinality(S) <= Cardinality(Inserting)
<1>1. Inserting \in SUBSET Clients
  BY DEF Inserting
<1>2. IsFiniteSet(Inserting)
  BY <1>1, FS_Subset, ClientsAssumption
<1> QED
  BY <1>2, FS_Subset, FS_CardinalityType

\* A step that starts no insertion and inserts nothing.
LEMMA RoomKept ==
    ASSUME TypeOK, BatchesFit, Inserting' \subseteq Inserting, issued' = issued
    PROVE  BatchesFit'
BY InsertedFit, InsertingIsFinite, BatchAssumption DEF BatchesFit

\* A call that will insert a batch starts while there is room for it.
LEMMA RoomTaken ==
    ASSUME TypeOK, BatchRoom, NEW c, Inserting' \subseteq Inserting \cup {c}, issued' = issued
    PROVE  BatchesFit'
<1> DEFINE more == Inserting \cup {c}
<1>1. IsFiniteSet(more) /\ Cardinality(more) \in Nat
      /\ Cardinality(more) <= Cardinality(Inserting) + 1
  <2>1. IsFiniteSet(more)
        /\ Cardinality(more) = IF c \in Inserting THEN Cardinality(Inserting)
                                                  ELSE Cardinality(Inserting) + 1
    BY InsertingIsFinite, FS_AddElement
  <2> QED
    BY <2>1, InsertingIsFinite
<1>2. Cardinality(Inserting') <= Cardinality(more) /\ Cardinality(Inserting') \in Nat
  BY <1>1, FS_Subset, FS_CardinalityType
<1> QED
  BY <1>1, <1>2, InsertedFit, InsertingIsFinite, BatchAssumption DEF BatchesFit, BatchRoom

\* The batch is inserted.
LEMMA RoomUsed ==
    ASSUME TypeOK, BatchesFit, NEW c \in Inserting,
           Inserting' \subseteq Inserting \ {c}, issued' = issued + 1
    PROVE  BatchesFit' /\ issued + 1 <= MaxBatches
<1> DEFINE less == Inserting \ {c}
<1>1. IsFiniteSet(less) /\ Cardinality(less) \in Nat
      /\ Cardinality(less) = Cardinality(Inserting) - 1
  BY InsertingIsFinite, FS_RemoveElement, FS_CardinalityType
<1>2. Cardinality(Inserting') <= Cardinality(less) /\ Cardinality(Inserting') \in Nat
  BY <1>1, FS_Subset, FS_CardinalityType
<1> QED
  BY <1>1, <1>2, InsertedFit, InsertingIsFinite, BatchAssumption DEF BatchesFit

(***************************************************************************)
(* What a client relies on survives the steps of the others: they keep its *)
(* locks, and the rows it has locked.                                      *)
(***************************************************************************)
TablesGrow ==
    /\ issued' \in Nat /\ issued <= issued'
    /\ batches \subseteq batches' /\ replaced_batches \subseteq replaced_batches'
    /\ used \subseteq used' /\ replaced \subseteq replaced'

RowsKept(d) ==
    /\ \A r \in Rows : lock[r] = d => lock'[r] = d
    /\ \A k \in Codes : lock[CodeRow(k)] = d =>
          (k \in used' => k \in used) /\ (k \in replaced' => k \in replaced)
    /\ \A b \in Batches : lock[BatchRow(b)] = d =>
          (b \in replaced_batches' => b \in replaced_batches)

LocalsKept(d) ==
    /\ pc'[d] = pc[d] /\ call'[d] = call[d] /\ result'[d] = result[d]
    /\ found'[d] = found[d] /\ todo'[d] = todo[d] /\ wrote'[d] = wrote[d]

\* A code that has been spent stays spent.
LEMMA SpentForGood ==
    ASSUME TablesGrow, NEW k \in CodesOf(batches)
    PROVE  /\ k \in CodesOf(batches')
           /\ Historical(k) => Historical(k)'
           /\ ~Active(k) => ~Active(k)'
BY DEF TablesGrow, CodesOf, Historical, Active

LEMMA OtherFits ==
    ASSUME TypeOK, LocalsAreTyped, NEW d \in Clients, ClientFits(d),
           TablesGrow, RowsKept(d), LocalsKept(d)
    PROVE  ClientFits(d)'
<1> USE DEF TablesGrow, LocalsKept, ClientFits
<1>1. CodesOf(batches) \subseteq CodesOf(batches')
  BY DEF CodesOf
<1>2. \A k \in Codes : Claimed(d, CodeRow(k)) => Claimed(d, CodeRow(k))'
  BY RowsDiffer DEF Claimed, RowsKept
<1>3. \A b \in Batches : Claimed(d, BatchRow(b)) => Claimed(d, BatchRow(b))'
  BY RowsDiffer DEF Claimed, RowsKept
<1>4. HasRows(d)'
  BY <1>1, <1>2, <1>3, InsertedFit DEF HasRows
<1>5. \A k \in wrote[d].used :
         /\ k \in Codes /\ BatchOf(k) \in Batches
         /\ Active(k)'
         /\ lock'[CodeRow(k)] = d
         /\ lock'[BatchRow(BatchOf(k))] = d
  BY RowsDiffer, InsertedFit DEF WritesFit, Active, RowsKept, LocalsAreTyped, Writes
<1>6. \A k \in wrote[d].replaced : Replaceable(k)' /\ lock'[CodeRow(k)] = d
  BY RowsDiffer DEF WritesFit, Replaceable, RowsKept, LocalsAreTyped, Writes
<1>7. \A b \in wrote[d].replaced_batches :
         b \in batches' \ replaced_batches' /\ lock'[BatchRow(b)] = d
  BY RowsDiffer, InsertedFit DEF WritesFit, RowsKept
<1>8. wrote[d].batches \subseteq 1..issued'
  BY InsertedFit DEF WritesFit
<1>9. WritesFit(d)'
  BY <1>5, <1>6, <1>7, <1>8 DEF WritesFit
<1>10. KnownFits(d)'
  BY DEF KnownFits, CodesOf
<1>11. AuditFits(d)'
  BY DEF AuditFits
<1>12. AnswerFits(d)'
  BY SpentForGood DEF AnswerFits
<1> QED
  BY <1>4, <1>9, <1>10, <1>11, <1>12

\* A step of client c that has the parts of the invariant that it can disturb.
LEMMA StepFits ==
    ASSUME Inv, NEW c \in Clients,
           TypeOK', LocalsAreTyped', BatchesFit', ClientFits(c)',
           TablesGrow, \A d \in Clients \ {c} : RowsKept(d) /\ LocalsKept(d),
           OneFate', ReplacedWhole', HistoryFits', AuditExplainsCodes'
    PROVE  Inv'
<1>1. ASSUME NEW d \in Clients PROVE ClientFits(d)'
  BY <1>1, OtherFits DEF Inv
<1> QED
  BY <1>1 DEF Inv

\* One that leaves the tables and the locks alone.
LEMMA QuietStepFits ==
    ASSUME Inv, NEW c \in Clients,
           UNCHANGED <<tables, issued, lock, history>>,
           TypeOK', LocalsAreTyped', BatchesFit', ClientFits(c)',
           \A d \in Clients \ {c} : LocalsKept(d)
    PROVE  Inv'
<1> USE DEF Inv, tables, history
<1>1. TablesGrow
  BY InsertedFit DEF TablesGrow
<1>2. \A d \in Clients : RowsKept(d)
  BY DEF RowsKept
<1>3. OneFate' /\ ReplacedWhole' /\ HistoryFits' /\ AuditExplainsCodes'
  BY DEF OneFate, ReplacedWhole, HistoryFits, AuditExplainsCodes, CodesOf
<1> QED
  BY <1>1, <1>2, <1>3, StepFits

(***************************************************************************)
(* The steps.                                                              *)
(***************************************************************************)
LEMMA InitInv == Init => Inv
<1> SUFFICES ASSUME Init PROVE Inv
  OBVIOUS
<1> USE DEF Init
<1>1. TypeOK
  BY BatchAssumption DEF TypeOK, CodesOf
<1>2. LocalsAreTyped
  BY NothingWritten DEF LocalsAreTyped, Verifying
<1>3. BatchesFit
  <2>1. Inserting = {}
    BY DEF Inserting
  <2> QED
    BY <2>1, FS_EmptySet, BatchAssumption DEF BatchesFit
<1>4. \A c \in Clients : ClientFits(c)
  BY DEF ClientFits, HasRows, WritesFit, KnownFits, AuditFits, AnswerFits, NoWrites, Verifying
<1>5. OneFate /\ ReplacedWhole /\ HistoryFits /\ AuditExplainsCodes
  BY DEF OneFate, ReplacedWhole, HistoryFits, AuditExplainsCodes, CodesOf
<1> QED
  BY <1>1, <1>2, <1>3, <1>4, <1>5 DEF Inv

\* An idle client has nothing, and starts a call with nothing.
LEMMA CallInv ==
    ASSUME Inv, NEW c \in Clients, CallVerify(c) \/ CallCreate(c) \/ CallReset(c)
    PROVE  Inv'
<1> USE DEF Inv
<1>1. /\ UNCHANGED <<tables, issued, lock, cache, result, found, todo, wrote, history>>
      /\ pc[c] = "idle"
      /\ \E label, x :
            /\ pc' = [pc EXCEPT ![c] = label]
            /\ call' = [call EXCEPT ![c] = x]
            /\ \/ /\ label \in {"verify", "throttle"} /\ x \in VerifyCalls
                  /\ x.code \in CodesOf(batches) \cup {Junk}
               \/ label = "insert" /\ x \in CreateCalls /\ BatchRoom
               \/ label = "replace" /\ x \in ResetCalls /\ BatchRoom
  <2>1. CASE CallVerify(c)
    <3>1. PICK code \in CodesOf(batches) \cup {Junk}, s \in ScopeChoices, a \in AuditChoices :
            /\ call' = [call EXCEPT ![c] =
                  [kind |-> "verify", code |-> code, scope |-> s, persist_audit |-> a]]
            /\ Goto(c, IF s = NoScope THEN "verify" ELSE "throttle")
      BY <2>1 DEF CallVerify
    <3> DEFINE x == [kind |-> "verify", code |-> code, scope |-> s, persist_audit |-> a]
               label == IF s = NoScope THEN "verify" ELSE "throttle"
    <3>2. x \in VerifyCalls /\ x.code \in CodesOf(batches) \cup {Junk}
      BY DEF VerifyCalls, CodesOf
    <3>3. /\ call' = [call EXCEPT ![c] = x] /\ pc' = [pc EXCEPT ![c] = label]
          /\ label \in {"verify", "throttle"}
      BY <3>1 DEF Goto
    <3> HIDE DEF x, label
    <3> QED
      BY <2>1, <3>2, <3>3 DEF CallVerify
  <2>2. CASE CallCreate(c)
    <3>1. [kind |-> "create"] \in CreateCalls
      BY DEF CreateCalls
    <3> QED
      BY <2>2, <3>1 DEF CallCreate, Goto
  <2>3. CASE CallReset(c)
    <3>1. PICK a \in AuditChoices :
            call' = [call EXCEPT ![c] = [kind |-> "reset", known |-> {}, persist_audit |-> a]]
      BY <2>3 DEF CallReset
    <3>2. [kind |-> "reset", known |-> {}, persist_audit |-> a] \in ResetCalls
      BY DEF ResetCalls
    <3> QED
      BY <2>3, <3>1, <3>2 DEF CallReset, Goto
  <2> QED
    BY <2>1, <2>2, <2>3
<1>2. PICK label, x :
         /\ pc' = [pc EXCEPT ![c] = label]
         /\ call' = [call EXCEPT ![c] = x]
         /\ \/ /\ label \in {"verify", "throttle"} /\ x \in VerifyCalls
               /\ x.code \in CodesOf(batches) \cup {Junk}
            \/ label = "insert" /\ x \in CreateCalls /\ BatchRoom
            \/ label = "replace" /\ x \in ResetCalls /\ BatchRoom
  BY <1>1
<1>3. /\ pc'[c] = label /\ call'[c] = x
      /\ \A d \in Clients \ {c} : pc'[d] = pc[d] /\ call'[d] = call[d]
      /\ DOMAIN call' = Clients
      /\ found[c] = {} /\ todo[c] = {} /\ wrote[c] = NoWrites
  BY <1>1, <1>2 DEF LocalsAreTyped, ClientFits, HasRows, WritesFit
<1>4. \A d \in Clients \ {c} : LocalsKept(d)
  BY <1>1, <1>3 DEF LocalsKept
<1>5. TypeOK'
  BY <1>1 DEF TypeOK, tables, history, CodesOf
<1>6. LocalsAreTyped'
  BY <1>1, <1>2, <1>3 DEF LocalsAreTyped, Verifying
<1>7. BatchesFit'
  <2>1. CASE x \in VerifyCalls
    <3>1. Inserting' \subseteq Inserting
      BY <1>1, <1>3, <2>1 DEF Inserting, VerifyCalls
    <3> QED
      BY <1>1, <3>1, RoomKept
  <2>2. CASE BatchRoom
    <3>1. Inserting' \subseteq Inserting \cup {c}
      BY <1>1, <1>3 DEF Inserting
    <3> QED
      BY <1>1, <2>2, <3>1, RoomTaken
  <2> QED
    BY <1>2, <2>1, <2>2
<1>8. ClientFits(c)'
  <2>1. HasRows(c)' /\ WritesFit(c)' /\ KnownFits(c)' /\ AuditFits(c)'
    BY <1>1, <1>2, <1>3 DEF HasRows, WritesFit, KnownFits, AuditFits, NoWrites
  <2>2. AnswerFits(c)'
    BY <1>1, <1>2, <1>3 DEF AnswerFits, Verifying, CodesOf, tables
  <2> QED
    BY <2>1, <2>2 DEF ClientFits
<1> QED
  BY <1>1, <1>4, <1>5, <1>6, <1>7, <1>8, QuietStepFits

\* A row is locked that nobody else has.
LEMMA LockInv ==
    ASSUME Inv, NEW c \in Clients, LockRow(c)
    PROVE  Inv'
<1> USE DEF Inv
<1>1. PICK r \in NextRows(c) :
         /\ RowFree(c, r)
         /\ lock' = [lock EXCEPT ![r] = c]
         /\ todo' = [todo EXCEPT ![c] = @ \ {r}]
  BY DEF LockRow
<1>2. UNCHANGED <<tables, issued, cache, pc, call, result, found, wrote, history>>
  BY DEF LockRow
<1>3. r \in todo[c] /\ r \in Rows
  BY <1>1 DEF NextRows, TypeOK
<1>4. /\ \A q \in Rows : lock'[q] = IF q = r THEN c ELSE lock[q]
      /\ \A q \in Rows : lock[q] = c => lock'[q] = c
      /\ \A d \in Clients \ {c}, q \in Rows : lock[q] = d => lock'[q] = d
      /\ todo'[c] = todo[c] \ {r}
      /\ \A d \in Clients \ {c} : todo'[d] = todo[d]
  BY <1>1, <1>3, ClientsAssumption DEF RowFree, TypeOK
<1>5. TypeOK'
  BY <1>1, <1>2, <1>3 DEF TypeOK, tables, history, CodesOf
<1>6. LocalsAreTyped'
  BY <1>2 DEF LocalsAreTyped
<1>7. BatchesFit'
  BY <1>2 DEF BatchesFit, Inserting
<1>8. ClientFits(c)'
  <2>1. \A q \in Rows : Claimed(c, q) => Claimed(c, q)'
    BY <1>4 DEF Claimed
  <2>2. HasRows(c)'
    BY <1>2, <1>4, <2>1, RowsDiffer, InsertedFit DEF ClientFits, HasRows, tables, CodesOf
  <2>3. WritesFit(c)'
    BY <1>2, <1>4, RowsDiffer, InsertedFit
       DEF ClientFits, WritesFit, Active, Replaceable, tables, LocalsAreTyped, Writes
  <2>4. KnownFits(c)'
    BY <1>2 DEF ClientFits, KnownFits, tables, CodesOf
  <2>5. AuditFits(c)' /\ AnswerFits(c)'
    BY <1>2 DEF ClientFits, AuditFits, AnswerFits, tables, CodesOf, Active, Historical
  <2> QED
    BY <2>2, <2>3, <2>4, <2>5 DEF ClientFits
<1>9. TablesGrow /\ \A d \in Clients \ {c} : RowsKept(d) /\ LocalsKept(d)
  BY <1>2, <1>4, InsertedFit DEF TablesGrow, RowsKept, LocalsKept, tables
<1>10. OneFate' /\ ReplacedWhole' /\ HistoryFits' /\ AuditExplainsCodes'
  BY <1>2 DEF OneFate, ReplacedWhole, HistoryFits, AuditExplainsCodes, CodesOf, tables, history
<1> QED
  BY <1>5, <1>6, <1>7, <1>8, <1>9, <1>10, StepFits

\* A verification moves on without a write: through the throttle, to a query, or
\* to a refusal.  The rows it has picked are the ones it has yet to lock.
VerifyMoves(c, label, K, rows, res) ==
    /\ pc' = [pc EXCEPT ![c] = label]
    /\ found' = [found EXCEPT ![c] = K]
    /\ todo' = [todo EXCEPT ![c] = rows]
    /\ result' = [result EXCEPT ![c] = res]
    /\ UNCHANGED <<tables, issued, lock, call, wrote, history>>

LEMMA VerifyMovesInv ==
    ASSUME Inv, NEW c \in Clients, pc[c] \in Verifying,
           NEW label \in Verifying \cup {"commit"}, NEW K \in SUBSET Int,
           NEW rows \in SUBSET Rows, NEW res \in Results \cup {None},
           VerifyMoves(c, label, K, rows, res),
           cache' \in [Scopes -> Nat \cup {NoEntry}],
           \/ label \notin {"active", "history"} /\ K = {} /\ rows = {}
           \/ /\ label \in {"active", "history"}
              /\ rows = Joined(K)
              /\ K \subseteq CodesOf(batches),
           wrote[c] = NoWrites \/ (pc[c] = "reset" /\ label = "commit" /\ res = result[c]),
           AnswerFits(c)'
    PROVE  Inv'
<1> USE DEF Inv, VerifyMoves
<1>1. /\ pc'[c] = label /\ found'[c] = K /\ todo'[c] = rows
      /\ call[c] \in VerifyCalls
      /\ \A d \in Clients \ {c} : LocalsKept(d)
  BY DEF LocalsAreTyped, LocalsKept, TypeOK
<1>2. TypeOK'
  BY DEF TypeOK, tables, history, CodesOf
<1>3. LocalsAreTyped'
  BY <1>1 DEF LocalsAreTyped, Verifying
<1>4. BatchesFit'
  <2>1. Inserting' \subseteq Inserting
    BY <1>1 DEF Inserting, VerifyCalls, LocalsKept
  <2> QED
    BY <2>1, RoomKept
<1>5. HasRows(c)'
  BY <1>1 DEF HasRows, Claimed, Joined, tables, CodesOf, Verifying
<1>6. WritesFit(c)'
  BY <1>1 DEF ClientFits, WritesFit, Active, Replaceable, tables, NoWrites, Verifying
<1>7. KnownFits(c)'
  BY <1>1 DEF KnownFits, VerifyCalls, ResetCalls, Verifying
<1>8. AuditFits(c)'
  <2>1. result'[c] = res /\ wrote'[c] = wrote[c]
    BY DEF TypeOK
  <2>2. CASE wrote[c] = NoWrites
    BY <2>1, <2>2 DEF AuditFits, NoWrites
  <2>3. CASE pc[c] = "reset" /\ res = result[c]
    <3>1. wrote[c].replaced_batches = {}
      BY <1>1 DEF ClientFits, WritesFit, VerifyCalls, ResetCalls
    <3> QED
      BY <1>1, <2>1, <2>3, <3>1 DEF ClientFits, AuditFits
  <2> QED
    BY <2>2, <2>3
<1> QED
  BY <1>1, <1>2, <1>3, <1>4, <1>5, <1>6, <1>7, <1>8, QuietStepFits DEF ClientFits

\* The cache stays a cache.
LEMMA CacheFits ==
    ASSUME cache \in [Scopes -> Nat \cup {NoEntry}], NEW s,
           \/ cache' = cache
           \/ cache' = [cache EXCEPT ![s] = NoEntry]
           \/ cache' = [cache EXCEPT ![s] = 0]
           \/ cache' = [cache EXCEPT ![s] = 1]
           \/ cache[s] # NoEntry /\ cache' = [cache EXCEPT ![s] = @ + 1]
    PROVE  cache' \in [Scopes -> Nat \cup {NoEntry}]
<1>1. CASE s \in Scopes
  BY <1>1
<1>2. CASE s \notin Scopes
  <2>1. cache' = cache
    BY <1>2
  <2> QED
    BY <2>1
<1> QED
  BY <1>1, <1>2

\* What a client that verifies has not picked or written.
LEMMA IdleLocals ==
    ASSUME Inv, NEW c \in Clients
    PROVE  /\ found = [found EXCEPT ![c] = found[c]]
           /\ todo = [todo EXCEPT ![c] = todo[c]]
           /\ result = [result EXCEPT ![c] = result[c]]
           /\ result[c] \in Results \cup {None}
           /\ pc[c] \in {"throttle", "verify", "add", "incr", "set"} =>
                 found[c] = {} /\ todo[c] = {} /\ wrote[c] = NoWrites
           /\ pc[c] \in {"throttle", "verify", "reset", "add", "incr", "set"} =>
                 found[c] = {} /\ todo[c] = {}
BY DEF Inv, TypeOK, LocalsAreTyped, ClientFits, HasRows, WritesFit

LEMMA ThrottleInv ==
    ASSUME Inv, NEW c \in Clients, CheckThrottle(c) \/ ResetThrottle(c) \/ RecordFailure(c)
    PROVE  Inv'
<1>1. cache' \in [Scopes -> Nat \cup {NoEntry}]
  <2>1. PICK s :
           \/ cache' = cache
           \/ cache' = [cache EXCEPT ![s] = NoEntry]
           \/ cache' = [cache EXCEPT ![s] = 0]
           \/ cache' = [cache EXCEPT ![s] = 1]
           \/ cache[s] # NoEntry /\ cache' = [cache EXCEPT ![s] = @ + 1]
    BY DEF CheckThrottle, PassCheck, FailCheck, ResetThrottle, RecordFailure,
           Reset, Forgotten, Add, Added, Incr, IncrRaises, SetOne
  <2> QED
    BY <2>1, CacheFits DEF Inv, TypeOK
<1>2. CASE CheckThrottle(c)
  <2>1. PICK label \in {"verify", "commit"}, res \in {result[c], Result("throttled", None)} :
           /\ VerifyMoves(c, label, {}, {}, res)
           /\ label = "commit" => res = Result("throttled", None)
    BY <1>2, IdleLocals
       DEF CheckThrottle, PassCheck, FailCheck, Goto, VerifyMoves
  <2>2. res \in Results \cup {None} /\ pc[c] = "throttle"
    BY <1>2, IdleLocals DEF Result, Results, CheckThrottle, PassCheck, FailCheck
  <2>3. AnswerFits(c)'
    BY <2>1, <2>2
       DEF VerifyMoves, Inv, TypeOK, ClientFits, AnswerFits, LocalsAreTyped, Verifying,
           Result, CodesOf, tables
  <2> QED
    BY <1>1, <2>1, <2>2, <2>3, IdleLocals, VerifyMovesInv DEF Verifying
<1>3. CASE ResetThrottle(c) \/ RecordFailure(c)
  <2>1. PICK label \in {"incr", "set", "commit"} : VerifyMoves(c, label, {}, {}, result[c])
    BY <1>3, IdleLocals
       DEF ResetThrottle, RecordFailure, Reset, Add, Incr, IncrRaises, SetOne, Goto,
           VerifyMoves, locals
  <2>2. /\ pc[c] \in {"reset", "add", "incr", "set"}
        /\ label \in {"incr", "set"} => pc[c] \in {"add", "incr"}
    BY <1>3, <2>1
       DEF ResetThrottle, RecordFailure, Reset, Add, Incr, IncrRaises, SetOne, Goto,
           VerifyMoves, Inv, LocalsAreTyped
  <2>3. pc[c] = "reset" => label = "commit"
    BY <2>2
  <2>4. AnswerFits(c)'
    BY <2>1, <2>2
       DEF VerifyMoves, Inv, TypeOK, ClientFits, AnswerFits, LocalsAreTyped, Verifying,
           CodesOf, Historical, Active, tables
  <2> QED
    BY <1>1, <2>1, <2>2, <2>3, <2>4, IdleLocals, VerifyMovesInv DEF Verifying
<1> QED
  BY <1>2, <1>3

\* The queries of a verification pick codes of batches that are there.  A code the
\* first one missed, or lost while it waited, has been spent: the second finds it.
LEMMA SelectInv ==
    ASSUME Inv, NEW c \in Clients, SelectActive(c) \/ SelectHistorical(c)
    PROVE  Inv'
<1> DEFINE K == IF pc[c] = "verify" THEN {k \in Codes : Active(k)} ELSE {k \in Codes : Historical(k)}
           label == IF pc[c] = "verify" THEN "active" ELSE "history"
<1>1. /\ VerifyMoves(c, label, K, Joined(K), result[c])
      /\ pc[c] \in {"verify", "active"} /\ cache' = cache /\ wrote[c] = NoWrites
      /\ pc[c] = "active" => ~(call[c].code \in found[c] /\ Active(call[c].code))
  <2>1. pc[c] \in {"verify", "active"} /\ wrote[c] = NoWrites
    BY DEF SelectActive, SelectHistorical, Arrived, Inv, ClientFits, WritesFit
  <2> QED
    BY <2>1, IdleLocals
       DEF SelectActive, SelectHistorical, Arrived, Statement, Goto, VerifyMoves
<1>2. /\ K \subseteq CodesOf(batches) /\ K \in SUBSET Int /\ Joined(K) \in SUBSET Rows
      /\ label \in {"active", "history"}
  <2>1. K \subseteq CodesOf(batches)
    BY DEF Active, Historical, CodesOf
  <2> QED
    BY <2>1, InsertedFit, RowsDiffer DEF Joined, Inv, Codes
<1>3. AnswerFits(c)'
  <2> DEFINE code == call[c].code
  <2>1. SUFFICES ASSUME call[c] \in VerifyCalls, code # Junk PROVE AnswerFits(c)'
    BY <1>1 DEF VerifyMoves, AnswerFits
  <2>2. code \in CodesOf(batches) /\ code \in Codes
    BY <1>1, <2>1 DEF Inv, ClientFits, AnswerFits, Verifying, CodesOf
  <2>3. pc'[c] = label /\ found'[c] = K /\ UNCHANGED <<tables, call>>
    BY <1>1 DEF VerifyMoves, Inv, LocalsAreTyped
  <2>4. CASE pc[c] = "verify"
    BY <2>2, <2>3, <2>4 DEF AnswerFits, Active, CodesOf, tables
  <2>5. CASE pc[c] = "active"
    <3>1. ~Active(code) /\ Historical(code)
      BY <1>1, <2>1, <2>2, <2>5 DEF Inv, ClientFits, AnswerFits, Verifying, Historical, CodesOf
    <3> QED
      BY <2>2, <2>3, <2>5, <3>1 DEF AnswerFits, Historical, Active, CodesOf, tables
  <2> QED
    BY <1>1, <2>4, <2>5
<1> HIDE DEF K, label
<1> QED
  BY <1>1, <1>2, <1>3, IdleLocals, VerifyMovesInv DEF Verifying, Inv, TypeOK

LEMMA RefuseInv ==
    ASSUME Inv, NEW c \in Clients, Refuse(c)
    PROVE  Inv'
<1> DEFINE code == call[c].code
           label == IF call[c].scope = NoScope THEN "commit" ELSE "add"
           replayed == code \in found[c] /\ Historical(code)
           res == IF replayed THEN Result("replay", code) ELSE Result("invalid", None)
<1>1. VerifyMoves(c, label, {}, {}, res)
  <2>1. todo' = [todo EXCEPT ![c] = {}]
    BY IdleLocals DEF Refuse, Arrived
  <2> QED
    BY <2>1 DEF Refuse, Goto, VerifyMoves
<1>2. /\ pc[c] = "history" /\ cache' = cache /\ wrote[c] = NoWrites
      /\ found[c] \subseteq Codes
  BY DEF Refuse, Arrived, Inv, ClientFits, HasRows, WritesFit, CodesOf
<1>3. res \in Results
  BY <1>2 DEF Result, Results
<1>4. label \in {"add", "commit"}
  OBVIOUS
<1>5. AnswerFits(c)'
  <2>1. SUFFICES ASSUME call[c] \in VerifyCalls, code # Junk PROVE AnswerFits(c)'
    BY <1>1 DEF VerifyMoves, AnswerFits
  <2>2. code \in CodesOf(batches) /\ replayed
    BY <1>2, <2>1 DEF Inv, ClientFits, AnswerFits, Verifying
  <2>3. /\ pc'[c] = label /\ result'[c] = Result("replay", code)
        /\ UNCHANGED <<tables, call>>
    BY <1>1, <2>2 DEF VerifyMoves, Inv, TypeOK, LocalsAreTyped
  <2> QED
    BY <1>4, <2>2, <2>3 DEF AnswerFits, Result, Historical, Active, CodesOf, tables
<1> HIDE DEF label, res
<1> QED
  BY <1>1, <1>2, <1>3, <1>4, <1>5, VerifyMovesInv DEF Verifying, Inv, TypeOK

\* The code that is accepted is a row the transaction has locked, still active.
LEMMA MatchInv ==
    ASSUME Inv, NEW c \in Clients, Match(c)
    PROVE  Inv'
<1> USE DEF Inv
<1> DEFINE k == call[c].code
<1>1. /\ pc[c] = "active" /\ todo[c] = {}
      /\ k \in found[c] /\ Active(k)
      /\ wrote' = [wrote EXCEPT ![c].used = {k}]
      /\ result' = [result EXCEPT ![c] = Result("success", k)]
      /\ found' = [found EXCEPT ![c] = {}]
      /\ UNCHANGED <<tables, issued, lock, cache, call, todo, history>>
      /\ \E label \in {"reset", "commit"} : pc' = [pc EXCEPT ![c] = label]
  BY DEF Match, Arrived, Goto
<1>2. /\ k \in Codes /\ BatchOf(k) \in Batches
      /\ lock[CodeRow(k)] = c /\ lock[BatchRow(BatchOf(k))] = c
  BY <1>1, InsertedFit DEF ClientFits, HasRows, Claimed
<1>3. PICK label \in {"reset", "commit"} : pc' = [pc EXCEPT ![c] = label]
  BY <1>1
<1> HIDE DEF k
<1>4. /\ pc'[c] = label /\ found'[c] = {} /\ call[c] \in VerifyCalls
      /\ wrote'[c] = [NoWrites EXCEPT !.used = {k}]
      /\ wrote'[c] \in Writes /\ wrote' \in [Clients -> Writes]
      /\ \A d \in Clients \ {c} : LocalsKept(d)
  <2>1. wrote[c] = NoWrites
    BY <1>1 DEF ClientFits, WritesFit
  <2>2. wrote'[c] = [NoWrites EXCEPT !.used = {k}]
    BY <1>1, <2>1 DEF LocalsAreTyped
  <2>3. [NoWrites EXCEPT !.used = {k}] \in Writes
    BY <1>2 DEF NoWrites, Writes
  <2>4. wrote' = [wrote EXCEPT ![c] = [NoWrites EXCEPT !.used = {k}]]
    BY <1>1, <2>1
  <2> QED
    BY <1>1, <1>3, <2>2, <2>3, <2>4 DEF LocalsAreTyped, LocalsKept, Verifying
<1>5. TypeOK'
  <2>1. Result("success", k) \in Results
    BY <1>2 DEF Result, Results
  <2> QED
    BY <1>1, <2>1 DEF TypeOK, tables, history, CodesOf
<1>6. LocalsAreTyped'
  BY <1>1, <1>3, <1>4 DEF LocalsAreTyped, Verifying
<1>7. BatchesFit'
  <2>1. Inserting' \subseteq Inserting
    BY <1>1, <1>4 DEF Inserting, VerifyCalls, LocalsKept
  <2> QED
    BY <1>1, <2>1, RoomKept
<1>8. ClientFits(c)'
  <2>1. HasRows(c)'
    BY <1>1, <1>4 DEF HasRows
  <2>2. WritesFit(c)'
    BY <1>1, <1>2, <1>4 DEF WritesFit, Active, tables, NoWrites
  <2>3. KnownFits(c)'
    BY <1>1, <1>4 DEF KnownFits, VerifyCalls, ResetCalls
  <2>4. result'[c] = Result("success", k) /\ call'[c].code = k
    BY <1>1 DEF TypeOK, k
  <2>5. AuditFits(c)'
    <3>1. /\ wrote'[c].used = {k} /\ wrote'[c].audit = {} /\ wrote'[c].replaced_batches = {}
          /\ result'[c].code = k /\ call'[c] \in VerifyCalls
      BY <1>1, <1>4, <2>4 DEF NoWrites, Result
    <3> QED
      BY <3>1 DEF AuditFits
  <2>6. AnswerFits(c)'
    BY <1>1, <1>4, <2>4, <1>3
       DEF AnswerFits, Result, ClientFits, Verifying, CodesOf, tables, Active
  <2> QED
    BY <2>1, <2>2, <2>3, <2>5, <2>6 DEF ClientFits
<1> QED
  BY <1>1, <1>4, <1>5, <1>6, <1>7, <1>8, QuietStepFits

\* A reset marks the batches it has locked and picks the codes to mark: with what
\* others have spent they are all the codes there are.
LEMMA UpdateBatchesInv ==
    ASSUME Inv, NEW c \in Clients, UpdateBatches(c)
    PROVE  Inv'
<1> USE DEF Inv
<1> DEFINE B == batches \ replaced_batches
           rows == {BatchRow(b) : b \in B}
<1>1. /\ pc[c] = "replace" /\ pc' = [pc EXCEPT ![c] = "batches"]
      /\ found' = [found EXCEPT ![c] = B]
      /\ todo' = [todo EXCEPT ![c] = rows]
      /\ UNCHANGED <<tables, issued, lock, cache, call, result, wrote, history>>
  BY DEF UpdateBatches, Statement, Goto
<1>2. B \subseteq batches /\ B \subseteq Int /\ rows \subseteq Rows
      /\ \A b \in B : BatchRow(b) \in rows
  BY InsertedFit, RowsDiffer DEF Batches
<1> HIDE DEF B, rows
<1>3. /\ pc'[c] = "batches" /\ found'[c] = B /\ todo'[c] = rows /\ call[c] \in ResetCalls
      /\ wrote[c] = NoWrites
      /\ \A d \in Clients \ {c} : LocalsKept(d)
  BY <1>1 DEF LocalsAreTyped, LocalsKept, TypeOK, ClientFits, WritesFit
<1>4. TypeOK'
  BY <1>1, <1>2 DEF TypeOK, tables, history, CodesOf
<1>5. LocalsAreTyped'
  BY <1>1, <1>2, <1>3 DEF LocalsAreTyped, Verifying
<1>6. BatchesFit'
  <2>1. Inserting' \subseteq Inserting
    BY <1>1, <1>3 DEF Inserting, LocalsKept
  <2> QED
    BY <1>1, <2>1, RoomKept
<1>7. ClientFits(c)'
  <2>1. HasRows(c)'
    BY <1>1, <1>2, <1>3 DEF HasRows, Claimed, tables
  <2>2. WritesFit(c)'
    BY <1>1, <1>3 DEF WritesFit, NoWrites
  <2>3. KnownFits(c)'
    BY <1>3 DEF KnownFits
  <2>4. AuditFits(c)' /\ AnswerFits(c)'
    BY <1>1, <1>3 DEF AuditFits, AnswerFits, NoWrites, Verifying
  <2> QED
    BY <2>1, <2>2, <2>3, <2>4 DEF ClientFits
<1> QED
  BY <1>1, <1>3, <1>4, <1>5, <1>6, <1>7, QuietStepFits

LEMMA UpdateCodesInv ==
    ASSUME Inv, NEW c \in Clients, UpdateCodes(c)
    PROVE  Inv'
<1> USE DEF Inv
<1> DEFINE K == {k \in Codes : Replaceable(k)}
           rows == {CodeRow(k) : k \in K}
           marked == found[c] \ replaced_batches
           known == CodesOf(batches)
<1>1. /\ pc[c] = "batches" /\ todo[c] = {} /\ pc' = [pc EXCEPT ![c] = "codes"]
      /\ found' = [found EXCEPT ![c] = K]
      /\ todo' = [todo EXCEPT ![c] = rows]
      /\ wrote' = [wrote EXCEPT ![c].replaced_batches = marked]
      /\ call' = [call EXCEPT ![c].known = known]
      /\ UNCHANGED <<tables, issued, lock, cache, result, history>>
  BY DEF UpdateCodes, Arrived, Statement, Goto
<1>2. /\ K \in SUBSET Codes /\ K \subseteq Int /\ rows \subseteq Rows
      /\ \A k \in K : CodeRow(k) \in rows /\ BatchOf(k) \in batches
      /\ known \in SUBSET Codes
      /\ known \subseteq K \cup used \cup replaced
  BY RowsDiffer DEF Codes, CodesOf, Replaceable
<1>3. /\ marked \in SUBSET Batches /\ marked \subseteq batches \ replaced_batches
      /\ \A b \in marked : lock[BatchRow(b)] = c
      /\ CodesOf(marked) \subseteq known
  BY <1>1, InsertedFit DEF ClientFits, HasRows, Claimed, CodesOf
<1>4. call[c] \in ResetCalls /\ wrote[c] = NoWrites
  BY <1>1 DEF LocalsAreTyped, ClientFits, WritesFit
<1> HIDE DEF K, rows, marked, known
<1>5. /\ wrote' = [wrote EXCEPT ![c] = [NoWrites EXCEPT !.replaced_batches = marked]]
      /\ call' = [call EXCEPT ![c] = [call[c] EXCEPT !.known = known]]
      /\ [NoWrites EXCEPT !.replaced_batches = marked] \in Writes
      /\ [call[c] EXCEPT !.known = known] \in ResetCalls
  <2>1. [NoWrites EXCEPT !.replaced_batches = marked] \in Writes
    BY <1>3 DEF NoWrites, Writes
  <2>2. [call[c] EXCEPT !.known = known] \in ResetCalls
    BY <1>2, <1>4 DEF ResetCalls
  <2> QED
    BY <1>1, <1>4, <2>1, <2>2
<1>6. /\ pc'[c] = "codes" /\ found'[c] = K /\ todo'[c] = rows
      /\ wrote'[c] = [NoWrites EXCEPT !.replaced_batches = marked]
      /\ call'[c] \in ResetCalls /\ call'[c].known = known
      /\ call'[c].kind = call[c].kind /\ wrote'[c].batches = wrote[c].batches
      /\ DOMAIN call' = Clients
      /\ \A d \in Clients \ {c} : LocalsKept(d)
  <2>1. /\ call'[c] = [call[c] EXCEPT !.known = known] /\ DOMAIN call' = Clients
        /\ wrote'[c] = [NoWrites EXCEPT !.replaced_batches = marked]
    BY <1>5 DEF LocalsAreTyped
  <2>2. [call[c] EXCEPT !.known = known].known = known
        /\ [call[c] EXCEPT !.known = known].kind = call[c].kind
        /\ [NoWrites EXCEPT !.replaced_batches = marked].batches = NoWrites.batches
    BY <1>4 DEF ResetCalls, NoWrites
  <2>3. pc'[c] = "codes" /\ found'[c] = K /\ todo'[c] = rows
    BY <1>1 DEF LocalsAreTyped, TypeOK
  <2>4. \A d \in Clients \ {c} : LocalsKept(d)
    BY <1>1, <1>5 DEF LocalsAreTyped, LocalsKept, TypeOK
  <2> QED
    BY <1>4, <1>5, <2>1, <2>2, <2>3, <2>4
<1>7. TypeOK'
  BY <1>1, <1>2 DEF TypeOK, tables, history, CodesOf
<1>8. LocalsAreTyped'
  BY <1>1, <1>2, <1>5, <1>6 DEF LocalsAreTyped, LocalsKept, Verifying
<1>9. BatchesFit'
  <2>1. Inserting' \subseteq Inserting
    BY <1>1, <1>6 DEF Inserting, LocalsKept
  <2> QED
    BY <1>1, <2>1, RoomKept
<1>10. ClientFits(c)'
  <2>1. HasRows(c)'
    BY <1>1, <1>2, <1>6 DEF HasRows, Claimed, tables, CodesOf
  <2>2. WritesFit(c)'
    BY <1>1, <1>3, <1>6 DEF WritesFit, NoWrites, tables
  <2>3. KnownFits(c)'
    BY <1>1, <1>2, <1>3, <1>6 DEF KnownFits, NoWrites, tables, CodesOf
  <2>4. wrote'[c].used = {} /\ wrote'[c].audit = {}
    BY <1>6 DEF NoWrites
  <2>5. AuditFits(c)'
    BY <1>6, <2>4 DEF AuditFits
  <2>6. AnswerFits(c)'
    BY <1>6 DEF AnswerFits, Verifying
  <2> QED
    BY <2>1, <2>2, <2>3, <2>5, <2>6 DEF ClientFits
<1> QED
  BY <1>1, <1>6, <1>7, <1>8, <1>9, <1>10, QuietStepFits

\* A batch is inserted, and the codes that still qualify are marked.
LEMMA InsertInv ==
    ASSUME Inv, NEW c \in Clients, Insert(c)
    PROVE  Inv'
<1> USE DEF Inv
<1> DEFINE marked == {k \in found[c] : Replaceable(k)}
           event == IF call[c].kind = "create" THEN {} ELSE AuditOf(c, "reset", issued + 1)
           w == [wrote[c] EXCEPT !.batches = {issued + 1}, !.replaced = marked, !.audit = event]
<1>1. /\ pc[c] = "insert" \/ (pc[c] = "codes" /\ todo[c] = {})
      /\ issued' = issued + 1
      /\ found' = [found EXCEPT ![c] = {}]
      /\ pc' = [pc EXCEPT ![c] = "commit"]
      /\ UNCHANGED <<tables, lock, cache, call, result, todo, history>>
  BY DEF Insert, Arrived, Goto
<1>2. wrote' = [wrote EXCEPT ![c] = w]
  BY DEF Insert
<1>3. c \in Inserting
  BY <1>1 DEF Inserting, LocalsAreTyped, CreateCalls, ResetCalls, ClientFits, WritesFit, NoWrites
<1>4. /\ marked \in SUBSET Codes
      /\ \A k \in marked : Replaceable(k) /\ lock[CodeRow(k)] = c
      /\ todo[c] = {}
      /\ pc[c] = "insert" => marked = {}
  BY <1>1 DEF ClientFits, HasRows, Claimed, CodesOf
<1>5. pc[c] = "codes" => call[c].known \subseteq marked \cup used \cup replaced
  BY <1>1 DEF ClientFits, HasRows, KnownFits, Replaceable, CodesOf
<1>6. issued + 1 \in Batches
  BY <1>3, InsertedFit, InsertingIsFinite, FS_EmptySet, BatchAssumption DEF BatchesFit, Batches
<1>7. event \in SUBSET Events
  BY <1>6 DEF AuditOf, Events
<1>7a. /\ \A e \in event : e.classification = "reset"
       /\ AuditChoices = {TRUE} =>
            \A b \in wrote[c].replaced_batches : \E e \in event : e.subject > b
  <2>1. \A e \in event : e.classification = "reset"
    BY DEF AuditOf
  <2>2. ASSUME AuditChoices = {TRUE}, NEW b \in wrote[c].replaced_batches
        PROVE  \E e \in event : e.subject > b
    <3>1. pc[c] = "codes" /\ b \in batches
      BY <1>1, <2>2 DEF ClientFits, WritesFit, NoWrites
    <3>2. b \in Nat /\ b <= issued
      <4>1. b \in 1..issued
        BY <3>1 DEF TypeOK
      <4> QED
        BY <4>1, InsertedFit
    <3>3. event = {[classification |-> "reset", subject |-> issued + 1]}
      BY <2>2, <3>1 DEF LocalsAreTyped, ResetCalls, AuditOf
    <3>4. issued + 1 > b
      BY <3>2, InsertedFit
    <3> HIDE DEF event
    <3> QED
      BY <3>3, <3>4
  <2> QED
    BY <2>1, <2>2
<1>8. /\ w \in Writes /\ w.batches = {issued + 1} /\ w.replaced = marked
      /\ w.used = {} /\ w.replaced_batches = wrote[c].replaced_batches
      /\ w.audit = event
  <2>1. wrote[c] \in Writes /\ wrote[c].used = {}
    BY <1>1 DEF LocalsAreTyped, ClientFits, WritesFit, NoWrites
  <2> HIDE DEF marked, event
  <2> QED
    BY <2>1, <1>4, <1>6, <1>7 DEF Writes
<1> HIDE DEF marked, event, w
<1>9. /\ pc'[c] = "commit" /\ found'[c] = {} /\ todo'[c] = {} /\ wrote'[c] = w
      /\ \A d \in Clients \ {c} : LocalsKept(d)
  BY <1>1, <1>2, <1>4 DEF LocalsAreTyped, LocalsKept
<1>10. BatchesFit' /\ issued + 1 <= MaxBatches
  <2>1. Inserting' \subseteq Inserting \ {c}
    BY <1>1, <1>8, <1>9 DEF Inserting, LocalsKept
  <2> QED
    BY <1>1, <1>3, <2>1, RoomUsed
<1>11. TypeOK'
  <2>1. issued' \in 0..MaxBatches /\ 1..issued \subseteq 1..issued'
    BY <1>1, <1>10, InsertedFit, BatchAssumption
  <2> QED
    BY <1>1, <2>1 DEF TypeOK, tables, history, CodesOf
<1>12. LocalsAreTyped'
  BY <1>1, <1>2, <1>8, <1>9 DEF LocalsAreTyped, Verifying
<1>13. ClientFits(c)'
  <2>1. HasRows(c)'
    BY <1>9 DEF HasRows
  <2>2. WritesFit(c)'
    BY <1>1, <1>4, <1>8, <1>9, InsertedFit DEF ClientFits, WritesFit, Replaceable, tables
  <2>3. KnownFits(c)'
    BY <1>1, <1>5, <1>8, <1>9
       DEF ClientFits, KnownFits, LocalsAreTyped, CreateCalls, ResetCalls, tables, CodesOf
  <2>4. AuditFits(c)'
    BY <1>7a, <1>8, <1>9 DEF AuditFits
  <2>5. AnswerFits(c)'
    BY <1>1, <1>9
       DEF AnswerFits, LocalsAreTyped, VerifyCalls, CreateCalls, ResetCalls
  <2> QED
    BY <2>1, <2>2, <2>3, <2>4, <2>5 DEF ClientFits
<1>14. TablesGrow /\ \A d \in Clients \ {c} : RowsKept(d) /\ LocalsKept(d)
  BY <1>1, <1>9, InsertedFit DEF TablesGrow, RowsKept, tables
<1>15. OneFate' /\ ReplacedWhole' /\ HistoryFits' /\ AuditExplainsCodes'
  BY <1>1 DEF OneFate, ReplacedWhole, HistoryFits, AuditExplainsCodes, CodesOf, tables, history
<1> QED
  BY <1>10, <1>11, <1>12, <1>13, <1>14, <1>15, StepFits

\* A call that ends leaves nothing behind but what it has committed.
LEMMA ReturnFacts ==
    ASSUME Inv, NEW c \in Clients, pc[c] # "idle", Return(c), TablesGrow
    PROVE  /\ lock' \in [Rows -> Clients \cup {NoOne}]
           /\ result' \in [Clients -> Results \cup {None}]
           /\ todo' \in [Clients -> SUBSET Rows]
           /\ \A d \in Clients \ {c}, r \in Rows : lock[r] = d => lock'[r] = d
           /\ \A d \in Clients \ {c} : LocalsKept(d)
           /\ LocalsAreTyped' /\ ClientFits(c)'
           /\ Inserting' \subseteq Inserting
<1> USE DEF Inv
<1>1. /\ lock' \in [Rows -> Clients \cup {NoOne}]
      /\ result' \in [Clients -> Results \cup {None}]
      /\ todo' \in [Clients -> SUBSET Rows]
      /\ \A d \in Clients \ {c}, r \in Rows : lock[r] = d => lock'[r] = d
  BY DEF Return, Release, TypeOK
<1>2. \A d \in Clients \ {c} : LocalsKept(d)
  BY DEF Return, Goto, LocalsAreTyped, TypeOK, LocalsKept
<1>3. /\ pc'[c] = "idle" /\ found'[c] = {} /\ todo'[c] = {} /\ wrote'[c] = NoWrites
      /\ pc' \in [Clients -> Verifying \cup {"idle", "replace", "batches", "codes",
                                             "insert", "commit"}]
      /\ found' \in [Clients -> SUBSET Int]
      /\ wrote' \in [Clients -> Writes]
      /\ DOMAIN call' = Clients
  BY NothingWritten DEF Return, Goto, LocalsAreTyped, TypeOK
<1>4. LocalsAreTyped'
  BY <1>2, <1>3 DEF LocalsAreTyped, LocalsKept, Verifying
<1>5. ClientFits(c)'
  BY <1>3 DEF ClientFits, HasRows, WritesFit, KnownFits, AuditFits, AnswerFits,
              NoWrites, Verifying
<1>6. Inserting' \subseteq Inserting
  BY <1>2, <1>3 DEF Inserting, LocalsKept
<1> QED
  BY <1>1, <1>2, <1>4, <1>5, <1>6

LEMMA AbortInv ==
    ASSUME Inv, NEW c \in Clients, Abort(c)
    PROVE  Inv'
<1> USE DEF Inv
<1>1. /\ pc[c] # "idle" /\ Return(c)
      /\ UNCHANGED <<tables, issued, cache, history>>
  BY DEF Abort
<1>2. TablesGrow
  BY <1>1, InsertedFit DEF TablesGrow, tables
<1>3. TypeOK'
  BY <1>1, <1>2, ReturnFacts DEF TypeOK, tables, history, CodesOf
<1>4. BatchesFit'
  BY <1>1, <1>2, ReturnFacts, RoomKept
<1>5. \A d \in Clients \ {c} : RowsKept(d)
  BY <1>1, <1>2, ReturnFacts DEF RowsKept, tables
<1>6. OneFate' /\ ReplacedWhole' /\ HistoryFits' /\ AuditExplainsCodes'
  BY <1>1 DEF OneFate, ReplacedWhole, HistoryFits, AuditExplainsCodes, CodesOf, tables, history
<1> QED
  BY <1>1, <1>2, <1>3, <1>4, <1>5, <1>6, ReturnFacts, StepFits

\* What a transaction commits: codes it holds and that still qualify, batches with
\* every code they have, and the events that say so.
LEMMA CommitFacts ==
    ASSUME Inv, NEW c \in Clients, Commit(c)
    PROVE  LET w == wrote[c] IN
           /\ pc[c] = "commit" /\ Return(c) /\ UNCHANGED <<issued, cache>>
           /\ TablesGrow
           /\ w \in Writes /\ w.batches \subseteq 1..issued
           /\ \A k \in w.used : k \in CodesOf(batches) \ (used \cup replaced)
           /\ \A k \in w.replaced : k \in CodesOf(batches) \ (used \cup replaced)
           /\ w.used = {} \/ w.replaced = {}
           /\ CodesOf(w.replaced_batches) \subseteq w.replaced \cup used \cup replaced
           /\ call[c].kind = "reset" =>
                 /\ call[c].known \in SUBSET Codes
                 /\ call[c].known \subseteq w.replaced \cup used \cup replaced
<1> USE DEF Inv
<1>1. /\ pc[c] = "commit" /\ Return(c) /\ UNCHANGED <<issued, cache>>
      /\ TablesGrow /\ wrote[c] \in Writes
  BY InsertedFit DEF Commit, TablesGrow, LocalsAreTyped
<1>2. /\ wrote[c].batches \subseteq 1..issued
      /\ \A k \in wrote[c].used : k \in CodesOf(batches) \ (used \cup replaced)
      /\ \A k \in wrote[c].replaced : k \in CodesOf(batches) \ (used \cup replaced)
      /\ wrote[c].used = {} \/ wrote[c].replaced = {}
  BY <1>1 DEF ClientFits, WritesFit, Writes, Active, Replaceable, CodesOf
<1>3. CodesOf(wrote[c].replaced_batches) \subseteq wrote[c].replaced \cup used \cup replaced
  <2>1. CASE call[c] \in ResetCalls
    BY <1>1, <2>1 DEF ClientFits, KnownFits
  <2>2. CASE call[c] \notin ResetCalls
    <3>1. wrote[c].replaced_batches = {}
      BY <1>1, <2>2 DEF ClientFits, WritesFit
    <3> QED
      BY <3>1 DEF CodesOf
  <2> QED
    BY <2>1, <2>2
<1>4. call[c].kind = "reset" =>
         /\ call[c].known \in SUBSET Codes
         /\ call[c].known \subseteq wrote[c].replaced \cup used \cup replaced
  BY <1>1
     DEF ClientFits, KnownFits, LocalsAreTyped, VerifyCalls, CreateCalls, ResetCalls
<1> QED
  BY <1>1, <1>2, <1>3, <1>4

LEMMA CommitInv ==
    ASSUME Inv, NEW c \in Clients, Commit(c)
    PROVE  Inv'
<1> USE DEF Inv
<1> DEFINE w == wrote[c]
<1>1. /\ batches' = batches \cup w.batches
      /\ replaced_batches' = replaced_batches \cup w.replaced_batches
      /\ used' = used \cup w.used
      /\ replaced' = replaced \cup w.replaced
      /\ audit' = audit \cup Audited(c)
      /\ uses' = [k \in Codes |-> uses[k] + (IF k \in w.used THEN 1 ELSE 0)]
      /\ doomed' = IF call[c].kind = "reset" THEN doomed \cup call[c].known ELSE doomed
  BY DEF Commit
<1>2. /\ pc[c] = "commit" /\ Return(c) /\ UNCHANGED <<issued, cache>> /\ TablesGrow
      /\ w \in Writes /\ w.batches \subseteq 1..issued
      /\ \A k \in w.used : k \in CodesOf(batches) \ (used \cup replaced)
      /\ \A k \in w.replaced : k \in CodesOf(batches) \ (used \cup replaced)
      /\ w.used = {} \/ w.replaced = {}
      /\ CodesOf(w.replaced_batches) \subseteq w.replaced \cup used \cup replaced
      /\ call[c].kind = "reset" =>
            /\ call[c].known \in SUBSET Codes
            /\ call[c].known \subseteq w.replaced \cup used \cup replaced
  BY CommitFacts
<1>3. /\ w.replaced_batches \subseteq batches
      /\ \A b \in w.replaced_batches : lock[BatchRow(b)] = c
      /\ \A k \in w.used \cup w.replaced : lock[CodeRow(k)] = c
      /\ w.used # {} => w.used = {result[c].code} /\ call[c] \in VerifyCalls
      /\ \A e \in w.audit : e.classification = "reset"
      /\ AuditChoices = {TRUE} =>
            \A b \in w.replaced_batches : \E e \in w.audit : e.subject > b
  <2>1. WritesFit(c) /\ AuditFits(c) /\ pc[c] = "commit"
    BY <1>2 DEF ClientFits
  <2> QED
    BY ONLY <2>1 DEF WritesFit, AuditFits, Active, Replaceable
<1> HIDE DEF w
<1>4. /\ Audited(c) \in SUBSET Events
      /\ w.audit \subseteq Audited(c)
      /\ AuditChoices = {TRUE} =>
            w.used = {e.subject : e \in {x \in Audited(c) : x.classification = "success"}}
  <2>1. w.audit \in SUBSET Events /\ w.used \in SUBSET Codes
    BY <1>2 DEF Writes
  <2>2. CASE w.used = {}
    <3>1. Audited(c) = w.audit
      BY <2>2 DEF Audited, w
    <3> QED
      BY <1>3, <2>1, <2>2, <3>1
  <2>3. CASE w.used # {}
    <3> DEFINE k == result[c].code
               event == [classification |-> "success", subject |-> k]
    <3>1. w.used = {k} /\ k \in Codes
      BY <1>3, <2>1, <2>3
    <3>2. event \in Events /\ event.classification = "success" /\ event.subject = k
      BY <3>1 DEF Events
    <3>3. Audited(c) = w.audit \cup AuditOf(c, "success", k)
      BY <2>3 DEF Audited, w
    <3>4. AuditOf(c, "success", k) \in {{}, {event}}
      BY DEF AuditOf
    <3>5. AuditChoices = {TRUE} => AuditOf(c, "success", k) = {event}
      BY <1>3, <2>3 DEF AuditOf, VerifyCalls
    <3> HIDE DEF event, k
    <3> QED
      BY <1>3, <2>1, <3>1, <3>2, <3>3, <3>4, <3>5
  <2> QED
    BY <2>2, <2>3
<1>5. OneFate'
  BY <1>1, <1>2 DEF OneFate
<1>6. ReplacedWhole'
  BY <1>1, <1>2 DEF ReplacedWhole, CodesOf
<1>7. HistoryFits'
  <2>1. \A k \in Codes : uses'[k] = IF k \in used' THEN 1 ELSE 0
    BY <1>1, <1>2 DEF HistoryFits
  <2>2. doomed' \subseteq used' \cup replaced'
    BY <1>1, <1>2 DEF HistoryFits
  <2> QED
    BY <2>1, <2>2 DEF HistoryFits
<1>8. AuditExplainsCodes'
  <2> SUFFICES ASSUME AuditChoices = {TRUE}
               PROVE  /\ used' = {e.subject : e \in {x \in audit' : x.classification = "success"}}
                      /\ \A b \in replaced_batches' :
                            \E e \in audit' : e.classification = "reset" /\ e.subject > b
    BY DEF AuditExplainsCodes
  <2>1. used' = {e.subject : e \in {x \in audit' : x.classification = "success"}}
    BY <1>1, <1>4 DEF AuditExplainsCodes
  <2>2. ASSUME NEW b \in replaced_batches'
        PROVE  \E e \in audit' : e.classification = "reset" /\ e.subject > b
    BY <1>1, <1>3, <1>4, <2>2 DEF AuditExplainsCodes
  <2> QED
    BY <2>1, <2>2
<1>9. TypeOK'
  <2>1. batches' \subseteq 1..issued' /\ issued' \in 0..MaxBatches
    BY <1>1, <1>2 DEF TypeOK
  <2>2. replaced_batches' \subseteq batches'
    BY <1>1, <1>3 DEF TypeOK
  <2>3. used' \subseteq CodesOf(batches') /\ replaced' \subseteq CodesOf(batches')
    BY <1>1, <1>2 DEF TypeOK, CodesOf
  <2>4. audit' \subseteq Events
    BY <1>1, <1>4 DEF TypeOK
  <2>5. uses' \in [Codes -> {0, 1}] /\ doomed' \subseteq Codes
    BY <1>1, <1>2, <1>7 DEF HistoryFits, TypeOK
  <2>6. cache' = cache
    BY <1>2
  <2>7. /\ lock' \in [Rows -> Clients \cup {NoOne}]
        /\ result' \in [Clients -> Results \cup {None}]
        /\ todo' \in [Clients -> SUBSET Rows]
    BY <1>2, ReturnFacts
  <2> QED
    BY <2>1, <2>2, <2>3, <2>4, <2>5, <2>6, <2>7 DEF TypeOK
<1>10. BatchesFit'
  BY <1>2, ReturnFacts, RoomKept
<1>11. \A d \in Clients \ {c} : RowsKept(d)
  BY <1>1, <1>2, <1>3, ReturnFacts DEF RowsKept
<1> QED
  BY <1>2, <1>5, <1>6, <1>7, <1>8, <1>9, <1>10, <1>11, ReturnFacts, StepFits

LEMMA CacheForgetInv ==
    ASSUME Inv, NEW s \in Scopes, CacheForget(s)
    PROVE  Inv'
<1> USE DEF Inv
<1>1. cache' \in [Scopes -> Nat \cup {NoEntry}]
  BY CacheFits DEF CacheForget, Forget, Forgotten, TypeOK
<1>2. UNCHANGED <<tables, issued, lock, pc, locals, history>>
  BY DEF CacheForget, Forget
<1>3. TypeOK' /\ LocalsAreTyped' /\ BatchesFit'
  BY <1>1, <1>2
     DEF TypeOK, LocalsAreTyped, BatchesFit, Inserting, tables, locals, history, CodesOf
<1>4. \A d \in Clients : ClientFits(d)'
  <2>1. TablesGrow /\ \A d \in Clients : RowsKept(d) /\ LocalsKept(d)
    BY <1>2, InsertedFit DEF TablesGrow, RowsKept, LocalsKept, tables, locals
  <2> QED
    BY <2>1, OtherFits
<1>5. OneFate' /\ ReplacedWhole' /\ HistoryFits' /\ AuditExplainsCodes'
  BY <1>2 DEF OneFate, ReplacedWhole, HistoryFits, AuditExplainsCodes, CodesOf, tables, history
<1> QED
  BY <1>3, <1>4, <1>5

LEMMA NextInv == Inv /\ [Next]_vars => Inv'
<1> SUFFICES ASSUME Inv, [Next]_vars PROVE Inv'
  OBVIOUS
<1>1. ASSUME NEW c \in Clients, CallVerify(c) \/ CallCreate(c) \/ CallReset(c) PROVE Inv'
  BY <1>1, CallInv
<1>2. ASSUME NEW c \in Clients, LockRow(c) PROVE Inv'
  BY <1>2, LockInv
<1>3. ASSUME NEW c \in Clients, Work(c) PROVE Inv'
  BY <1>3, ThrottleInv, SelectInv, MatchInv, RefuseInv, UpdateBatchesInv, UpdateCodesInv,
     InsertInv, CommitInv DEF Work
<1>4. ASSUME NEW c \in Clients, Abort(c) PROVE Inv'
  BY <1>4, AbortInv
<1>5. ASSUME NEW s \in Scopes, CacheForget(s) PROVE Inv'
  BY <1>5, CacheForgetInv
<1>6. CASE UNCHANGED vars
  <2> USE <1>6 DEF Inv, vars, tables, locals, history
  <2>1. TypeOK' /\ LocalsAreTyped' /\ BatchesFit'
    BY DEF TypeOK, LocalsAreTyped, BatchesFit, Inserting, CodesOf
  <2>2. \A d \in Clients : ClientFits(d)'
    BY InsertedFit, OtherFits DEF TablesGrow, RowsKept, LocalsKept
  <2>3. OneFate' /\ ReplacedWhole' /\ HistoryFits' /\ AuditExplainsCodes'
    BY DEF OneFate, ReplacedWhole, HistoryFits, AuditExplainsCodes, CodesOf
  <2> QED
    BY <2>1, <2>2, <2>3
<1> QED
  BY <1>1, <1>2, <1>3, <1>4, <1>5, <1>6 DEF Next

(***************************************************************************)
(* Results.                                                                *)
(***************************************************************************)
\* Inv is an invariant of recovery_codes.py: what each call has picked, locked and
\* written goes with the tables, whatever the others do.
THEOREM Invariance == Spec => []Inv
<1>1. Init => Inv
  BY InitInv
<1>2. Inv /\ [Next]_vars => Inv'
  BY NextInv
<1> QED
  BY <1>1, <1>2, PTL DEF Spec

\* Every table, lock and local of recovery_codes.py keeps its type.
THEOREM TypeCorrect == Spec => []TypeOK
<1>1. Inv => TypeOK
  BY DEF Inv
<1> QED
  BY <1>1, Invariance, PTL

\* A code is used or replaced, never both: the row locks that verify_recovery_code
\* and reset_recovery_code_batch take, with the conditions they check again after
\* the wait, are enough.
THEOREM CodesHaveOneFate == Spec => []OneFate
<1>1. Inv => OneFate
  BY DEF Inv
<1> QED
  BY <1>1, Invariance, PTL

\* reset_recovery_code_batch leaves no code of a batch it replaced usable.
THEOREM BatchesAreReplacedWhole == Spec => []ReplacedWhole
<1>1. Inv => ReplacedWhole
  BY DEF Inv
<1> QED
  BY <1>1, Invariance, PTL

\* When every call is audited, the events of recovery_codes.py account for every
\* code that was used and every batch that was replaced.
THEOREM AuditExplains == Spec => []AuditExplainsCodes
<1>1. Inv => AuditExplainsCodes
  BY DEF Inv
<1> QED
  BY <1>1, Invariance, PTL

\* verify_recovery_code calls no code the user was given invalid, and one a replay
\* only when it is spent for good.
THEOREM OwnCodeRecognised == Spec => []OwnCodeIsRecognised
<1>1. Inv => OwnCodeIsRecognised
  BY DEF Inv, OwnCodeIsRecognised, ClientFits, AnswerFits, LocalsAreTyped,
         VerifyCalls, CreateCalls, ResetCalls
<1> QED
  BY <1>1, Invariance, PTL

\* Only the commit of a verification counts an acceptance.
LEMMA OtherStepsKeepUses ==
    ASSUME [Next]_vars, \A c \in Clients : ~Commit(c)
    PROVE  uses' = uses
BY DEF vars, history, locals, Next, CallVerify, CallCreate, CallReset, LockRow, Work, CheckThrottle,
       SelectActive, Match, SelectHistorical, Refuse, ResetThrottle, RecordFailure,
       UpdateBatches, UpdateCodes, Insert, Abort, CacheForget

\* It accepts codes that were neither used nor replaced, and so not doomed.
LEMMA CommitUses ==
    ASSUME Inv, NEW c \in Clients, Commit(c)
    PROVE  LET S == wrote[c].used IN
           /\ S \subseteq Codes
           /\ \A k \in S : uses[k] = 0 /\ k \notin doomed
           /\ uses' = [k \in Codes |-> IF k \in S THEN 1 ELSE uses[k]]
<1>1. \A k \in wrote[c].used : k \in Codes /\ k \notin used /\ k \notin replaced
  BY CommitFacts DEF CodesOf
<1>2. \A k \in wrote[c].used : uses[k] = 0 /\ k \notin doomed
  BY <1>1 DEF Inv, HistoryFits
<1>3. uses' = [k \in Codes |-> uses[k] + (IF k \in wrote[c].used THEN 1 ELSE 0)]
  BY DEF Commit
<1>4. \A k \in Codes : uses[k] + (IF k \in wrote[c].used THEN 1 ELSE 0)
                         = IF k \in wrote[c].used THEN 1 ELSE uses[k]
  BY <1>2 DEF Inv, TypeOK
<1> QED
  BY <1>1, <1>2, <1>3, <1>4

\* Once reset_recovery_code_batch has returned, no code that was there when it came
\* to replace the codes is accepted.
THEOREM ResetHolds == Spec => ResetIsFinal
<1> DEFINE Final == \A k \in Codes : uses'[k] # uses[k] => k \notin doomed
<1>1. Inv /\ [Next]_vars => [Final]_vars
  <2> SUFFICES ASSUME Inv, [Next]_vars PROVE Final
    OBVIOUS
  <2>1. ASSUME NEW c \in Clients, Commit(c) PROVE Final
    BY <2>1, CommitUses
  <2> QED
    BY <2>1, OtherStepsKeepUses
<1> QED
  BY <1>1, Invariance, PTL DEF Spec, ResetIsFinal

\* verify_recovery_code implements OneTimeUse: each recovery code is honoured at
\* most once.
THEOREM EachCodeOnce == Spec => HonouredOnce
<1> DEFINE mapped == [h \in {"user"} |-> uses]
<1>1. Init => OneTime!Init
  BY DEF Init, OneTime!Init
<1>2. ASSUME Inv, [Next]_vars PROVE OneTime!Next \/ mapped' = mapped
  <2>1. ASSUME NEW c \in Clients, Commit(c) PROVE OneTime!Next \/ uses' = uses
    <3> DEFINE S == wrote[c].used
    <3>1. /\ S \in SUBSET Codes
          /\ \A k \in S : uses[k] = 0
          /\ uses' = [k \in Codes |-> IF k \in S THEN 1 ELSE uses[k]]
      BY <1>2, <2>1, CommitUses
    <3> HIDE DEF S
    <3>2. CASE S = {}
      BY <1>2, <3>1, <3>2 DEF Inv, TypeOK
    <3>3. CASE S # {}
      <4>1. OneTime!Use("user", S)
        BY <3>1, <3>3 DEF OneTime!Use
      <4> QED
        BY <3>1, <4>1 DEF OneTime!Next
    <3> QED
      BY <3>2, <3>3
  <2> QED
    BY <1>2, <2>1, OtherStepsKeepUses
<1>3. Inv /\ [Next]_vars => [OneTime!Next]_mapped
  BY <1>2
<1> QED
  BY <1>1, <1>3, Invariance, PTL DEF Spec, HonouredOnce, OneTime!Spec
=============================================================================
