---------------------------- MODULE RecoveryCodes ----------------------------
(***************************************************************************)
(* django_mfa_toolkit/recovery_codes.py: concurrent callers create, reset  *)
(* and verify the recovery codes of one user.                              *)
(*                                                                         *)
(* The statements of a transaction run at READ COMMITTED, Django's default *)
(* on PostgreSQL: each picks its rows from what is committed when it       *)
(* starts, locks them one by one, waiting for whoever holds one, and keeps *)
(* those that still qualify once it has the lock.  It cannot see a row     *)
(* that was inserted since.  The queries of a verification lock code rows  *)
(* by primary key and the row of a batch, which select_related() joins,    *)
(* after the first of its codes; the order of an UPDATE is left open.      *)
(* The database aborts one of several transactions that wait in a circle.  *)
(*                                                                         *)
(* The codes of a user are distinct, and a code stands for its row; the    *)
(* slow hash that is stored instead only decides equality.  Of the audit   *)
(* events the model keeps those of accepted codes and of resets.           *)
(***************************************************************************)
EXTENDS ThrottleSteps, FiniteSets

CONSTANTS
    Clients, Scopes,
    NoScope,      \* throttle_scope=None
    ScopeChoices, \* the throttle_scope arguments of calls
    Kinds,        \* the operations called
    AuditChoices, \* the persist_audit arguments of calls
    NoOne,        \* nobody holds the row lock
    NoCall,       \* no call in progress
    None,         \* no result, or a result without a code
    Junk,         \* a submission that is none of the user's codes
    BatchSize,    \* the count argument
    MaxBatches    \* bound: batches inserted

ASSUME ClientsAssumption == NoOne \notin Clients /\ IsFiniteSet(Clients)
ASSUME ScopesAssumption  == NoScope \notin Scopes /\ ScopeChoices \subseteq Scopes \cup {NoScope}
ASSUME BatchAssumption   == BatchSize \in Nat \ {0} /\ MaxBatches \in Nat
ASSUME AuditAssumption   == AuditChoices \subseteq BOOLEAN
ASSUME CodesAssumption   == None \notin Int /\ Junk \notin Int

VARIABLES
    \* the tables, as committed
    batches,          \* the RecoveryCodeBatch rows, with all their codes
    replaced_batches, \* those with replaced_at set
    used,             \* the codes with used_at set
    replaced,         \* the codes with replaced_at set
    audit,            \* the MFAAuditEvent rows
    issued,           \* the sequence of primary keys
    lock,             \* row -> the client that holds it
    \* the calls
    call, result,
    found,            \* client -> the keys its statement picked
    todo,             \* client -> the rows its statement has yet to lock
    wrote,            \* client -> what its transaction has written
    \* history
    uses,             \* code -> acceptances of it
    doomed            \* codes there when a reset replaced codes that has returned

tables  == <<batches, replaced_batches, used, replaced, audit>>
history == <<uses, doomed>>
locals  == <<call, result, found, todo, wrote>>
vars    == <<tables, issued, lock, cache, pc, locals, history>>

Batches     == 1..MaxBatches
Codes       == 1..(MaxBatches * BatchSize)
BatchOf(k)  == (k - 1) \div BatchSize + 1
CodesOf(B)  == {k \in Codes : BatchOf(k) \in B}

CodeRow(k)  == <<"code", k>>
BatchRow(b) == <<"batch", b>>
Rows        == {CodeRow(k) : k \in Codes} \cup {BatchRow(b) : b \in Batches}

\* What the queries select, on what is committed.
Active(k) ==
    BatchOf(k) \in batches \ replaced_batches /\ k \notin used \cup replaced

\* A slip: only codes that were used count as spent.
OnlyUsed(k) == k \in used

Historical(k) == BatchOf(k) \in batches /\ ~Active(k)

Replaceable(k) == BatchOf(k) \in batches /\ k \notin used \cup replaced

NoWrites == [batches |-> {}, replaced_batches |-> {}, used |-> {}, replaced |-> {},
             audit |-> {}]

Init ==
    /\ batches = {} /\ replaced_batches = {} /\ used = {} /\ replaced = {}
    /\ audit = {}
    /\ issued = 0
    /\ lock = [r \in Rows |-> NoOne]
    /\ cache = [s \in Scopes |-> NoEntry]
    /\ pc = [c \in Clients |-> "idle"]
    /\ call = [c \in Clients |-> NoCall]
    /\ result = [c \in Clients |-> None]
    /\ found = [c \in Clients |-> {}]
    /\ todo = [c \in Clients |-> {}]
    /\ wrote = [c \in Clients |-> NoWrites]
    /\ uses = [k \in Codes |-> 0]
    /\ doomed = {}

(***************************************************************************)
(* Statements and their row locks.                                         *)
(***************************************************************************)
\* A slip: rows are read without select_for_update().
NoRowLock(c, r) == TRUE

RowFree(c, r) == lock[r] \in {NoOne, c}

\* Where a row comes in the order of a joined query.
Least(S) == CHOOSE n \in S : \A m \in S : n <= m

Place(c, r) ==
    IF \E k \in found[c] : r = CodeRow(k)
      THEN <<Least({k \in found[c] : r = CodeRow(k)}), 0>>
      ELSE <<Least({k \in found[c] : r = BatchRow(BatchOf(k))}), 1>>

NotAfter(p, q) == p[1] < q[1] \/ (p[1] = q[1] /\ p[2] <= q[2])

\* The rows a statement may lock next.
NextRows(c) ==
    IF pc[c] \in {"active", "history"}
      THEN {r \in todo[c] : \A q \in todo[c] : NotAfter(Place(c, r), Place(c, q))}
      ELSE todo[c]

LockRow(c) ==
    /\ \E r \in NextRows(c) :
          /\ RowFree(c, r)
          /\ lock' = [lock EXCEPT ![r] = c]
          /\ todo' = [todo EXCEPT ![c] = @ \ {r}]
    /\ UNCHANGED <<tables, issued, cache, pc, call, result, found, wrote, history>>

\* A statement on the rows with the keys K begins; the next step of the call
\* is label, once the statement has its rows.
Statement(c, label, K, rows) ==
    /\ Goto(c, label)
    /\ found' = [found EXCEPT ![c] = K]
    /\ todo' = [todo EXCEPT ![c] = rows]

\* A joined query locks the code rows and the rows of their batches.
Joined(K) == {CodeRow(k) : k \in K} \cup {BatchRow(BatchOf(k)) : k \in K}

Arrived(c, label) == pc[c] = label /\ todo[c] = {}

(***************************************************************************)
(* Calls                                                                   *)
(***************************************************************************)
\* The user knows the codes that creation and reset have returned.
CallVerify(c) ==
    /\ "verify" \in Kinds
    /\ pc[c] = "idle"
    /\ \E code \in CodesOf(batches) \cup {Junk}, s \in ScopeChoices, a \in AuditChoices :
          /\ call' = [call EXCEPT ![c] =
                [kind |-> "verify", code |-> code, scope |-> s, persist_audit |-> a]]
          /\ Goto(c, IF s = NoScope THEN "verify" ELSE "throttle")
    /\ UNCHANGED <<tables, issued, lock, cache, result, found, todo, wrote, history>>

\* Calls in progress that will insert a batch count against the bound.
Inserting == {c \in Clients : /\ pc[c] # "idle"
                              /\ call[c].kind \in {"create", "reset"}
                              /\ wrote[c].batches = {}}

BatchRoom == issued + Cardinality(Inserting) < MaxBatches

CallCreate(c) ==
    /\ "create" \in Kinds
    /\ pc[c] = "idle"
    /\ BatchRoom
    /\ call' = [call EXCEPT ![c] = [kind |-> "create"]]
    /\ Goto(c, "insert")
    /\ UNCHANGED <<tables, issued, lock, cache, result, found, todo, wrote, history>>

CallReset(c) ==
    /\ "reset" \in Kinds
    /\ pc[c] = "idle"
    /\ BatchRoom
    /\ \E a \in AuditChoices :
          call' = [call EXCEPT ![c] =
                [kind |-> "reset", known |-> {}, persist_audit |-> a]]
    /\ Goto(c, "replace")
    /\ UNCHANGED <<tables, issued, lock, cache, result, found, todo, wrote, history>>

(***************************************************************************)
(* verify_recovery_code: the throttle is checked before any row is locked. *)
(***************************************************************************)
Result(class, code) == [classification |-> class, code |-> code]

AuditOf(c, class, subject) ==
    IF call[c].persist_audit THEN {[classification |-> class, subject |-> subject]} ELSE {}

CheckThrottle(c) ==
    /\ \/ /\ PassCheck(c, call[c].scope)
          /\ UNCHANGED result
       \/ /\ FailCheck(c, call[c].scope)
          /\ result' = [result EXCEPT ![c] = Result("throttled", None)]
    /\ UNCHANGED <<tables, issued, lock, call, found, todo, wrote, history>>

SelectActive(c) ==
    LET K == {k \in Codes : Active(k)} IN
    /\ pc[c] = "verify"
    /\ Statement(c, "active", K, Joined(K))
    /\ UNCHANGED <<tables, issued, lock, cache, call, result, wrote, history>>

\* The submitted code among the active ones it has locked: the row is saved.
Match(c) ==
    LET k == call[c].code IN
    /\ Arrived(c, "active")
    /\ k \in found[c] /\ Active(k)
    /\ wrote' = [wrote EXCEPT ![c].used = {k}]
    /\ result' = [result EXCEPT ![c] = Result("success", k)]
    /\ found' = [found EXCEPT ![c] = {}]
    /\ Goto(c, IF call[c].scope = NoScope THEN "commit" ELSE "reset")
    /\ UNCHANGED <<tables, issued, lock, cache, call, todo, history>>

\* Not among them: _find_replayed_recovery_code selects the others.
SelectHistorical(c) ==
    LET K == {k \in Codes : Historical(k)} IN
    /\ Arrived(c, "active")
    /\ ~(call[c].code \in found[c] /\ Active(call[c].code))
    /\ Statement(c, "history", K, Joined(K))
    /\ UNCHANGED <<tables, issued, lock, cache, call, result, wrote, history>>

Refuse(c) ==
    LET k == call[c].code  replayed == k \in found[c] /\ Historical(k) IN
    /\ Arrived(c, "history")
    /\ result' = [result EXCEPT ![c] = IF replayed THEN Result("replay", k)
                                                   ELSE Result("invalid", None)]
    /\ found' = [found EXCEPT ![c] = {}]
    /\ Goto(c, IF call[c].scope = NoScope THEN "commit" ELSE "add")
    /\ UNCHANGED <<tables, issued, lock, cache, call, todo, wrote, history>>

ResetThrottle(c) ==
    /\ Reset(c, call[c].scope)
    /\ UNCHANGED <<tables, issued, lock, locals, history>>

RecordFailure(c) ==
    /\ \/ Add(c, call[c].scope)
       \/ Incr(c, call[c].scope)
       \/ IncrRaises(c, call[c].scope)
       \/ SetOne(c, call[c].scope)
    /\ UNCHANGED <<tables, issued, lock, locals, history>>

(***************************************************************************)
(* reset_recovery_code_batch: update the batches, update the codes, insert *)
(* a new batch.  create_recovery_code_batch: insert only.                  *)
(***************************************************************************)
UpdateBatches(c) ==
    LET B == batches \ replaced_batches IN
    /\ pc[c] = "replace"
    /\ Statement(c, "batches", B, {BatchRow(b) : b \in B})
    /\ UNCHANGED <<tables, issued, lock, cache, call, result, wrote, history>>

UpdateCodes(c) ==
    LET K == {k \in Codes : Replaceable(k)} IN
    /\ Arrived(c, "batches")
    /\ wrote' = [wrote EXCEPT ![c].replaced_batches = found[c] \ replaced_batches]
    /\ call' = [call EXCEPT ![c].known = CodesOf(batches)]
    /\ Statement(c, "codes", K, {CodeRow(k) : k \in K})
    /\ UNCHANGED <<tables, issued, lock, cache, result, history>>

Insert(c) ==
    /\ pc[c] = "insert" \/ Arrived(c, "codes")
    /\ issued' = issued + 1
    /\ wrote' = [wrote EXCEPT ![c].batches = {issued + 1},
                              ![c].replaced = {k \in found[c] : Replaceable(k)},
                              ![c].audit = IF call[c].kind = "create" THEN {}
                                           ELSE AuditOf(c, "reset", issued + 1)]
    /\ found' = [found EXCEPT ![c] = {}]
    /\ Goto(c, "commit")
    /\ UNCHANGED <<tables, lock, cache, call, result, todo, history>>

(***************************************************************************)
(* The end of a call.                                                      *)
(***************************************************************************)
\* A slip: the end of a transaction leaves its rows locked.
KeepLocks(c) == lock

Release(c) == [r \in Rows |-> IF lock[r] = c THEN NoOne ELSE lock[r]]

Return(c) ==
    /\ lock' = Release(c)
    /\ Goto(c, "idle")
    /\ call' = [call EXCEPT ![c] = NoCall]
    /\ result' = [result EXCEPT ![c] = None]
    /\ found' = [found EXCEPT ![c] = {}]
    /\ todo' = [todo EXCEPT ![c] = {}]
    /\ wrote' = [wrote EXCEPT ![c] = NoWrites]

\* A verification inserts its audit event last, and a rejected one's is not kept.
Audited(c) ==
    wrote[c].audit \cup
        IF wrote[c].used # {} THEN AuditOf(c, "success", result[c].code) ELSE {}

Commit(c) ==
    LET w == wrote[c] IN
    /\ pc[c] = "commit"
    /\ batches' = batches \cup w.batches
    /\ replaced_batches' = replaced_batches \cup w.replaced_batches
    /\ used' = used \cup w.used
    /\ replaced' = replaced \cup w.replaced
    /\ audit' = audit \cup Audited(c)
    /\ uses' = [k \in Codes |-> uses[k] + (IF k \in w.used THEN 1 ELSE 0)]
    /\ doomed' = IF call[c].kind = "reset" THEN doomed \cup call[c].known ELSE doomed
    /\ Return(c)
    /\ UNCHANGED <<issued, cache>>

\* A slip: the batches are updated outside the transaction.
AbortKeepsBatches(c) ==
    /\ pc[c] # "idle"
    /\ replaced_batches' = replaced_batches \cup wrote[c].replaced_batches
    /\ Return(c)
    /\ UNCHANGED <<batches, used, replaced, audit, issued, cache, history>>

\* A slip: audit events are inserted outside the transaction.
AbortKeepsAudit(c) ==
    /\ pc[c] # "idle"
    /\ audit' = IF pc[c] = "commit" THEN audit \cup Audited(c) ELSE audit
    /\ Return(c)
    /\ UNCHANGED <<batches, replaced_batches, used, replaced, issued, cache, history>>

\* An exception, the end of the process, or the choice of the database among
\* deadlocked transactions: the transaction rolls back, the cache does not.
Abort(c) ==
    /\ pc[c] # "idle"
    /\ Return(c)
    /\ UNCHANGED <<tables, issued, cache, history>>

CacheForget(s) ==
    /\ Forget(s)
    /\ UNCHANGED <<tables, issued, lock, locals, history>>

(***************************************************************************)
(* Specification                                                           *)
(***************************************************************************)
Work(c) ==
    \/ CheckThrottle(c) \/ SelectActive(c) \/ Match(c) \/ SelectHistorical(c) \/ Refuse(c)
    \/ ResetThrottle(c) \/ RecordFailure(c)
    \/ UpdateBatches(c) \/ UpdateCodes(c) \/ Insert(c)
    \/ Commit(c)

Next ==
    \/ \E c \in Clients : \/ CallVerify(c) \/ CallCreate(c) \/ CallReset(c)
                          \/ LockRow(c) \/ Work(c) \/ Abort(c)
    \/ \E s \in Scopes : CacheForget(s)

Spec == Init /\ [][Next]_vars

\* A call is scheduled, a row lock comes to each transaction that waits for it,
\* and of transactions that wait in a circle the database aborts one.
Deadlocked(c) ==
    \E S \in SUBSET Clients :
        /\ c \in S
        /\ \A d \in S : todo[d] # {} /\ \A r \in NextRows(d) : lock[r] \in S \ {d}

Fairness ==
    \A c \in Clients : /\ WF_vars(Work(c))
                       /\ SF_vars(LockRow(c))
                       /\ WF_vars(Deadlocked(c) /\ Abort(c))

FairSpec == Spec /\ Fairness

(***************************************************************************)
(* Properties                                                              *)
(***************************************************************************)
Results == [classification: {"success", "replay", "invalid", "throttled"},
            code: Codes \cup {None}]

Events == [classification: {"success", "reset"}, subject: Codes \cup Batches]

\* Every variable has its type; a code has been used once or not at all.
TypeOK ==
    /\ batches \subseteq 1..issued
    /\ issued \in 0..MaxBatches
    /\ replaced_batches \subseteq batches
    /\ used \subseteq CodesOf(batches)
    /\ replaced \subseteq CodesOf(batches)
    /\ audit \subseteq Events
    /\ lock \in [Rows -> Clients \cup {NoOne}]
    /\ cache \in [Scopes -> Nat \cup {NoEntry}]
    /\ result \in [Clients -> Results \cup {None}]
    /\ todo \in [Clients -> SUBSET Rows]
    /\ uses \in [Codes -> {0, 1}]
    /\ doomed \subseteq Codes

\* Each recovery code is honoured at most once, however verifications of it
\* interleave with each other and with resets.
OneTime == INSTANCE OneTimeUse WITH
    Holders <- {"user"}, Tokens <- Codes, uses <- [h \in {"user"} |-> uses]

HonouredOnce == OneTime!Spec

\* A code is spent one way only: a reset does not replace a code that was used
\* while it waited for its row, and a replaced one is not used after the wait.
OneFate == used \cap replaced = {}

\* A batch is replaced with its codes: none of them is left usable.
ReplacedWhole == CodesOf(replaced_batches) \subseteq used \cup replaced

\* When every call is audited the trail explains the codes: exactly the codes
\* that were used have an accepted event, and a batch is only replaced by a reset
\* on record, which made a later batch.
AuditExplainsCodes ==
    AuditChoices = {TRUE} =>
        /\ used = {e.subject : e \in {x \in audit : x.classification = "success"}}
        /\ \A b \in replaced_batches :
              \E e \in audit : e.classification = "reset" /\ e.subject > b

\* Once a reset has returned, no code that was there when it came to replace the
\* codes is accepted again, whatever calls were under way.
ResetIsFinal ==
    [][\A k \in Codes : uses'[k] # uses[k] => k \notin doomed]_vars

\* A code the user was given is never called invalid, only replayed: what the
\* first query loses to a concurrent use or reset the second one finds.  And it
\* is called a replay only when it is spent for good, not when a transaction that
\* spent it was rolled back.
OwnCodeIsRecognised ==
    \A c \in Clients :
        pc[c] = "commit" /\ call[c].kind = "verify" /\ call[c].code # Junk =>
            /\ result[c].classification # "invalid"
            /\ result[c].classification = "replay" => Historical(call[c].code)

\* Every call returns, by an error at worst when it was deadlocked.
EveryCallReturns == \A c \in Clients : pc[c] # "idle" ~> pc[c] = "idle"

(***************************************************************************)
(* The inductive invariant behind the safety properties.                   *)
(***************************************************************************)
VerifyCalls == [kind: {"verify"}, code: Codes \cup {Junk},
                scope: ScopeChoices, persist_audit: AuditChoices]
CreateCalls == [kind: {"create"}]
ResetCalls  == [kind: {"reset"}, known: SUBSET Codes, persist_audit: AuditChoices]

Writes == [batches: SUBSET Batches, replaced_batches: SUBSET Batches,
           used: SUBSET Codes, replaced: SUBSET Codes, audit: SUBSET Events]

Verifying == {"throttle", "verify", "active", "history", "reset", "add", "incr", "set"}

\* What a client is doing goes with the call it was asked for.
LocalsAreTyped ==
    /\ pc \in [Clients -> Verifying \cup {"idle", "replace", "batches", "codes",
                                          "insert", "commit"}]
    /\ found \in [Clients -> SUBSET Int]
    /\ wrote \in [Clients -> Writes]
    /\ DOMAIN call = Clients
    /\ \A c \in Clients :
          /\ pc[c] \in Verifying => call[c] \in VerifyCalls
          /\ pc[c] \in {"replace", "batches", "codes"} => call[c] \in ResetCalls
          /\ pc[c] = "insert" => call[c] \in CreateCalls
          /\ pc[c] = "commit" => call[c] \in VerifyCalls \cup CreateCalls \cup ResetCalls

\* Calls under way leave room for the batches they will insert.
BatchesFit == issued + Cardinality(Inserting) <= MaxBatches

\* A client has, or has yet to lock, the rows its statement picked.
Claimed(c, r) == lock[r] = c \/ r \in todo[c]

HasRows(c) ==
    /\ pc[c] \in {"active", "history"} =>
          \A k \in found[c] : /\ k \in CodesOf(batches)
                              /\ Claimed(c, CodeRow(k))
                              /\ Claimed(c, BatchRow(BatchOf(k)))
    /\ pc[c] = "batches" =>
          \A b \in found[c] : b \in batches /\ Claimed(c, BatchRow(b))
    /\ pc[c] = "codes" =>
          \A k \in found[c] : k \in CodesOf(batches) /\ Claimed(c, CodeRow(k))
    /\ pc[c] \notin {"active", "history", "batches", "codes"} =>
          found[c] = {} /\ todo[c] = {}

\* What a transaction has written it holds the locks of, and it still qualifies.
WritesFit(c) ==
    LET w == wrote[c] IN
    /\ w.batches \subseteq 1..issued
    /\ \A b \in w.replaced_batches :
          b \in batches \ replaced_batches /\ lock[BatchRow(b)] = c
    /\ \A k \in w.used : /\ Active(k)
                          /\ lock[CodeRow(k)] = c
                          /\ lock[BatchRow(BatchOf(k))] = c
    /\ \A k \in w.replaced : Replaceable(k) /\ lock[CodeRow(k)] = c
    /\ pc[c] \notin {"reset", "codes", "commit"} => w = NoWrites
    /\ pc[c] = "codes" => w.batches = {} /\ w.used = {} /\ w.replaced = {}
    /\ w.replaced_batches # {} => call[c] \in ResetCalls
    /\ w.used = {} \/ (w.replaced_batches = {} /\ w.replaced = {})

\* A reset has claimed every code that was there, or somebody had spent it; the
\* codes of the batches it marks are among them.
KnownFits(c) ==
    /\ pc[c] = "codes" =>
          /\ CodesOf(wrote[c].replaced_batches) \subseteq call[c].known
          /\ call[c].known \subseteq found[c] \cup used \cup replaced
    /\ pc[c] = "commit" /\ call[c] \in ResetCalls =>
          /\ CodesOf(wrote[c].replaced_batches) \subseteq call[c].known
          /\ call[c].known \subseteq wrote[c].replaced \cup used \cup replaced

\* The event a call will leave says what the call has written.
AuditFits(c) ==
    LET w == wrote[c] IN
    /\ w.used # {} => w.used = {result[c].code} /\ call[c] \in VerifyCalls
    /\ \A e \in w.audit : e.classification = "reset"
    /\ pc[c] = "commit" /\ AuditChoices = {TRUE} =>
          \A b \in w.replaced_batches : \E e \in w.audit : e.subject > b

\* A code the user was given is found by one of the two queries.
AnswerFits(c) ==
    LET code == call[c].code IN
    pc[c] \in Verifying \cup {"commit"} /\ call[c] \in VerifyCalls /\ code # Junk =>
        /\ code \in CodesOf(batches)
        /\ pc[c] = "active" => code \in found[c] \/ ~Active(code)
        /\ pc[c] = "history" => code \in found[c] /\ Historical(code)
        /\ pc[c] \notin {"throttle", "verify", "active", "history"} =>
              /\ result[c].classification # "invalid"
              /\ result[c].classification = "replay" => Historical(code)

ClientFits(c) ==
    HasRows(c) /\ WritesFit(c) /\ KnownFits(c) /\ AuditFits(c) /\ AnswerFits(c)

\* The history: what was used was used once, what is doomed is spent.
HistoryFits ==
    /\ \A k \in Codes : uses[k] = IF k \in used THEN 1 ELSE 0
    /\ doomed \subseteq used \cup replaced

Inv ==
    /\ TypeOK /\ LocalsAreTyped /\ BatchesFit
    /\ \A c \in Clients : ClientFits(c)
    /\ OneFate /\ ReplacedWhole /\ HistoryFits /\ AuditExplainsCodes
=============================================================================
