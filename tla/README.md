# A TLA+ model of django-mfa-toolkit

The package `src/django_mfa_toolkit` adds second factors to a Django
application: HOTP and TOTP devices, recovery codes, a failure throttle, audit
events and a session flag. This directory holds a TLA+ model of it, the TLC
configurations that check the model on small instances, and TLAPS proofs of
what matters most for every instance. `PROJECT.json` maps every definition to
the lines it stands for.

## The system

Everything the toolkit does happens inside calls made by request threads or
processes. They share three things: the rows of the database (locked with
`select_for_update` inside `transaction.atomic`), one throttle entry per scope
in the Django cache (outside every transaction), and a user's session.

| component | state it keeps | operations | what makes it correct |
|---|---|---|---|
| HOTP services (`hotp.py`) | none | `enroll_hotp`, `verify_hotp`, `resync_hotp` | what was accepted is refused afterwards; resynchronisation repairs a drift and accepts nothing outside its window |
| TOTP services (`totp.py`) | none | `enroll_totp`, `verify_totp` | a step at or before the last accepted one is a replay; the window has both its ends |
| Throttle (`throttling.py`) | a cache entry per scope | check, record a failure, reset | no failure lost, bounded overshoot, a fixed window that ends |
| Device adapters (`device_adapters.py`, `models.py`) | device rows: counter or last step, `is_active`, `confirmed_at` | enrol, verify, resynchronise | each counter or step honoured once, counters only advance, under any interleaving |
| Audit (`audit.py`) | `MFAAuditEvent` rows | one insert in the adapter's transaction | the trail explains the counter |
| Recovery codes (`recovery_codes.py`) | batches and hashed codes | create, reset, verify | each code used once; after a reset only the new codes work |
| Session elevation (`session_elevation.py`) | a dict in the session | mark, check, clear, `mfa_required` | nobody inside without a recent factor; an elevation ends at its age, a cleared one stays cleared |
| Secret storage (`secret_storage.py`) | none; settings hold the keys | encrypt, decrypt | what was written can be read through a key rotation |
| Integration checks (`integration_checks.py`) | none | assertions on live devices | they pass on a correct integration |
| Security invariants (`security_invariants.py`) | none | a static report on signatures and a constant graph | - |

The adapters call the services on the row they have locked, the throttle before
and after, and the audit insert before they commit. The application around them
enrols, confirms and deactivates devices.

What is hard here: the check of a throttle and the count of a failure are
separate cache calls; the throttle is not rolled back with the transaction; a
request works on a device object read before its call; codes come late, twice
or out of order, and six-digit codes repeat; machines' clocks differ; a session
is loaded and saved as a whole by requests that overlap; processes of two
deployments run with different keys; and a process can end between any two
steps. `PROJECT.json` lists these hazards at
their lines with the properties that cover them.

## The modules

| module | models |
|---|---|
| `OneTimeCodes` | codes as uninterpreted values (`CodeAt`), the first match in a range |
| `HOTP` | the HOTP services as functions from arguments to result records |
| `HOTPServices` | a caller that stores `next_counter` of each result, over every table of codes |
| `TOTP` | the TOTP service, time counted in steps |
| `ThrottleSteps` | the throttle, one step per cache call |
| `Throttling` | the throttle in time, for callers that no row lock holds apart |
| `RecoveryCodes` | creation, reset and verification of one user's recovery codes, with the row locks of each statement; uses `ThrottleSteps` |
| `ThrottleOrder` | `RecoveryCodes` with a history of which calls waited for rows of another verification; for a finding |
| `OneTimeUse` | the abstract promise: a token of a holder is honoured at most once |
| `HOTPDevice` | the HOTP adapters: composes `HOTP` and `ThrottleSteps` with rows, locks, audit and aborts |
| `TOTPDevice` | the TOTP adapter: composes `TOTP` and `ThrottleSteps` with rows, locks and clocks |
| `SessionElevation` | the requests of one browser: load the session, mark, check, clear, save it |
| `KeyRotation` | processes with the settings of different deployments, and an operator who rotates the keys |
| `IntegrationChecks` | the replay assertions for integrators, as functions of a device and a table of codes; extends `HOTPServices` and `TOTP` |
| `ServicesProofs` | theorems about `HOTP`, `TOTP`, `HOTPServices`, `IntegrationChecks` |
| `HOTPDeviceProofs`, `HOTPThrottleAndTrailProofs`, `TOTPDeviceProofs`, `RecoveryCodesProofs`, `ThrottlingProofs`, `SessionElevationProofs`, `KeyRotationProofs` | theorems about the modules they are named after |
| `MC...` | the definitions that give constants their values for TLC |

### How they correspond to the code

*Codes.* `CodeAt(secret, n)` is what pyotp computes; nothing is assumed of it.
The loops of the services walk a range upwards and return the first hit, which
is `FirstOf` of the hits. Runs give `CodeAt` distinct values, values that repeat,
or every table over two codes.

*A call.* A client's `pc` names the next thing the adapter does: `lock`
(`select_for_update().get()`, then `_device_can_verify`), `throttle` (the cache
read), `verify` (the service, and the assignment to the locked object), `reset`
or `add`, `incr`, `set` (the cache writes), and `commit`. What the transaction
writes to the tables (counter, audit event) appears at `commit`, all at once,
when the lock goes; nobody else sees it sooner, because readers of the row that
matter wait for the lock. Cache writes appear when they are made and stay.
`Abort` is every exception (a service or save that raises, an audit insert that
fails, a lock wait that times out) and the end of the process: the tables and
the lock are as if the call had not been made, the cache is not.

*The environment.* Enrolment creates a row with the counter of the provisioning
URI, which is where the user's token starts. The application confirms a device
and flips `is_active` at any time, waiting for the row lock as an UPDATE does.
The token shows the next code when its button is pressed, whether or not the
code is ever submitted. A submission is any code shown so far (so: repeated,
late, out of order), a wrong one, or blank. A cache entry may vanish at any time.
Clients may call with or without a throttle scope where the instance says so.

*Recovery codes.* Verification and reset touch several rows in two statements
each, so `RecoveryCodes` models statements: one picks rows from what is
committed when it starts, locks them one at a time (`LockRow`), and uses those
that still qualify when it has them all, which is what PostgreSQL does at READ
COMMITTED, Django's default. The tables are sets (batches there, batches
replaced, codes used, codes replaced), what a transaction has written stays in
`wrote` until it commits, and a row lock stays until the transaction ends even
when the row no longer qualified. A verification locks code rows by primary key,
with the batch row after the first of its codes (`order_by("pk")` on the join);
an `UPDATE` locks its rows in any order (`NextRows`). Code rows and batch rows are locked by verification
(`select_related("batch")` joins the batch into the `FOR UPDATE`), batches first
and codes second by a reset, so calls deadlock; `Deadlocked` says when, and the
database then aborts one. Codes are distinct, and inserting a batch and its
codes is one step, since nobody can see them before the commit.

The audit events of accepted codes and of resets are part of the transaction;
those of rejected submissions say nothing of the tables and are not kept.

*Sessions.* Django's session middleware is modelled from how it treats a view: a
request has a copy loaded at its start (`Start`), and saves all of it at its end
if `modified` is set, the response is not an error, and the session still
exists (`Respond`); otherwise nothing is saved (`Crash`). `copy` is the marker in
that copy, `store` the one in the saved session. The clock has no absolute
value: a marker carries the time passed since it was taken, up to `Cap`, and how
far ahead the clock was that gave it, which is what the subtraction at
`session_elevation.py:47` compares. `Admit` and `Refuse` are `is_mfa_elevated`
and what `mfa_required` makes of it; a refusal clears the marker as the code
does. `since`, `standing`, `barred`, `stale` and `did` are history for the
properties.

*Keys.* A persisted secret is the key id it names and the key that encrypted it.
A process has the settings it was started with. The operator follows
`secret-storage.md`, "Key Rotation": adds a key, makes it primary, keeps the old
one until nothing is stored under it. Each of these is a deployment, and the
next one waits until every process runs the last (`RolledOut`); the document
does not say so, but with two steps in one deployment `EveryoneReads` fails.
Encrypting again is the application's, by `decrypt_secret` and `encrypt_secret`.
A call reads a row, and decrypts and saves later.

*Integration checks.* A helper makes two calls of an adapter on one device with
nobody else about; what the first stores is what the second is given.

*Left out of the data:* hashing, encryption, label and range checks that raise
before anything is computed (instances stay inside the ranges), window sizes
and timestamps of audit records.

*The cache.* Each cache call is atomic, and `incr` keeps the time an entry has
left, as in Django's local-memory, Redis and memcached backends. The database
and file backends inherit an `incr` that reads and then sets: concurrent records
may lose failures there and each one renews the timeout. They are outside this
model. All callers of a scope use one limit and one period.

## The runs

| run | question | bounds |
|---|---|---|
| `hotp_core` | is a counter honoured twice, the counter moved back or past the token, the check of a scope of one device inexact? | 2 clients, 1 device, counters 0..3, look-ahead 1, search window 2, limit 2 |
| `hotp_audit` | does the trail explain the counter, and are codes still good when their call fails after it has reset the throttle? | every call audited, 3 events, limit 1, two initial counters, throttled calls and others |
| `hotp_shared_fair` | how far is a limit overshot by devices that share a scope, and does every call return? | 2 clients, 2 devices, limit 1, counters 0..1, fair |
| `hotp_enrolment_guide` | does the guide's confirmation flow work? (it does not: see Findings) | as `hotp_core` |
| `hotp_services` | do the services keep their promises to a caller that stores `next_counter`, however codes repeat, and do the replay assertions pass on a correct integration? | all tables of two codes over counters 0..10; intervals half, equal to and twice the default |
| `throttle` | what do torn and concurrent records do to the count and its window, and does a lockout end? | 3 callers, limit 2, period 2, 6 failures |
| `totp_core` | are steps honoured once and in order, and is the user let in again? | 2 clients, clocks off by 1 either way, window 1, 3 steps of time, codes that come again every third step |
| `recovery_codes` | is a code used once, used or replaced but not both, told right from wrong, on the trail, and dead after a reset? | 2 clients, 2 batches of 2 codes, every call audited |
| `session_elevation` | is anybody inside without a recent factor, is an elevation lost or brought back, and do admissions end? | 2 overlapping requests, 1 session, age limits 1 and 3, clocks 1 apart, fair |
| `key_rotation` | is a stored secret ever unreadable, a call caught out by a rotation, an old key needed for ever? | 2 processes, 2 devices, 3 keys that replace each other for ever, fair |
| `recovery_liveness` | does every call return in spite of deadlocks? | 2 clients, 2 batches of 1 code, throttled |
| `recovery_throttle_order` | is a code compared only below the limit, as documented, by calls that wait for one another? (it is not: see Findings) | 2 clients, 1 code, limit 1 |

Two clients are enough for the row: a lock has one holder, and what a waiting
call can observe of the others is the state they committed, which two callers
reach in every combination through repeated calls. A scope shared by devices
shows its overshoot with two, and `Throttling` takes three. Counters run up to
the maximum of the column so that an acceptance that does not fit occurs, and
the windows are large enough for a skipped code, a resynchronisation across a
gap, and a sequence that straddles the stored counter. `MaxCounter`,
`MaxAudit`, `MaxFailures`, `MaxBatches`, `Horizon`, `LastStep` and the number of session `Keys` are the only bounds;
`MaxCounter` is the column's maximum and part of the code, the others cut runs.
`SessionElevation` and `KeyRotation` have no end: ages stop at `Cap`, beyond
which no check tells them apart, and retired keys may be added again. One session
is enough, since nothing relates two.
The call history is not kept: clients forget codes and results when they return.

### Properties worth a word

- `HonouredOnce` is refinement: the history `uses` behaves as `OneTimeUse`, in
  which an acceptance spends a non-empty set of unspent tokens.
- `CounterOnlyAdvances` bounds each step of the saved counter from both sides.
- `TokenNotOvertaken` is false when codes repeat, and is checked with distinct
  ones only. The other properties of `hotp_core` do not depend on the codes: the
  refinement and the bounds on the counter are proved for any.
- `FailuresBounded`, `OvershootBounded` say how far a limit can be overshot:
  one call per further device or caller. `CheckedIsAllowed` says that
  for a scope of one device the row lock makes the check exact.
- `AuditAccountsForCounter` ties three pieces of state: events, counter, uses.
- `RetryIsAccepted` is about the write that is not rolled back. The throttle is
  reset before the commit; when the audit insert or the commit fails the reset
  stands. Then the codes that earned it must be as good as they were: the row
  gives the same answer to them again, and a scope of the device alone has no
  failures left.
- `ResyncIsVerifyTwice` states resynchronisation by verification.
- `FailuresCounted` relates the cache entry to a history of reported failures
  and says exactly when it may fall short: a record torn by a death, an expiry
  or a reset.
- `UserIsNotShutOut`: a machine whose clock is ahead stores a step the others
  have not reached; once it has passed, the present code is accepted on all.
- `ResetIsFinal` follows every code that is there when a reset comes to replace
  codes through everything that overlaps it; `OwnCodeIsRecognised` relates the
  two queries of a verification, between which other transactions commit: a
  user's own code is never "invalid", and "replay" only when spent for good.
- `AuditExplainsCodes` ties the trail to the codes in both directions.
- `AdmittedOnFactor` looks back from an admission to the last factor accepted in
  the session, through whatever overlapping requests saved in between, and
  measures it by the age limit of the view that admits;
  `ElevationLapses` is its consequence in the long run. `StandingIsStored` and
  `ClearHolds` state what last-writer-wins still guarantees: a mark, or a clear,
  of a request that had the session to itself is final until the next one. For
  requests that overlap no such thing holds, see the observations below.
- `NoCallFails` includes calls that hold a secret which has been encrypted again
  since: their process still has the old key, because retiring it restarts them.
- `HOTPCheckIsExact` and `TOTPCheckIsExact` give the exact condition under which
  a replay assertion passes, so what remains is a list of its false alarms. The
  second also fixes what becomes of a code that repeats in the window: it is
  refused exactly when one of its steps there is spent.

### Fairness

`HOTPDevice!FairSpec` assumes that a call which holds its lock goes on or its
transaction ends (weak fairness: a thread is scheduled, and the database rolls
back the transaction of a dead connection), and that the database grants a row
lock to each waiting transaction in the end although others take it in between
(strong fairness on `Lock`: row-lock queues are first come, first served).
Nothing is assumed of users or the application. `RecoveryCodes!FairSpec` assumes
the same and that the database aborts one of several transactions that wait in a
circle. `Throttling!FairSpec` and `SessionElevation!FairSpec` assume only that
time passes. `KeyRotation!FairSpec` assumes that a deployment that was begun
reaches every process, and that encrypting a row again, which a call or a
restart may interrupt, is tried until it succeeds (strong fairness on reading a
row under an old key, encrypting and saving); nothing is assumed of the
operator, who may promote or retire or never do either.

## Findings

`hotp_enrolment_guide` (documentation against code): the integration guide,
`.docs/design/mvp-integration-guide.md:54` and its two enrolment flows (80-97,
123-141), confirm a new device by its first accepted code, while the adapters
refuse every code of an unconfirmed device (`device_adapters.py:145`, `:193`,
`:258`), as `device-persistence-contracts.md:114` says they should. The
counterexample is four steps: enrol, press the token, call with the right code,
refused. An application that follows the guide never confirms a device.

`recovery_throttle_order` (documentation against code): the design document,
`.docs/design/recovery-code-support.md:79-81`, and the integration guide, line
245, lock the user's rows before they apply the throttle; `verify_recovery_code`
checks the throttle first (line 160) and locks the rows afterwards (line 173).
With the documented order the lock would make the check exact for calls that
wait for one another, as it does in the device adapters: with `CheckThrottle`
moved behind the locks `ThrottledBeforeCompare` holds on the same instance. In
the code's order it fails, and the counterexample is: a batch of one code is
created; a first verification passes the check, locks the code and its batch,
finds its submission wrong and is about to count the failure; a second one
passes the check, selects the active code and waits for its row; the first
counts its failure, which is the limit, and commits; the second locks the rows
and compares. `ThrottleOrder` remembers who waited, so that the property is
about such calls only, and not about one that found no rows to wait for.
`OvershootBounded` in `throttle` says how far that goes.

Observations that no document contradicts. Two resets of a user who has no
active batch lock nothing and do not see each other's rows: both batches stay
active. A reset that waited for another one marks the other's new codes replaced
and leaves its batch active without a usable code. A request that clears the
elevation, but loaded the session before another one marked it, has nothing to
clear, and the elevation stands. A request that was under way while another one
cleared the elevation, and that changes anything in the session, writes it back,
with its old age: it is admitted until that age is over (`AdmittedOnFactor`).
`assert_totp_device_rejects_replay` does not pass the interval of the device to
pyotp (`integration_checks.py:43`) and fails on a correct device whose interval is
not the default, save by coincidence; the HOTP assertion fails on a correct
device when the object passed in is stale, when `replay_window` is 0, or when
the code comes again within the look-ahead.

## Proofs

Every theorem holds for any number of clients, devices, sessions or keys and any
windows and ages, from the assumptions named in the modules and nothing else;
`TokenIsAhead` and `UserGetsIn` state what they assume of the codes. Each proof module has the same shape: an inductive invariant `Inv` (or a
conjunction of that name) that TLC has checked on the small instance, one lemma
per action that it is preserved, `Invariance` (`Spec => []Inv`), and the
properties as corollaries.

| module | theorems |
|---|---|
| `ServicesProofs` | `VerifyFinds`, `ResyncFinds`, `VerifyTOTPFinds` (the services against reference definitions), `ReplayRefused` (`ReplayIsRefused`), `ResyncVerifiesTwice` (`ResyncIsVerifyTwice`), `DriftRepaired` (`DriftIsRepaired`), `HOTPCheckExact` (`HOTPCheckIsExact`), `TOTPCheckExact` (`TOTPCheckIsExact`) |
| `HOTPDeviceProofs` | `TypeCorrect`, `AuditOrder`, `HoldersAreAtWork`, `CounterAdvances` (`CounterOnlyAdvances`), `EachCounterOnce` (`HonouredOnce`, the refinement of `OneTimeUse`), `TokenIsAhead` (`TokenNotOvertaken`) |
| `HOTPThrottleAndTrailProofs` | `CheckIsExact` (`CheckedIsAllowed`), `Overshoot` (`FailuresBounded`), `ResetIsBacked` (`RetryIsAccepted`), `AuditAccounts` (`AuditAccountsForCounter`) |
| `TOTPDeviceProofs` | `TypeCorrect`, `HoldersAreAtWork`, `StepsInOrder` (`AcceptedInOrder`), `EachStepOnce` (`HonouredOnce`, the refinement of `OneTimeUse`), `UserGetsIn` (`UserIsNotShutOut`) |
| `RecoveryCodesProofs` | `TypeCorrect`, `CodesHaveOneFate` (`OneFate`), `BatchesAreReplacedWhole` (`ReplacedWhole`), `AuditExplains` (`AuditExplainsCodes`), `OwnCodeRecognised` (`OwnCodeIsRecognised`), `ResetHolds` (`ResetIsFinal`), `EachCodeOnce` (`HonouredOnce`, the refinement of `OneTimeUse`) |
| `ThrottlingProofs` | `TypeCorrect`, `CountIsRight` (`FailuresCounted`), `Overshoot` (`OvershootBounded`), `SettledLockout` (`SettledLockoutHolds`), `FixedWindow` (`WindowIsFixed`) |
| `SessionElevationProofs` | `TypeCorrect`, `AdmissionNeedsFactor` (`AdmittedOnFactor`), `ElevationStands` (`StandingIsStored`), `ClearIsFinal` (`ClearHolds`) |
| `KeyRotationProofs` | `TypeCorrect`, `StoredIsReadable` (`EveryoneReads`), `CallsSucceed` (`NoCallFails`), `DemotedKeyIsIdle` |

*Services.* A search is `CHOOSE` of the least hit, so every proof begins with the
fact that a non-empty part of an interval has a least element (`LeastOfInterval`),
which follows from the well-foundedness of `<` on `Nat`. `IsFirst` and `IsFirstRun`
say what a search is to find, `VerifyResult`, `ResyncResult` and `TOTPVerifyResult`
what a service is to answer, without reference to the order in which the code
looks; the services are shown to answer that for any table, counter and windows,
and any number of codes. The properties of `HOTPServices` then are about a caller
who stores `next_counter`, whose invariant is that the codes accepted last are those
right below the stored counter (`LastIsSpent`). `HOTPCheckExact` and
`TOTPCheckExact` compose two answers. The assumptions are that a secret is the table
of its codes (`TablesAssumption`), that a blank code is in no table, and that the
windows stay inside the tables (`HorizonAssumption`, `IntervalsAssumption`): the
tables are finite, their length is arbitrary.

*HOTP and TOTP.* None of the properties is inductive. A commit writes the result
computed two or more steps earlier from the row the call read, so `Inv` says
what the lock buys: a client past its lock step holds the lock of its row and
the column it read is still the one in the table (`RowIsCurrent`), and the
result it carries fits that column (`ResultsFit`): for HOTP it starts at the
counter and moves forward by a bounded amount, for TOTP it is a step after the
stored one and no further ahead than clocks and windows reach. What was spent
lies below the saved counter (`SpentIsBelowCounter`), or not after the stored
step (`SpentUpToLast`). A commit then spends what is unspent, and the refinement
follows. Lemmas state what `find_matching_counter`, `verify_hotp`, `resync_hotp`,
`find_matching_timecode` and `verify_totp` return.

Four more invariants rest on that of `HOTPDevice`. `InvWithThrottle` counts, beside
the failures of a scope, the devices with a call past its check
(`RoomForChecked`): row locks allow one such call a device. A scope of one device
then has one such call, and nobody else moves its count (`CheckIsExact`).
`RetriesFit` says of an accepted result that the service would compute it again from
the codes at the counters it matched, which are those submitted, and the row, which
is still the one read; and that nobody counts on a scope of its own once it is reset.
`InvWithTrail` adds that a row without events still has the counter it was enrolled
with (`AuditBegins`); a commit's event begins with the counter the row has, since
the row read is current. `InvWithToken` says that codes come from the token and
that results go no further than it, when a counter's code tells the counter
(`CodesAreDistinct`). `UserGetsIn` needs only that no code comes again within
twice the window (`CodesDiffer`), and `Skew <= ValidWindow`.

*Recovery codes.* No lock covers all a call reads, so `Inv` follows each row on
its own: what a statement picked the call has locked or has still to lock
(`HasRows`); what the transaction has written it holds the locks of, and it
still qualifies (`WritesFit`), so a commit changes the fate of nothing that has
one; a reset has claimed every code that was there, or somebody had spent it
(`KnownFits`); the events a call will leave say what it wrote (`AuditFits`); and
the user's code is found by one of the two queries (`AnswerFits`). That the
commit of one call disturbs none of this for the others is the longest part: a
row it changed was locked by it, so the others may have it in `todo` but not in
what they wrote.

*Throttle.* The bound on the count is not inductive: `RoomForAdmitted` counts
the callers past the check as well, who may each add one more. `LostIsTorn` says
that a record which no longer finds an entry after `add` belongs to a history
marked torn. Both are arguments on cardinalities of sets of callers, hence the
assumption that there are finitely many.

*Sessions.* `AdmittedOnFactor` needs that no marker anywhere, stored or in a
copy, is younger than the last factor (`NoneLooksYounger`): copies age, and
saving one moves a marker without making it younger. `StandingIsStored` and
`ClearHolds` need that what was saved alone is what every later request loads
(`RequestsAgree`), that a request without changes has what is stored, unless it
was overtaken (`CopyIsCurrent`), and that a session that is gone was logged out
(`RequestsFit`).

*Keys.* Processes differ in their settings during a deployment, and a secret may
be saved by a process that will be restarted next. `Inv` says that all primary
keys in use, the next one and those of all stored secrets are known to every
process and stay in the target settings (`PrimariesKnown`, `StoredKnown`), and
what a call holds is under a key of its process (`HeldFits`). `Retire` waits for
`RolledOut`, so no process can still write under the key that goes.

*Only model-checked* are the liveness properties: `EveryCallReturns` of HOTP and of
recovery codes, `LockoutEnds`, `ElevationLapses`, `OldKeyFallsIdle`. They rest on
fairness and on which steps are enabled, which the prover does not reason about.
The safety facts under them are proved where they hold. `HoldersAreAtWork`: the
holder of a row lock waits for nobody, so that calls on devices cannot wait in a
circle (those on recovery codes can, and the database ends it). `FixedWindow`: the
time of an entry is not started anew. `AdmissionNeedsFactor`: no admission without a
recent factor. `DemotedKeyIsIdle`: no row comes under a key that is nobody's primary
one. No run lists what the first and the last of these state, `LockHoldersWork` and
`DemotedKeyDrains`, nor `AuditIsOrdered`, which `AuditOrder` proves and
`AuditAccountsForCounter` implies where every call is audited; added to the
configurations of `hotp_shared_fair`, `totp_core`, `key_rotation` (with `Spec`)
and `hotp_audit`, TLC finds them true.

## Not modelled

The security-invariant report is static: it inspects signatures, compares lists
of control identifiers and checks a constant graph. Of the integration checks the
recovery-code assertion, the comparisons of status codes and the runner are left
out. Of secret storage the text format and its validation, and the cipher, which
is a library. Of sessions the `factor` and `device_id` of a marker, which nothing
reads, and markers that were tampered with or are naive (`_parse_elevated_at`
makes those aware). Deleting users and devices, Django's admin, labels, indexes
and migrations are left out.

## Plan

1. Done: services, throttle, HOTP and TOTP adapters, recovery codes, session
   elevation, key rotation, the replay assertions; proofs of every invariant and
   action property that a run checks.
2. Possible next: the throttle of recovery codes as an instance of the bound in
   `Throttling`; a bound on the wait of the calls on one row.
