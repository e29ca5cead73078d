--------------------------- MODULE ServicesProofs ---------------------------
(***************************************************************************)
(* Proofs about the services of HOTP and TOTP, for every table of codes:   *)
(* what a search returns, what verify_hotp and resync_hotp return, what a  *)
(* caller who stores next_counter gets, and what the checks of             *)
(* integration_checks.py conclude.                                         *)
(***************************************************************************)
EXTENDS IntegrationChecks, WellFoundedInduction, TLAPS

(***************************************************************************)
(* A search finds the least element of what it searches, or nothing.       *)
(***************************************************************************)
NatLess == {p \in Nat \X Nat : p[1] < p[2]}

LEMMA LeastOfNat ==
    ASSUME NEW S \in SUBSET Nat, S # {}
    PROVE  \E n \in S : IsLeast(n, S)
<1>1. IsWellFoundedOn(NatLess, Nat)
  BY NatLessThanWellFounded, Zenon DEF OpToRel, NatLess
<1>2. PICK n \in S : \A m \in S : <<m, n>> \notin NatLess
  BY <1>1, WFMin
<1>3. ASSUME NEW m \in S PROVE n <= m
  <2>1. ~(m < n)
    BY <1>2, Zenon DEF NatLess
  <2> QED
    BY <2>1
<1> QED
  BY <1>3 DEF IsLeast

\* Part of an interval: the distances from its lower end are natural numbers.
LEMMA LeastOfInterval ==
    ASSUME NEW a \in Int, NEW b \in Int, NEW S \in SUBSET (a..b), S # {}
    PROVE  \E n \in S : IsLeast(n, S)
<1>1. PICK T : T = {n - a : n \in S}
  OBVIOUS
<1>2. T \in SUBSET Nat /\ T # {}
  <2>1. \A n \in S : n - a \in Nat
    OBVIOUS
  <2> QED
    BY <1>1, <2>1
<1>3. PICK t \in T : IsLeast(t, T)
  BY <1>2, LeastOfNat
<1>4. PICK n \in S : t = n - a
  BY <1>1, <1>3
<1>5. ASSUME NEW m \in S PROVE n <= m
  <2>1. t <= m - a
    BY <1>1, <1>3 DEF IsLeast
  <2> QED
    BY <1>4, <2>1
<1> QED
  BY <1>5 DEF IsLeast

\* What the searches of the services return: f is the first hit in a..b, or None
\* when there is none.
IsFirstIn(f, S, a, b) ==
    /\ f # None => f \in a..b /\ f \in S /\ \A n \in a..(f - 1) : n \notin S
    /\ f = None => \A n \in a..b : n \notin S

LEMMA FirstHit ==
    ASSUME NEW a \in Int, NEW b \in Int, NEW S \in SUBSET (a..b)
    PROVE  IsFirstIn(FirstOf(S), S, a, b)
<1>0. PICK f : f = FirstOf(S)
  OBVIOUS
<1>1. ASSUME S = {} PROVE f = None
  BY <1>0, <1>1 DEF FirstOf
<1>2. ASSUME S # {}
      PROVE  f # None /\ f \in a..b /\ f \in S /\ \A n \in a..(f - 1) : n \notin S
  <2>1. \E n \in S : IsLeast(n, S)
    BY <1>2, LeastOfInterval
  <2>2. f \in S /\ IsLeast(f, S)
    BY <1>0, <2>1 DEF FirstOf
  <2>3. f \in a..b /\ f # None
    BY <2>2, NoneAssumption
  <2>4. ASSUME NEW n \in a..(f - 1) PROVE n \notin S
    BY <2>2, <2>3 DEF IsLeast
  <2> QED
    BY <2>2, <2>3, <2>4
<1> QED
  BY <1>0, <1>1, <1>2 DEF IsFirstIn

(***************************************************************************)
(* The searches of HOTP, in a table of codes.                              *)
(***************************************************************************)
LEMMA WindowsFit ==
    /\ Horizon \in Nat /\ MaxCounter \in Nat
    /\ LookAhead \in Nat /\ SearchWindow \in Nat /\ ReplayWindow \in Nat
    /\ MaxCounter + LookAhead + SearchWindow + 2 <= Horizon
BY HorizonAssumption

\* f is the first counter of a..b with that code; None when there is none.
IsFirst(f, s, code, a, b) ==
    /\ f # None => f \in a..b /\ s[f] = code /\ \A n \in a..(f - 1) : s[n] # code
    /\ f = None => \A n \in a..b : s[n] # code

\* The table shows the codes one after the other, from the counter n on.
ShownAt(s, codes, n) == \A i \in 1..Len(codes) : s[n + i - 1] = codes[i]

\* f is the first counter from which the codes are shown inside a..b.
IsFirstRun(f, s, codes, a, b) ==
    /\ f # None => /\ f \in a..LastStart(codes, b) /\ ShownAt(s, codes, f)
                   /\ \A n \in a..(f - 1) : ~ShownAt(s, codes, n)
    /\ f = None => \A n \in a..LastStart(codes, b) : ~ShownAt(s, codes, n)

LEMMA FindCounter ==
    ASSUME NEW s \in Tables, NEW code, NEW a \in Nat, NEW b \in Int, b <= Horizon
    PROVE  IsFirst(find_matching_counter(s, code, a, b), s, code, a, b)
<1>0. PICK f : f = find_matching_counter(s, code, a, b)
  OBVIOUS
<1>1. PICK S : S = {n \in a..b : CodeAt(s, n) = code}
  OBVIOUS
<1>2. ASSUME NEW n \in a..b PROVE n \in S <=> s[n] = code
  BY <1>1, WindowsFit, TablesAssumption
<1>3. S \in SUBSET (a..b) /\ f = FirstOf(S)
  BY <1>0, <1>1 DEF find_matching_counter
<1>4. IsFirstIn(f, S, a, b)
  <2>1. a \in Int
    OBVIOUS
  <2> QED
    BY <1>3, <2>1, FirstHit
<1>5. IsFirst(f, s, code, a, b)
  BY <1>2, <1>3, <1>4 DEF IsFirst, IsFirstIn
<1> QED
  BY <1>0, <1>5

LEMMA FindSequence ==
    ASSUME NEW s \in Tables, NEW codes, Len(codes) \in Nat,
           NEW a \in Nat, NEW b \in Int, b <= Horizon
    PROVE  IsFirstRun(find_matching_sequence(s, codes, a, b), s, codes, a, b)
<1>0. PICK f, e, S :
         /\ f = find_matching_sequence(s, codes, a, b) /\ e = LastStart(codes, b)
         /\ S = {n \in a..e : \A i \in 1..Len(codes) : CodeAt(s, n + i - 1) = codes[i]}
  OBVIOUS
<1>1. a \in Int /\ e \in Int /\ e = b - Len(codes) + 1 /\ S \in SUBSET (a..e)
  BY <1>0 DEF LastStart
<1>2. ASSUME NEW n \in a..e PROVE n \in S <=> ShownAt(s, codes, n)
  <2>1. ASSUME NEW i \in 1..Len(codes) PROVE CodeAt(s, n + i - 1) = s[n + i - 1]
    <3>1. n + i - 1 \in 0..Horizon
      BY <1>1, WindowsFit
    <3> QED
      BY <3>1, TablesAssumption
  <2> QED
    BY <1>0, <2>1 DEF ShownAt
<1>3. f = FirstOf(S)
  BY <1>0 DEF find_matching_sequence
<1>4. IsFirstIn(f, S, a, e)
  BY <1>1, <1>3, FirstHit
<1>5. /\ f # None => /\ f \in a..e /\ ShownAt(s, codes, f)
                     /\ \A n \in a..(f - 1) : ~ShownAt(s, codes, n)
      /\ f = None => \A n \in a..e : ~ShownAt(s, codes, n)
  BY <1>1, <1>2, <1>4 DEF IsFirstIn
<1> QED
  BY <1>0, <1>5 DEF IsFirstRun

(***************************************************************************)
(* What the services of HOTP return.                                       *)
(***************************************************************************)
LEMMA ReplayRange ==
    ASSUME NEW c \in Nat, NEW back \in Nat
    PROVE  /\ ReplayStart(c, back) \in Nat
           /\ 1 <= c => (ReplayStart(c, back) <= c - 1 <=> back >= 1)
           /\ 2 <= c => (ReplayStart(c, back) <= c - 2 <=> back >= 2)
BY DEF ReplayStart

LEMMA BlankIsRefused ==
    ASSUME NEW s, NEW c, NEW w, NEW back, NEW res, res = verify_hotp(s, Blank, c, w, back)
    PROVE  ~res.accepted /\ res.next = c
BY DEF verify_hotp, Rejected

LEMMA BlankPairIsRefused ==
    ASSUME NEW s, NEW x, NEW y, NEW c, NEW w, NEW back, x = Blank \/ y = Blank,
           NEW res, res = resync_hotp(s, <<x, y>>, c, w, back)
    PROVE  ~res.accepted /\ res.next = c
<1>1. \E i \in 1..Len(<<x, y>>) : <<x, y>>[i] = Blank
  OBVIOUS
<1> QED
  BY <1>1 DEF resync_hotp, Rejected

\* res accepts the first counter of the window with that code, or refuses it, and
\* then it says "replay" when one of the counters behind has it.
VerifyResult(res, s, x, c, w, back) ==
    /\ res.accepted => /\ res.matched \in c..(c + w) /\ s[res.matched] = x
                       /\ \A n \in c..(res.matched - 1) : s[n] # x
                       /\ res.next = res.matched + 1
                       /\ res.classification = IF res.matched = c
                                                 THEN "success" ELSE "counter_window_match"
    /\ ~res.accepted => /\ \A n \in c..(c + w) : s[n] # x
                        /\ res.next = c
                        /\ res.classification =
                              IF \E n \in ReplayStart(c, back)..(c - 1) : s[n] = x
                                THEN "replay" ELSE "invalid"

\* The same of codes shown one after the other inside the window; when not even the
\* first of them is in the window, that is excessive drift.
ResyncResult(res, s, codes, c, w, back) ==
    /\ res.accepted => /\ res.matched \in c..(c + w - Len(codes) + 1)
                       /\ ShownAt(s, codes, res.matched)
                       /\ \A n \in c..(res.matched - 1) : ~ShownAt(s, codes, n)
                       /\ res.next = res.matched + Len(codes)
                       /\ res.classification = "resync_success"
    /\ ~res.accepted =>
          /\ \A n \in c..(c + w - Len(codes) + 1) : ~ShownAt(s, codes, n)
          /\ res.next = c
          /\ res.classification =
                IF \E n \in ReplayStart(c, back)..(c - Len(codes)) : ShownAt(s, codes, n)
                  THEN "replay"
                ELSE IF \A n \in c..(c + w) : s[n] # codes[1] THEN "excessive_drift"
                ELSE "invalid"

\* verify_hotp returns that, for every table of codes, counter and window.
THEOREM VerifyFinds ==
    ASSUME NEW s \in Tables, NEW x \in CodeSpace, NEW c \in Nat, NEW w \in Nat,
           NEW back \in Nat, c + w <= Horizon
    PROVE  VerifyResult(verify_hotp(s, x, c, w, back), s, x, c, w, back)
<1>0. PICK res : res = verify_hotp(s, x, c, w, back)
  OBVIOUS
<1>1. PICK ahead, spent :
         /\ ahead = find_matching_counter(s, x, c, c + w)
         /\ spent = find_matching_counter(s, x, ReplayStart(c, back), c - 1)
  OBVIOUS
<1>2. IsFirst(ahead, s, x, c, c + w)
  <2>1. c + w \in Int
    OBVIOUS
  <2> QED
    BY <1>1, <2>1, FindCounter
<1>3. (spent # None) <=> \E n \in ReplayStart(c, back)..(c - 1) : s[n] = x
  <2>1. ReplayStart(c, back) \in Nat /\ c - 1 \in Int /\ c - 1 <= Horizon
    <3>1. ReplayStart(c, back) \in Nat
      BY ReplayRange
    <3> QED
      BY <3>1, WindowsFit
  <2>2. IsFirst(spent, s, x, ReplayStart(c, back), c - 1)
    BY <1>1, <2>1, FindCounter
  <2> QED
    BY <2>1, <2>2 DEF IsFirst
<1>4. x # Blank
  BY TablesAssumption
<1>5. ASSUME ahead # None PROVE VerifyResult(res, s, x, c, w, back)
  <2>1. res = Accepted(IF ahead = c THEN "success" ELSE "counter_window_match",
                       c, ahead, ahead + 1)
    BY <1>0, <1>1, <1>4, <1>5, NoneAssumption DEF verify_hotp
  <2> QED
    BY <1>2, <1>5, <2>1 DEF Accepted, IsFirst, VerifyResult
<1>6. ASSUME ahead = None PROVE VerifyResult(res, s, x, c, w, back)
  <2>1. res = IF spent # None THEN Rejected("replay", c, spent)
                              ELSE Rejected("invalid", c, None)
    BY <1>0, <1>1, <1>4, <1>6, NoneAssumption DEF verify_hotp
  <2> QED
    BY <1>2, <1>3, <1>6, <2>1 DEF Rejected, IsFirst, VerifyResult
<1> QED
  BY <1>0, <1>5, <1>6

\* resync_hotp returns that, for every table and any number of codes from two on.
THEOREM ResyncFinds ==
    ASSUME NEW s \in Tables, NEW codes \in Seq(CodeSpace), EnoughCodes(codes),
           NEW c \in Nat, NEW w \in Nat, NEW back \in Nat, c + w <= Horizon
    PROVE  ResyncResult(resync_hotp(s, codes, c, w, back), s, codes, c, w, back)
<1>0. PICK k, ahead, spent, first, res :
         /\ k = Len(codes)
         /\ ahead = find_matching_sequence(s, codes, c, c + w)
         /\ spent = find_matching_sequence(s, codes, ReplayStart(c, back), c - 1)
         /\ first = find_matching_counter(s, codes[1], c, c + w)
         /\ res = resync_hotp(s, codes, c, w, back)
  OBVIOUS
<1>1. k \in Nat /\ k >= 2 /\ LastStart(codes, c + w) = c + w - k + 1
      /\ LastStart(codes, c - 1) = c - k
  BY <1>0 DEF EnoughCodes, LastStart
<1>2. IsFirstRun(ahead, s, codes, c, c + w)
  <2>1. c + w \in Int
    OBVIOUS
  <2> QED
    BY <1>0, <2>1, FindSequence
<1>3. spent # None <=> \E n \in ReplayStart(c, back)..(c - k) : ShownAt(s, codes, n)
  <2>1. ReplayStart(c, back) \in Nat /\ c - 1 \in Int /\ c - 1 <= Horizon
    <3>1. ReplayStart(c, back) \in Nat
      BY ReplayRange
    <3> QED
      BY <3>1, WindowsFit
  <2>2. IsFirstRun(spent, s, codes, ReplayStart(c, back), c - 1)
    BY <1>0, <2>1, FindSequence
  <2> QED
    BY <1>1, <2>1, <2>2 DEF IsFirstRun
<1>4. first = None <=> \A n \in c..(c + w) : s[n] # codes[1]
  <2>1. c + w \in Int
    OBVIOUS
  <2>2. IsFirst(first, s, codes[1], c, c + w)
    BY <1>0, <2>1, FindCounter
  <2> QED
    BY <2>2 DEF IsFirst
<1>5. ~\E i \in 1..Len(codes) : codes[i] = Blank
  <2>1. \A i \in 1..Len(codes) : codes[i] \in CodeSpace
    OBVIOUS
  <2> QED
    BY <2>1, TablesAssumption
<1>6. ASSUME ahead # None PROVE ResyncResult(res, s, codes, c, w, back)
  <2>1. res = Accepted("resync_success", c, ahead, ahead + k)
    BY <1>0, <1>5, <1>6 DEF resync_hotp
  <2>2. /\ res.accepted = TRUE /\ res.classification = "resync_success"
        /\ res.matched = ahead /\ res.next = ahead + k
    BY <2>1 DEF Accepted
  <2> QED
    BY <1>0, <1>1, <1>2, <1>6, <2>2 DEF IsFirstRun, ResyncResult
<1>7. ASSUME ahead = None PROVE ResyncResult(res, s, codes, c, w, back)
  <2>1. \/ spent # None /\ res = Rejected("replay", c, spent)
        \/ spent = None /\ first = None /\ res = Rejected("excessive_drift", c, None)
        \/ spent = None /\ first # None /\ res = Rejected("invalid", c, first)
    BY <1>0, <1>5, <1>7 DEF resync_hotp
  <2>2. /\ res.accepted = FALSE /\ res.next = c
        /\ res.classification = IF spent # None THEN "replay"
                                ELSE IF first = None THEN "excessive_drift" ELSE "invalid"
    BY <2>1 DEF Rejected
  <2> QED
    BY <1>0, <1>1, <1>2, <1>3, <1>4, <1>7, <2>2 DEF IsFirstRun, ResyncResult
<1> QED
  BY <1>0, <1>6, <1>7

\* Two codes, as the callers of HOTPServices submit them.
PairResult(res, s, x, y, c, w, back) ==
    /\ res.accepted => /\ res.matched \in c..(c + w - 1)
                       /\ s[res.matched] = x /\ s[res.matched + 1] = y
                       /\ \A n \in c..(res.matched - 1) : ~(s[n] = x /\ s[n + 1] = y)
                       /\ res.next = res.matched + 2
    /\ ~res.accepted => /\ \A n \in c..(c + w - 1) : ~(s[n] = x /\ s[n + 1] = y)
                        /\ res.next = c
                        /\ (res.classification = "replay") <=>
                              \E n \in ReplayStart(c, back)..(c - 2) :
                                 s[n] = x /\ s[n + 1] = y

LEMMA ResyncPairFinds ==
    ASSUME NEW s \in Tables, NEW x \in CodeSpace, NEW y \in CodeSpace,
           NEW c \in Nat, NEW w \in Nat, NEW back \in Nat, c + w <= Horizon
    PROVE  PairResult(resync_hotp(s, <<x, y>>, c, w, back), s, x, y, c, w, back)
<1>0. PICK codes, res : codes = <<x, y>> /\ res = resync_hotp(s, codes, c, w, back)
  OBVIOUS
<1>1. codes \in Seq(CodeSpace) /\ Len(codes) = 2 /\ EnoughCodes(codes)
  BY <1>0 DEF EnoughCodes
<1>2. ASSUME NEW n \in Int PROVE ShownAt(s, codes, n) <=> s[n] = x /\ s[n + 1] = y
  <2>1. 1..2 = {1, 2} /\ n + 1 - 1 = n /\ n + 2 - 1 = n + 1
    OBVIOUS
  <2> QED
    BY <1>0, <1>1, <2>1 DEF ShownAt
<1>3. ResyncResult(res, s, codes, c, w, back)
  BY <1>0, <1>1, ResyncFinds
<1>4. ReplayStart(c, back) \in Nat /\ c + w - 2 + 1 = c + w - 1
  BY ReplayRange
<1>5. ASSUME res.accepted PROVE PairResult(res, s, x, y, c, w, back)
  BY <1>1, <1>2, <1>3, <1>4, <1>5 DEF ResyncResult, PairResult
<1>6. ASSUME ~res.accepted PROVE PairResult(res, s, x, y, c, w, back)
  BY <1>1, <1>2, <1>3, <1>4, <1>6 DEF ResyncResult, PairResult
<1> QED
  BY <1>0, <1>5, <1>6

(***************************************************************************)
(* What the service of TOTP returns.                                       *)
(***************************************************************************)
\* find_matching_timecode returns the first step of the window with that code.
LEMMA FindTimecode ==
    ASSUME NEW s, NEW x, NEW base \in Int, NEW w \in Nat,
           NEW S, S = {t \in Steps(base, w) : CodeAt(s, t) = x}
    PROVE  IsFirstIn(find_matching_timecode(s, x, base, w), S, base - w, base + w)
<1>1. PICK lo, hi, f : /\ lo = base - w /\ hi = base + w
                       /\ f = find_matching_timecode(s, x, base, w)
  OBVIOUS
<1>2. lo \in Int /\ hi \in Int /\ S \in SUBSET (lo..hi)
  BY <1>1 DEF Steps
<1>3. f = FirstOf(S)
  BY <1>1 DEF find_matching_timecode
<1>4. IsFirstIn(f, S, lo, hi)
  BY <1>2, <1>3, FirstHit
<1> QED
  BY <1>1, <1>4

\* Given the steps of the window that have the code: the first of them is accepted
\* when all of them come after the last accepted step, and a replay otherwise.
TOTPVerifyResult(res, hits, last_step) ==
    IF hits = {} THEN res = TOTPResult(FALSE, None, "invalid")
    ELSE /\ IsLeast(res.matched, hits)
         /\ res.accepted <=> (last_step # None => \A t \in hits : t > last_step)
         /\ res.failure_reason = IF res.accepted THEN "none" ELSE "replay"

\* verify_totp returns that, for every time, window and last accepted step.
THEOREM VerifyTOTPFinds ==
    ASSUME NEW s, NEW x, x # Blank, NEW base \in Int, NEW w \in Nat,
           NEW last_step \in Int \cup {None}
    PROVE  TOTPVerifyResult(verify_totp(s, x, base, w, last_step),
                            {t \in Steps(base, w) : CodeAt(s, t) = x}, last_step)
<1>1. PICK hits, m, res :
         /\ hits = {t \in Steps(base, w) : CodeAt(s, t) = x}
         /\ m = find_matching_timecode(s, x, base, w)
         /\ res = verify_totp(s, x, base, w, last_step)
  OBVIOUS
<1>2. IsFirstIn(m, hits, base - w, base + w)
  BY <1>1, FindTimecode
<1>3. \A t \in hits : t \in Int /\ base - w <= t /\ t <= base + w
  BY <1>1 DEF Steps
<1>4. res = IF m = None THEN TOTPResult(FALSE, None, "invalid")
            ELSE IF IsReplay(m, last_step) THEN TOTPResult(FALSE, m, "replay")
            ELSE TOTPResult(TRUE, m, "none")
  BY <1>1 DEF verify_totp
<1>5. CASE hits = {}
  <2>1. m = None
    BY <1>2, <1>5 DEF IsFirstIn
  <2> QED
    BY <1>1, <1>4, <1>5, <2>1 DEF TOTPVerifyResult
<1>6. CASE hits # {}
  <2>1. m # None /\ m \in hits
    BY <1>2, <1>3, <1>6 DEF IsFirstIn
  <2>2. \A t \in hits : m <= t
    BY <1>2, <1>3, <2>1 DEF IsFirstIn
  <2>3. ~IsReplay(m, last_step) <=> (last_step # None => \A t \in hits : t > last_step)
    <3>1. CASE last_step = None
      BY <3>1 DEF IsReplay
    <3>2. CASE last_step # None
      BY <1>3, <2>1, <2>2, <3>2 DEF IsReplay
    <3> QED
      BY <3>1, <3>2
  <2>4. /\ res.matched = m /\ res.accepted = ~IsReplay(m, last_step)
        /\ res.failure_reason = IF IsReplay(m, last_step) THEN "replay" ELSE "none"
    BY <1>4, <2>1 DEF TOTPResult
  <2>5. TOTPVerifyResult(res, hits, last_step)
    BY <1>6, <2>1, <2>2, <2>3, <2>4 DEF TOTPVerifyResult, IsLeast
  <2> QED
    BY <1>1, <2>5
<1> QED
  BY <1>5, <1>6

(***************************************************************************)
(* The caller who stores next_counter.                                     *)
(***************************************************************************)
\* Storing what was accepted at the counter matched makes it what lies right below
\* the stored counter; storing what was refused leaves the counter where it is.
LEMMA StoreFits ==
    ASSUME Inv, NEW codes, NEW res, Store(codes, res),
           res.accepted => /\ codes \in (CodeSpace \X CodeSpace) \cup {<<x>> : x \in CodeSpace}
                           /\ res.matched \in Nat
                           /\ res.next = res.matched + Len(codes)
                           /\ Repeated(codes, res.matched),
           ~res.accepted => res.next = counter
    PROVE  Inv'
<1>1. /\ counter' = res.next /\ last' = <<codes, res>> /\ secret' = secret
      /\ res.next <= MaxCounter
  BY DEF Store
<1>2. res.next \in Nat
  <2>1. CASE res.accepted
    <3>1. Len(codes) \in Nat
      BY <2>1
    <3> QED
      BY <2>1, <3>1
  <2> QED
    BY <2>1 DEF Inv
<1>3. secret' \in Tables /\ counter' \in 0..MaxCounter
  BY <1>1, <1>2, WindowsFit DEF Inv
<1>4. LastIsSpent'
  <2>1. last'[1] = codes /\ last'[2] = res
    BY <1>1
  <2>2. Repeated(codes, res.matched)' = Repeated(codes, res.matched)
    BY <1>1 DEF Repeated
  <2> QED
    BY <1>1, <2>1, <2>2 DEF LastIsSpent, Repeated
<1> QED
  BY <1>3, <1>4 DEF Inv

LEMMA VerifyOneStep == ASSUME Inv, VerifyOne PROVE Inv'
<1>0. PICK x \in CodeSpace \cup {Blank} :
         Store(<<x>>, verify_hotp(secret, x, counter, LookAhead, ReplayWindow))
  BY DEF VerifyOne
<1>1. PICK res : /\ res = verify_hotp(secret, x, counter, LookAhead, ReplayWindow)
                 /\ Store(<<x>>, res)
  BY <1>0
<1>2. CASE x = Blank
  <2>1. res = verify_hotp(secret, Blank, counter, LookAhead, ReplayWindow)
    BY <1>1, <1>2, Zenon
  <2>2. ~res.accepted /\ res.next = counter
    BY <2>1, BlankIsRefused
  <2> QED
    BY <1>1, <2>2, StoreFits
<1>3. CASE x \in CodeSpace
  <2>1. /\ secret \in Tables /\ counter \in Nat
        /\ LookAhead \in Nat /\ ReplayWindow \in Nat /\ counter + LookAhead <= Horizon
    BY WindowsFit DEF Inv
  <2>2. /\ res.accepted => /\ res.matched \in Nat /\ secret[res.matched] = x
                           /\ res.next = res.matched + 1
        /\ ~res.accepted => res.next = counter
    <3>1. VerifyResult(res, secret, x, counter, LookAhead, ReplayWindow)
      BY <1>1, <1>3, <2>1, VerifyFinds
    <3> QED
      BY <2>1, <3>1 DEF VerifyResult
  <2>3. res.accepted => Repeated(<<x>>, res.matched)
    BY <2>2 DEF Repeated
  <2>4. Len(<<x>>) = 1 /\ <<x>> \in {<<z>> : z \in CodeSpace}
    BY <1>3
  <2> QED
    BY <1>1, <2>2, <2>3, <2>4, StoreFits
<1> QED
  BY <1>2, <1>3

LEMMA ResyncStep == ASSUME Inv, Resync PROVE Inv'
<1>0. PICK x \in CodeSpace \cup {Blank}, y \in CodeSpace \cup {Blank} :
         Store(<<x, y>>, resync_hotp(secret, <<x, y>>, counter, SearchWindow, ReplayWindow))
  BY DEF Resync
<1>1. PICK res :
         /\ res = resync_hotp(secret, <<x, y>>, counter, SearchWindow, ReplayWindow)
         /\ Store(<<x, y>>, res)
  BY <1>0
<1>2. CASE x = Blank \/ y = Blank
  <2>1. ~res.accepted /\ res.next = counter
    BY <1>1, <1>2, BlankPairIsRefused
  <2> QED
    BY <1>1, <2>1, StoreFits
<1>3. CASE x \in CodeSpace /\ y \in CodeSpace
  <2>1. /\ secret \in Tables /\ counter \in Nat
        /\ SearchWindow \in Nat /\ ReplayWindow \in Nat /\ counter + SearchWindow <= Horizon
    BY WindowsFit DEF Inv
  <2>2. /\ res.accepted => /\ res.matched \in Nat
                           /\ secret[res.matched] = x /\ secret[res.matched + 1] = y
                           /\ res.next = res.matched + 2
        /\ ~res.accepted => res.next = counter
    <3>1. PairResult(res, secret, x, y, counter, SearchWindow, ReplayWindow)
      BY <1>1, <1>3, <2>1, ResyncPairFinds
    <3> QED
      BY <2>1, <3>1 DEF PairResult
  <2>3. res.accepted => Repeated(<<x, y>>, res.matched)
    <3>1. \A i \in 1..2 : i = 1 \/ i = 2
      OBVIOUS
    <3> QED
      BY <2>2, <3>1 DEF Repeated
  <2>4. Len(<<x, y>>) = 2 /\ <<x, y>> \in CodeSpace \X CodeSpace
    BY <1>3
  <2> QED
    BY <1>1, <2>2, <2>3, <2>4, StoreFits
<1> QED
  BY <1>1, <1>2, <1>3

\* The inductive invariant: the stored counter fits its bound, and the codes
\* accepted last are those of the counters right below it.
THEOREM Invariance == Spec => []Inv
<1>1. Init => Inv
  <2> SUFFICES ASSUME Init PROVE Inv
    OBVIOUS
  <2>1. last[2] = Rejected("invalid", 0, None)
    BY DEF Init
  <2>2. LastIsSpent
    BY <2>1 DEF LastIsSpent, Rejected
  <2> QED
    BY <2>2, WindowsFit DEF Init, Inv
<1>2. Inv /\ UNCHANGED vars => Inv'
  BY DEF Inv, LastIsSpent, Repeated, vars
<1>3. Inv /\ [Next]_vars => Inv'
  BY <1>2, VerifyOneStep, ResyncStep DEF Next
<1> QED
  BY <1>1, <1>3, PTL DEF Spec

(***************************************************************************)
(* What is accepted is refused when it is submitted again.                 *)
(***************************************************************************)
LEMMA OneCodeAgain ==
    ASSUME Inv, last[2].accepted, NEW x \in CodeSpace, last[1] = <<x>>
    PROVE  ReplayIsRefused
<1>1. PICK p, res :
         /\ p = last[2].matched
         /\ res = verify_hotp(secret, x, counter, LookAhead, ReplayWindow)
  OBVIOUS
<1>2. Len(last[1]) = 1 /\ last[1][1] = x /\ 1..1 = {1}
  OBVIOUS
<1>3. /\ p \in Nat /\ counter = p + 1 /\ secret[p] = x /\ secret \in Tables
      /\ counter \in Nat /\ LookAhead \in Nat /\ ReplayWindow \in Nat
      /\ counter + LookAhead <= Horizon /\ 1 <= counter /\ counter - 1 = p
  BY <1>1, <1>2, WindowsFit DEF Inv, LastIsSpent, Repeated
<1>4. Answer(last[1]) = res /\ Window = LookAhead
  BY <1>1, <1>2 DEF Answer, Window
<1>5. \A n : Repeated(last[1], n) <=> secret[n + 1 - 1] = x
  BY <1>2 DEF Repeated
<1>6. /\ res.accepted => /\ res.matched \in counter..(counter + LookAhead)
                         /\ secret[res.matched] = x
      /\ ~res.accepted =>
            /\ \A n \in counter..(counter + LookAhead) : secret[n] # x
            /\ res.classification = "replay" <=>
                  \E n \in ReplayStart(counter, ReplayWindow)..(counter - 1) : secret[n] = x
  <2>1. VerifyResult(res, secret, x, counter, LookAhead, ReplayWindow)
    BY <1>1, <1>3, VerifyFinds
  <2> QED
    BY <1>3, <2>1 DEF VerifyResult
<1>7. ASSUME ~res.accepted
      PROVE  (ReplayWindow >= 1) = (res.classification = "replay")
  <2>1. ReplayStart(counter, ReplayWindow) \in Nat
        /\ (ReplayStart(counter, ReplayWindow) <= counter - 1 <=> ReplayWindow >= 1)
    BY <1>3, ReplayRange
  <2>2. res.classification = "replay" <=> ReplayStart(counter, ReplayWindow) <= p
    BY <1>3, <1>6, <1>7, <2>1
  <2> QED
    BY <1>3, <2>1, <2>2
<1>8. (\E n \in counter..(counter + LookAhead) : secret[n] = x) <=> res.accepted
  BY <1>6
<1> QED
  BY <1>1, <1>2, <1>3, <1>4, <1>5, <1>6, <1>7, <1>8 DEF ReplayIsRefused

LEMMA TwoCodesAgain ==
    ASSUME Inv, last[2].accepted, NEW x \in CodeSpace, NEW y \in CodeSpace,
           last[1] = <<x, y>>
    PROVE  ReplayIsRefused
<1>1. PICK p, res :
         /\ p = last[2].matched
         /\ res = resync_hotp(secret, <<x, y>>, counter, SearchWindow, ReplayWindow)
  OBVIOUS
<1>2. Len(last[1]) = 2 /\ last[1][1] = x /\ last[1][2] = y /\ 1..2 = {1, 2}
  OBVIOUS
<1>3. \A n : Repeated(last[1], n) <=> secret[n + 1 - 1] = x /\ secret[n + 2 - 1] = y
  BY <1>2 DEF Repeated
<1>4. /\ p \in Nat /\ counter = p + 2 /\ secret \in Tables
      /\ counter \in Nat /\ SearchWindow \in Nat /\ ReplayWindow \in Nat
      /\ counter + SearchWindow <= Horizon /\ 2 <= counter /\ counter - 2 = p
      /\ Repeated(last[1], p)
  BY <1>1, <1>2, WindowsFit DEF Inv, LastIsSpent
<1>5. secret[p] = x /\ secret[p + 1] = y
  BY <1>3, <1>4
<1>6. Answer(last[1]) = res /\ Window = SearchWindow
  BY <1>1, <1>2 DEF Answer, Window
<1>7. /\ res.accepted => /\ res.matched \in counter..(counter + SearchWindow - 1)
                         /\ secret[res.matched] = x /\ secret[res.matched + 1] = y
      /\ ~res.accepted =>
            /\ \A n \in counter..(counter + SearchWindow - 1) :
                  ~(secret[n] = x /\ secret[n + 1] = y)
            /\ res.classification = "replay" <=>
                  \E n \in ReplayStart(counter, ReplayWindow)..(counter - 2) :
                     secret[n] = x /\ secret[n + 1] = y
  <2>1. PairResult(res, secret, x, y, counter, SearchWindow, ReplayWindow)
    BY <1>1, <1>4, ResyncPairFinds
  <2> QED
    BY <1>4, <2>1 DEF PairResult
<1>8. ASSUME ~res.accepted
      PROVE  (ReplayWindow >= 2) = (res.classification = "replay")
  <2>1. ReplayStart(counter, ReplayWindow) \in Nat
        /\ (ReplayStart(counter, ReplayWindow) <= counter - 2 <=> ReplayWindow >= 2)
    BY <1>4, ReplayRange
  <2>2. res.classification = "replay" <=> ReplayStart(counter, ReplayWindow) <= p
    BY <1>4, <1>5, <1>7, <1>8, <2>1
  <2> QED
    BY <1>4, <2>1, <2>2
<1>9. /\ \A n \in counter..(counter + SearchWindow - 2 + 1) :
            Repeated(last[1], n) <=> secret[n] = x /\ secret[n + 1] = y
      /\ (\E n \in counter..(counter + SearchWindow - 1) :
             secret[n] = x /\ secret[n + 1] = y) <=> res.accepted
  BY <1>3, <1>4, <1>7
<1> QED
  BY <1>1, <1>2, <1>4, <1>6, <1>7, <1>8, <1>9 DEF ReplayIsRefused

\* Codes that were accepted and are submitted again are refused, and called a
\* replay exactly when the replay window holds them, whatever the table of codes,
\* unless the same codes come again in the window ahead.
THEOREM ReplayRefused == Spec => []ReplayIsRefused
<1>1. Inv => ReplayIsRefused
  <2> SUFFICES ASSUME Inv, last[2].accepted PROVE ReplayIsRefused
    BY DEF ReplayIsRefused
  <2>1. \/ \E x \in CodeSpace : last[1] = <<x>>
        \/ \E x, y \in CodeSpace : last[1] = <<x, y>>
    BY DEF Inv, LastIsSpent
  <2> QED
    BY <2>1, OneCodeAgain, TwoCodesAgain
<1> QED
  BY <1>1, Invariance, PTL

(***************************************************************************)
(* Resynchronisation and verification.                                     *)
(***************************************************************************)
\* Resynchronising with two codes is verifying them one after the other, the first
\* with the search window as look-ahead and the second with none.
THEOREM ResyncVerifiesTwice == Spec => []ResyncIsVerifyTwice
<1>1. ASSUME Inv PROVE ResyncIsVerifyTwice
  <2> SUFFICES ASSUME NEW x \in CodeSpace, NEW y \in CodeSpace,
                      NEW first, NEW second, NEW both,
                      first = verify_hotp(secret, x, counter, SearchWindow, ReplayWindow),
                      second = verify_hotp(secret, y, first.next, 0, ReplayWindow),
                      both = resync_hotp(secret, <<x, y>>, counter,
                                         SearchWindow, ReplayWindow)
               PROVE  /\ first.accepted /\ second.accepted
                         /\ second.next <= counter + SearchWindow + 1
                            => both.accepted /\ both.next = second.next
                      /\ both.accepted => /\ first.accepted
                                          /\ first.matched <= both.matched
                                          /\ both.next <= counter + SearchWindow + 1
    BY DEF ResyncIsVerifyTwice
  <2>1. /\ secret \in Tables /\ counter \in Nat /\ SearchWindow \in Nat
        /\ ReplayWindow \in Nat /\ counter + SearchWindow + 1 <= Horizon
        /\ counter + SearchWindow <= Horizon /\ Horizon \in Nat
    BY <1>1, WindowsFit DEF Inv
  <2>2. /\ VerifyResult(first, secret, x, counter, SearchWindow, ReplayWindow)
        /\ PairResult(both, secret, x, y, counter, SearchWindow, ReplayWindow)
    BY <2>1, VerifyFinds, ResyncPairFinds
  <2>3. first.next \in Nat /\ first.next + 0 <= Horizon
    BY <2>1, <2>2 DEF VerifyResult
  <2>4. VerifyResult(second, secret, y, first.next, 0, ReplayWindow)
    BY <2>1, <2>3, VerifyFinds
  <2>5. ASSUME first.accepted, second.accepted,
               second.next <= counter + SearchWindow + 1
        PROVE  both.accepted /\ both.next = second.next
    <3>1. PICK m \in Int : m = first.matched
      BY <2>1, <2>2, <2>5 DEF VerifyResult
    <3>2. /\ m \in counter..(counter + SearchWindow) /\ secret[m] = x
          /\ first.next = m + 1 /\ \A n \in counter..(m - 1) : secret[n] # x
      BY <2>1, <2>2, <2>5, <3>1 DEF VerifyResult
    <3>3. secret[m + 1] = y /\ second.next = m + 2
      BY <2>1, <2>4, <2>5, <3>2 DEF VerifyResult
    <3>4. m \in counter..(counter + SearchWindow - 1)
      BY <2>1, <2>5, <3>2, <3>3
    <3>5. both.accepted
      BY <2>2, <3>2, <3>3, <3>4 DEF PairResult
    <3>6. both.matched = m
      BY <2>1, <2>2, <3>2, <3>3, <3>4, <3>5 DEF PairResult
    <3> QED
      BY <2>2, <3>3, <3>5, <3>6 DEF PairResult
  <2>6. ASSUME both.accepted
        PROVE  /\ first.accepted /\ first.matched <= both.matched
               /\ both.next <= counter + SearchWindow + 1
    <3>1. /\ both.matched \in counter..(counter + SearchWindow - 1)
          /\ secret[both.matched] = x /\ both.next = both.matched + 2
      BY <2>2, <2>6 DEF PairResult
    <3>2. first.accepted
      BY <2>1, <2>2, <3>1 DEF VerifyResult
    <3> QED
      BY <2>1, <2>2, <3>1, <3>2 DEF VerifyResult
  <2> QED
    BY <2>5, <2>6
<1> QED
  BY <1>1, Invariance, PTL

\* Two codes the token shows in a row repair any drift the search window reaches.
THEOREM DriftRepaired == Spec => []DriftIsRepaired
<1>1. ASSUME Inv PROVE DriftIsRepaired
  <2> SUFFICES ASSUME NEW n \in counter..(counter + SearchWindow - 1), NEW res,
                      res = Answer(<<secret[n], secret[n + 1]>>)
               PROVE  /\ res.accepted /\ res.matched <= n
                      /\ (\A m \in counter..(n - 1) : secret[m] # secret[n]) =>
                            verify_hotp(secret, secret[n + 2], res.next, LookAhead,
                                        ReplayWindow).classification = "success"
    BY DEF DriftIsRepaired
  <2>1. /\ secret \in Tables /\ counter \in Nat /\ SearchWindow \in Nat
        /\ LookAhead \in Nat /\ ReplayWindow \in Nat
        /\ counter + SearchWindow <= Horizon
        /\ counter + SearchWindow + 1 + LookAhead <= Horizon /\ Horizon \in Nat
    BY <1>1, WindowsFit DEF Inv
  <2>2. n \in Nat /\ n + 2 \in Nat /\ n + 2 + LookAhead <= Horizon
    BY <2>1
  <2>3. \A m \in 0..Horizon : secret[m] \in CodeSpace
    BY <2>1 DEF Tables
  <2>4. PICK x, y, z : x = secret[n] /\ y = secret[n + 1] /\ z = secret[n + 2]
    OBVIOUS
  <2>5. x \in CodeSpace /\ y \in CodeSpace /\ z \in CodeSpace
    BY <2>1, <2>2, <2>3, <2>4
  <2>6. PairResult(res, secret, x, y, counter, SearchWindow, ReplayWindow)
    <3>1. res = resync_hotp(secret, <<x, y>>, counter, SearchWindow, ReplayWindow)
      BY <2>4 DEF Answer
    <3> QED
      BY <2>1, <2>5, <3>1, ResyncPairFinds
  <2>7. res.accepted /\ res.matched <= n
    <3>1. res.accepted
      BY <2>4, <2>6 DEF PairResult
    <3> QED
      BY <2>1, <2>4, <2>6, <3>1 DEF PairResult
  <2>8. ASSUME \A m \in counter..(n - 1) : secret[m] # secret[n]
        PROVE  verify_hotp(secret, secret[n + 2], res.next, LookAhead, ReplayWindow)
                  .classification = "success"
    <3>1. res.matched = n /\ res.next = n + 2
      BY <2>1, <2>4, <2>6, <2>7, <2>8 DEF PairResult
    <3>2. PICK next : next = verify_hotp(secret, z, n + 2, LookAhead, ReplayWindow)
      OBVIOUS
    <3>3. VerifyResult(next, secret, z, n + 2, LookAhead, ReplayWindow)
      BY <2>1, <2>2, <2>5, <3>2, VerifyFinds
    <3>4. next.accepted
      BY <2>1, <2>2, <2>4, <3>3 DEF VerifyResult
    <3>5. next.matched = n + 2
      BY <2>1, <2>2, <2>4, <3>3, <3>4 DEF VerifyResult
    <3> QED
      BY <2>4, <3>1, <3>2, <3>3, <3>4, <3>5 DEF VerifyResult
  <2> QED
    BY <2>7, <2>8
<1> QED
  BY <1>1, Invariance, PTL

(***************************************************************************)
(* The checks of integration_checks.py.                                    *)
(***************************************************************************)
\* The check of a confirmed device, said with the two answers it gets.
LEMMA HOTPCheckOfConfirmed ==
    ASSUME Inv, NEW n \in 0..counter, NEW look_ahead \in 0..LookAhead,
           NEW replay_window \in 0..ReplayWindow
    PROVE  assert_hotp_device_rejects_replay(n, TRUE, look_ahead, replay_window) <=>
              /\ n = counter /\ replay_window > 0
              /\ \A m \in (counter + 1)..(counter + 1 + look_ahead) : secret[m] # secret[n]
<1>1. PICK x : x = secret[n]
  OBVIOUS
<1>2. /\ secret \in Tables /\ counter \in Nat /\ n \in Nat
      /\ look_ahead \in Nat /\ replay_window \in Nat
      /\ counter + look_ahead <= Horizon /\ counter + 1 + look_ahead <= Horizon
  BY WindowsFit DEF Inv
<1>3. x \in CodeSpace /\ CodeAt(secret, n) = x
  <2>1. n \in 0..Horizon
    BY <1>2, WindowsFit DEF Inv
  <2> QED
    BY <1>1, <1>2, <2>1, TablesAssumption DEF Tables
<1>4. PICK first : first = verify_hotp(secret, x, counter, look_ahead, replay_window)
  OBVIOUS
<1>5. PICK again : again = verify_hotp(secret, x, first.next, look_ahead, replay_window)
  OBVIOUS
<1>6. assert_hotp_device_rejects_replay(n, TRUE, look_ahead, replay_window) <=>
         /\ first.accepted /\ first.next = n + 1
         /\ RefusedAsReplay(again) /\ again.next = n + 1
  BY <1>3, <1>4, <1>5 DEF assert_hotp_device_rejects_replay, HOTPAnswer
<1>7. VerifyResult(first, secret, x, counter, look_ahead, replay_window)
  BY <1>2, <1>3, <1>4, VerifyFinds
<1>8. first.accepted /\ first.next = n + 1 <=> n = counter
  BY <1>1, <1>2, <1>7 DEF VerifyResult
<1>9. ASSUME n = counter
      PROVE  RefusedAsReplay(again) /\ again.next = n + 1
             <=> /\ replay_window > 0
                 /\ \A m \in (counter + 1)..(counter + 1 + look_ahead) : secret[m] # x
  <2>1. again = verify_hotp(secret, x, counter + 1, look_ahead, replay_window)
    BY <1>7, <1>8, <1>9, <1>5
  <2>2. VerifyResult(again, secret, x, counter + 1, look_ahead, replay_window)
    <3>1. counter + 1 \in Nat
      BY <1>2
    <3> QED
      BY <1>2, <1>3, <2>1, <3>1, VerifyFinds
  <2>3. again.accepted <=>
           \E m \in (counter + 1)..(counter + 1 + look_ahead) : secret[m] = x
    BY <1>2, <2>2 DEF VerifyResult
  <2>4. PICK start : start = ReplayStart(counter + 1, replay_window)
    OBVIOUS
  <2>5. start \in Nat /\ (start <= counter <=> replay_window >= 1)
    BY <1>2, <2>4 DEF ReplayStart
  <2>6. ~again.accepted => again.next = counter + 1
                           /\ (again.classification = "replay" <=> replay_window >= 1)
    BY <1>1, <1>2, <1>9, <2>2, <2>4, <2>5 DEF VerifyResult
  <2> QED
    BY <1>2, <1>9, <2>3, <2>6 DEF RefusedAsReplay
<1> QED
  BY <1>1, <1>8, <1>9, <1>6

\* The HOTP check passes exactly for a confirmed device whose object is not stale,
\* with a replay window, and whose code does not come again within the look-ahead.
THEOREM HOTPCheckExact == Spec => []HOTPCheckIsExact
<1>1. ASSUME Inv PROVE HOTPCheckIsExact
  <2> SUFFICES ASSUME NEW n \in 0..counter, NEW ok \in BOOLEAN,
                      NEW look_ahead \in 0..LookAhead, NEW replay_window \in 0..ReplayWindow
               PROVE  assert_hotp_device_rejects_replay(n, ok, look_ahead, replay_window) <=>
                         /\ ok /\ n = counter /\ replay_window > 0
                         /\ \A m \in (counter + 1)..(counter + 1 + look_ahead) :
                               secret[m] # secret[n]
    BY DEF HOTPCheckIsExact
  <2>1. CASE ~ok
    BY <2>1 DEF assert_hotp_device_rejects_replay, HOTPAnswer, Rejected
  <2>2. CASE ok
    <3>1. ok = TRUE
      BY <2>2
    <3> QED
      BY <1>1, <3>1, HOTPCheckOfConfirmed
  <2> QED
    BY <2>1, <2>2
<1> QED
  BY <1>1, Invariance, PTL

\* The check of a device, with the steps of the window that have the code and the
\* first of them.
LEMMA TOTPCheckFinds ==
    ASSUME NEW at_time, NEW interval, NEW ok \in BOOLEAN, NEW w, NEW last_step,
           NEW x, x # Blank, x = CodeAt(secret, at_time \div DefaultInterval),
           NEW m, m = find_matching_timecode(secret, x, at_time \div interval, w),
           m \in Int \cup {None}
    PROVE  assert_totp_device_rejects_replay(at_time, interval, ok, w, last_step)
              <=> ok /\ m # None /\ ~IsReplay(m, last_step)
<1>1. PICK first : first = TOTPAnswer(ok, x, at_time \div interval, w, last_step)
  OBVIOUS
<1>2. PICK again : again = TOTPAnswer(ok, x, at_time \div interval, w,
                               IF first.accepted THEN first.matched ELSE last_step)
  OBVIOUS
<1>3. assert_totp_device_rejects_replay(at_time, interval, ok, w, last_step)
         <=> first.accepted /\ ~again.accepted /\ again.failure_reason = "replay"
  BY <1>1, <1>2 DEF assert_totp_device_rejects_replay
<1>4. first = IF ok /\ m # None
                THEN IF IsReplay(m, last_step) THEN TOTPResult(FALSE, m, "replay")
                                               ELSE TOTPResult(TRUE, m, "none")
                ELSE TOTPResult(FALSE, None, "invalid")
  BY <1>1 DEF TOTPAnswer, verify_totp
<1>5. first.accepted <=> ok /\ m # None /\ ~IsReplay(m, last_step)
  BY <1>4 DEF TOTPResult
<1>6. ASSUME first.accepted PROVE again = TOTPResult(FALSE, m, "replay")
  <2>1. first.matched = m
    BY <1>4, <1>5, <1>6 DEF TOTPResult
  <2>2. again = verify_totp(secret, x, at_time \div interval, w, m)
    BY <1>2, <1>5, <1>6, <2>1 DEF TOTPAnswer
  <2>3. IsReplay(m, m)
    BY <1>5, <1>6 DEF IsReplay
  <2> QED
    BY <1>5, <1>6, <2>2, <2>3 DEF verify_totp
<1> QED
  BY <1>3, <1>5, <1>6 DEF TOTPResult

\* The TOTP check passes exactly for a confirmed device one of whose steps in the
\* window has the code of the default interval's step, when all of those come after
\* the last accepted step.
THEOREM TOTPCheckExact == Spec => []TOTPCheckIsExact
<1>1. ASSUME Inv PROVE TOTPCheckIsExact
  <2> SUFFICES ASSUME NEW at_time \in Times, NEW interval \in Intervals,
                      NEW ok \in BOOLEAN, NEW valid_window \in ValidWindows,
                      NEW last_step \in {None} \cup Times
               PROVE  LET step   == at_time \div DefaultInterval
                          window == Steps(at_time \div interval, valid_window)
                          same   == {t \in window : secret[t] = secret[step]}
                          passes == assert_totp_device_rejects_replay(
                                        at_time, interval, ok, valid_window, last_step)
                      IN  /\ passes <=> /\ ok /\ same # {}
                                        /\ last_step # None => \A t \in same : t > last_step
                          /\ interval = DefaultInterval => step \in same
    BY DEF TOTPCheckIsExact
  <2>1. PICK step, base, same, passes :
           /\ step = at_time \div DefaultInterval /\ base = at_time \div interval
           /\ same = {t \in Steps(base, valid_window) : secret[t] = secret[step]}
           /\ passes = assert_totp_device_rejects_replay(
                          at_time, interval, ok, valid_window, last_step)
    OBVIOUS
  <2>2. /\ at_time \in Nat /\ interval \in Nat \ {0} /\ valid_window \in Nat
        /\ DefaultInterval \in Intervals /\ DefaultInterval \in Nat \ {0}
        /\ last_step = None \/ last_step \in Nat
    BY IntervalsAssumption
  <2>3. step \in Int /\ base \in Int
    BY <2>1, <2>2
  <2>4. /\ Steps(base, valid_window) \subseteq 0..Horizon
        /\ step \in Steps(step, valid_window) /\ step \in 0..Horizon
    <3>1. Steps(step, valid_window) \subseteq 0..Horizon
          /\ Steps(base, valid_window) \subseteq 0..Horizon
      BY <2>1, <2>2, IntervalsAssumption
    <3>2. step \in Steps(step, valid_window)
      BY <2>2, <2>3 DEF Steps
    <3> QED
      BY <3>1, <3>2
  <2>5. PICK x : x = secret[step]
    OBVIOUS
  <2>6. /\ x \in CodeSpace /\ x # Blank /\ x = CodeAt(secret, step)
        /\ \A t \in Steps(base, valid_window) : CodeAt(secret, t) = secret[t]
    BY <1>1, <2>4, <2>5, TablesAssumption DEF Inv, Tables
  <2>7. PICK m : m = find_matching_timecode(secret, x, base, valid_window)
    OBVIOUS
  <2>8. /\ same = {} => m = None
        /\ same # {} => m \in same /\ m \in Int /\ m # None /\ \A t \in same : m <= t
    <3>1. same = {t \in Steps(base, valid_window) : CodeAt(secret, t) = x}
      BY <2>1, <2>5, <2>6
    <3>2. IsFirstIn(m, same, base - valid_window, base + valid_window)
      BY <2>2, <2>3, <2>7, <3>1, FindTimecode
    <3>3. /\ base \in Int /\ valid_window \in Nat
          /\ same \subseteq (base - valid_window)..(base + valid_window)
      BY <2>2, <2>3, <3>1 DEF Steps
    <3>4. \A t \in same : t \in Int /\ base - valid_window <= t /\ t <= base + valid_window
      BY <3>3
    <3>5. ASSUME same # {} PROVE m # None /\ m \in same
      BY <3>2, <3>3, <3>5 DEF IsFirstIn
    <3>6. ASSUME NEW t \in same PROVE m <= t
      BY <3>2, <3>3, <3>4, <3>5 DEF IsFirstIn
    <3>7. same = {} => m = None
      BY <3>2 DEF IsFirstIn
    <3> QED
      BY <3>4, <3>5, <3>6, <3>7
  <2>9. passes <=> ok /\ m # None /\ ~IsReplay(m, last_step)
    BY <2>1, <2>6, <2>7, <2>8, TOTPCheckFinds
  <2>10. passes <=> ok /\ same # {} /\ (last_step # None => \A t \in same : t > last_step)
    <3>1. \A t \in same : t \in Int
      BY <2>1, <2>4
    <3>2. same # {} => (~IsReplay(m, last_step)
                           <=> (last_step # None => \A t \in same : t > last_step))
      BY <2>2, <2>8, <3>1 DEF IsReplay
    <3> QED
      BY <2>8, <2>9, <3>2
  <2>11. interval = DefaultInterval => step \in same
    BY <2>1, <2>4
  <2> QED
    BY <2>1, <2>10, <2>11
<1> QED
  BY <1>1, Invariance, PTL
=============================================================================
