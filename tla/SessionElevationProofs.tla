---------------------- MODULE SessionElevationProofs ----------------------
(***************************************************************************)
(* Proofs about SessionElevation, for any requests, sessions, age limits   *)
(* and clocks.                                                             *)
(***************************************************************************)
EXTENDS SessionElevation, TLAPS

(***************************************************************************)
(* Time and clocks.                                                        *)
(***************************************************************************)
LEMMA ConstantsFit ==
    /\ MaxAge \in Nat /\ Skew \in Nat /\ Cap \in Nat
    /\ \A a \in Ages : a \in Nat /\ a <= MaxAge
    /\ Cap = MaxAge + Skew + 1
    /\ NoKey \notin Keys /\ NoMarker # Absent
    /\ NoMarker \notin Markers /\ Absent \notin Markers
    /\ \A r \in Readings : r \in Nat /\ r <= Skew
BY AgesAssumption, SkewAssumption, NamesAssumption, MarkersAssumption DEF Cap, Readings

LEMMA MarkerFields ==
    ASSUME NEW m \in Markers
    PROVE  /\ m.age \in Nat /\ m.age <= Cap
           /\ m.ahead \in Readings /\ m.ahead \in Nat /\ m.ahead <= Skew
BY ConstantsFit DEF Markers

LEMMA FreshMarker ==
    ASSUME NEW r \in Readings
    PROVE  [age |-> 0, ahead |-> r] \in Markers
BY ConstantsFit DEF Markers

\* Growing older keeps the order of two ages.
LEMMA OlderKeepsOrder ==
    ASSUME NEW a \in 0..Cap, NEW b \in 0..Cap, a >= b
    PROVE  Older(a) \in 0..Cap /\ Older(b) \in 0..Cap /\ Older(a) >= Older(b)
BY ConstantsFit DEF Older

LEMMA AgedMarker ==
    ASSUME NEW m \in Markers \cup {NoMarker, Absent}
    PROVE  /\ Aged(m) \in Markers \cup {NoMarker, Absent}
           /\ m \in Markers => Aged(m) \in Markers /\ Aged(m).age = Older(m.age)
           /\ m \notin Markers => Aged(m) = m
<1>1. CASE m \in Markers
  <2>1. Older(m.age) \in 0..Cap
    BY <1>1, ConstantsFit DEF Older, Markers
  <2> QED
    BY <1>1, <2>1 DEF Aged, Markers
<1>2. CASE m \notin Markers
  BY <1>2 DEF Aged
<1> QED
  BY <1>1, <1>2

\* A marker that is not yet due is inside every limit that any clock measures.
LEMMA NotDueIsElevated ==
    ASSUME NEW m \in Markers \cup {NoMarker}, NEW r \in Readings, NEW max_age \in Ages,
           ~Due(m, max_age)
    PROVE  is_mfa_elevated(m, r, max_age)
BY ConstantsFit, MarkerFields DEF Due, is_mfa_elevated, InFuture, Expired, Elapsed

\* A marker that a check accepts is no older than the limit and the clocks allow.
LEMMA ElevatedIsRecent ==
    ASSUME NEW m \in Markers \cup {NoMarker}, NEW r \in Readings, NEW max_age \in Ages,
           is_mfa_elevated(m, r, max_age)
    PROVE  m \in Markers /\ m.age <= max_age + Skew
BY ConstantsFit, MarkerFields DEF is_mfa_elevated, InFuture, Expired, Elapsed

(***************************************************************************)
(* The invariant.                                                          *)
(***************************************************************************)
LEMMA InitInv == Init => Inv
BY ConstantsFit DEF Init, Inv, TypeOK, RequestsFit, CopyIsCurrent, NoneLooksYounger,
   StandingIsStored, ClearHolds, RequestsAgree

\* A new session has no marker.
LEMMA LoginInv ==
    ASSUME Inv, NEW k \in Keys, Login(k) PROVE Inv'
<1> USE ConstantsFit DEF Inv, locals, history, Login
<1>1. TypeOK'
  BY DEF TypeOK
<1>2. RequestsFit'
  BY DEF TypeOK, RequestsFit
<1>3. CopyIsCurrent'
  BY DEF TypeOK, RequestsFit, CopyIsCurrent
<1>4. NoneLooksYounger'
  BY DEF TypeOK, RequestsFit, NoneLooksYounger
<1>5. StandingIsStored'
  BY DEF TypeOK, RequestsFit, NoneLooksYounger, StandingIsStored
<1>6. ClearHolds'
  BY DEF TypeOK, RequestsFit, ClearHolds
<1>7. RequestsAgree'
  BY DEF TypeOK, RequestsFit, RequestsAgree
<1> QED
  BY <1>1, <1>2, <1>3, <1>4, <1>5, <1>6, <1>7

\* Time passes for all alike.
LEMMA TickInv ==
    ASSUME Inv, Tick PROVE Inv'
<1> USE ConstantsFit DEF Inv, locals, history, Tick
<1>1. TypeOK'
  BY AgedMarker, OlderKeepsOrder, MarkerFields DEF TypeOK
<1>2. RequestsFit'
  BY AgedMarker, MarkerFields DEF TypeOK, RequestsFit
<1>3. CopyIsCurrent'
  BY AgedMarker, OlderKeepsOrder, MarkerFields DEF TypeOK, RequestsFit, CopyIsCurrent
<1>4. NoneLooksYounger'
  BY AgedMarker, OlderKeepsOrder, MarkerFields DEF TypeOK, RequestsFit, NoneLooksYounger
<1>5. StandingIsStored'
  BY AgedMarker, OlderKeepsOrder, MarkerFields
   DEF TypeOK, RequestsFit, NoneLooksYounger, StandingIsStored
<1>6. ClearHolds'
  BY AgedMarker, OlderKeepsOrder, MarkerFields DEF TypeOK, RequestsFit, ClearHolds
<1>7. RequestsAgree'
  BY AgedMarker, OlderKeepsOrder, MarkerFields DEF TypeOK, RequestsFit, RequestsAgree
<1> QED
  BY <1>1, <1>2, <1>3, <1>4, <1>5, <1>6, <1>7

\* A request loads what is stored.
LEMMA StartInv ==
    ASSUME Inv, NEW c \in Clients, NEW k \in Keys, Start(c, k) PROVE Inv'
<1> USE ConstantsFit DEF Inv, locals, history, Start
<1>1. TypeOK'
  BY DEF TypeOK
<1>2. RequestsFit'
  BY DEF TypeOK, RequestsFit
<1>3. CopyIsCurrent'
  BY DEF TypeOK, RequestsFit, CopyIsCurrent
<1>4. NoneLooksYounger'
  BY DEF TypeOK, RequestsFit, NoneLooksYounger
<1>5. StandingIsStored'
  BY DEF TypeOK, RequestsFit, StandingIsStored
<1>6. ClearHolds'
  BY DEF TypeOK, RequestsFit, ClearHolds
<1>7. RequestsAgree'
  BY DEF TypeOK, RequestsFit, CopyIsCurrent, StandingIsStored, ClearHolds, RequestsAgree
<1> QED
  BY <1>1, <1>2, <1>3, <1>4, <1>5, <1>6, <1>7

\* A marker is put in the copy, and the age of the factor starts anew.
LEMMA MarkInv ==
    ASSUME Inv, NEW c \in Clients, mark_mfa_elevated(c) PROVE Inv'
<1> USE ConstantsFit DEF Inv, locals, history, mark_mfa_elevated, InView, Taken
<1>1. TypeOK'
  BY FreshMarker DEF TypeOK
<1>2. RequestsFit'
  BY FreshMarker DEF TypeOK, RequestsFit
<1>3. CopyIsCurrent'
  BY FreshMarker DEF TypeOK, RequestsFit, CopyIsCurrent
<1>4. NoneLooksYounger'
  BY FreshMarker, MarkerFields DEF TypeOK, RequestsFit, NoneLooksYounger
<1>5. StandingIsStored'
  BY FreshMarker, MarkerFields DEF TypeOK, RequestsFit, StandingIsStored
<1>6. ClearHolds'
  BY DEF TypeOK, RequestsFit, ClearHolds
<1>7. RequestsAgree'
  BY FreshMarker DEF TypeOK, RequestsFit, RequestsAgree
<1> QED
  BY <1>1, <1>2, <1>3, <1>4, <1>5, <1>6, <1>7

\* The marker is taken out of the copy.
LEMMA ClearInv ==
    ASSUME Inv, NEW c \in Clients, clear_mfa_elevation(c) PROVE Inv'
<1> USE ConstantsFit DEF Inv, locals, history, clear_mfa_elevation, InView, SetModified
<1>1. TypeOK'
  BY DEF TypeOK
<1>2. RequestsFit'
  BY DEF TypeOK, RequestsFit
<1>3. CopyIsCurrent'
  BY DEF TypeOK, RequestsFit, CopyIsCurrent
<1>4. NoneLooksYounger'
  BY DEF TypeOK, RequestsFit, NoneLooksYounger
<1>5. StandingIsStored'
  BY DEF TypeOK, RequestsFit, StandingIsStored
<1>6. ClearHolds'
  BY DEF TypeOK, RequestsFit, ClearHolds
<1>7. RequestsAgree'
  BY DEF TypeOK, RequestsFit, RequestsAgree
<1> QED
  BY <1>1, <1>2, <1>3, <1>4, <1>5, <1>6, <1>7

\* A check that succeeds changes no marker.
LEMMA AdmitInv ==
    ASSUME Inv, NEW c \in Clients, NEW max_age \in Ages, Admit(c, max_age) PROVE Inv'
<1> USE ConstantsFit DEF Inv, locals, history, Admit, Kept
<1>1. TypeOK'
  BY DEF TypeOK
<1>2. RequestsFit'
  BY DEF TypeOK, RequestsFit
<1>3. CopyIsCurrent'
  BY DEF TypeOK, RequestsFit, CopyIsCurrent
<1>4. NoneLooksYounger'
  BY DEF TypeOK, RequestsFit, NoneLooksYounger
<1>5. StandingIsStored'
  BY DEF TypeOK, RequestsFit, StandingIsStored
<1>6. ClearHolds'
  BY DEF TypeOK, RequestsFit, ClearHolds
<1>7. RequestsAgree'
  BY DEF TypeOK, RequestsFit, RequestsAgree
<1> QED
  BY <1>1, <1>2, <1>3, <1>4, <1>5, <1>6, <1>7

\* A check that fails takes the marker out of the copy; it was due.
LEMMA RefuseInv ==
    ASSUME Inv, NEW c \in Clients, Refuse(c) PROVE Inv'
<1> USE ConstantsFit DEF Inv, locals, history, Refuse, InView, SetModified
<1>1. TypeOK'
  BY DEF TypeOK
<1>2. RequestsFit'
  BY DEF TypeOK, RequestsFit
<1>3. CopyIsCurrent'
  <2>1. store' = store /\ key' = key /\ copy' = [copy EXCEPT ![c] = NoMarker]
    OBVIOUS
  <2>2. /\ \A b \in Clients : b # c => /\ pc'[b] = pc[b] /\ did'[b] = did[b]
                                       /\ modified'[b] = modified[b]
                                       /\ stale'[b] = stale[b] /\ copy'[b] = copy[b]
        /\ did'[c] # "marked" /\ copy'[c] = NoMarker /\ (modified'[c] <=> modified[c] \/ copy[c] # NoMarker)
    BY NotDueIsElevated DEF TypeOK, CopyIsCurrent
  <2> QED
    BY <2>1, <2>2 DEF TypeOK, CopyIsCurrent
<1>4. NoneLooksYounger'
  BY DEF TypeOK, RequestsFit, NoneLooksYounger
<1>5. StandingIsStored'
  BY DEF TypeOK, RequestsFit, StandingIsStored
<1>6. ClearHolds'
  BY DEF TypeOK, RequestsFit, ClearHolds
<1>7. RequestsAgree'
  BY NotDueIsElevated DEF TypeOK, RequestsFit, RequestsAgree
<1> QED
  BY <1>1, <1>2, <1>3, <1>4, <1>5, <1>6, <1>7

\* Other values of the session are no concern of the elevation.
LEMMA ModifyOtherInv ==
    ASSUME Inv, NEW c \in Clients, ModifyOther(c) PROVE Inv'
<1> USE ConstantsFit DEF Inv, locals, history, ModifyOther, InView
<1>1. TypeOK'
  BY DEF TypeOK
<1>2. RequestsFit'
  BY DEF TypeOK, RequestsFit
<1>3. CopyIsCurrent'
  BY DEF TypeOK, RequestsFit, CopyIsCurrent
<1>4. NoneLooksYounger'
  BY DEF TypeOK, RequestsFit, NoneLooksYounger
<1>5. StandingIsStored'
  BY DEF TypeOK, RequestsFit, StandingIsStored
<1>6. ClearHolds'
  BY DEF TypeOK, RequestsFit, ClearHolds
<1>7. RequestsAgree'
  BY DEF TypeOK, RequestsFit, RequestsAgree
<1> QED
  BY <1>1, <1>2, <1>3, <1>4, <1>5, <1>6, <1>7

\* The session is deleted.
LEMMA LogoutInv ==
    ASSUME Inv, NEW c \in Clients, Logout(c) PROVE Inv'
<1> USE ConstantsFit DEF Inv, locals, history, Logout, InView
<1>1. TypeOK'
  BY DEF TypeOK
<1>2. RequestsFit'
  BY DEF TypeOK, RequestsFit
<1>3. CopyIsCurrent'
  BY DEF TypeOK, RequestsFit, CopyIsCurrent
<1>4. NoneLooksYounger'
  BY DEF TypeOK, RequestsFit, NoneLooksYounger
<1>5. StandingIsStored'
  BY DEF TypeOK, RequestsFit, StandingIsStored
<1>6. ClearHolds'
  BY DEF TypeOK, RequestsFit, ClearHolds
<1>7. RequestsAgree'
  BY DEF TypeOK, RequestsFit, RequestsAgree
<1> QED
  BY <1>1, <1>2, <1>3, <1>4, <1>5, <1>6, <1>7

\* The session is saved as a whole, unless it was deleted.
LEMMA RespondInv ==
    ASSUME Inv, NEW c \in Clients, Respond(c) PROVE Inv'
<1> USE ConstantsFit DEF Inv, locals, history, Respond, Finish, Saves, UnderWay
<1>1. TypeOK'
  BY DEF TypeOK
<1>2. RequestsFit'
  BY DEF TypeOK, RequestsFit
<1>3. CopyIsCurrent'
  BY DEF TypeOK, RequestsFit, CopyIsCurrent
<1>4. NoneLooksYounger'
  BY DEF TypeOK, RequestsFit, NoneLooksYounger
<1>5. StandingIsStored'
  BY
   DEF TypeOK, RequestsFit, CopyIsCurrent, NoneLooksYounger, StandingIsStored, RequestsAgree
<1>6. ClearHolds'
  BY DEF TypeOK, RequestsFit, CopyIsCurrent, ClearHolds, RequestsAgree
<1>7. RequestsAgree'
  BY DEF TypeOK, RequestsFit, CopyIsCurrent, RequestsAgree
<1> QED
  BY <1>1, <1>2, <1>3, <1>4, <1>5, <1>6, <1>7

\* A request ends, and nothing is saved.
LEMMA CrashInv ==
    ASSUME Inv, NEW c \in Clients, Crash(c) PROVE Inv'
<1> USE ConstantsFit DEF Inv, locals, history, Crash, Finish
<1>1. TypeOK'
  BY DEF TypeOK
<1>2. RequestsFit'
  BY DEF TypeOK, RequestsFit
<1>3. CopyIsCurrent'
  BY DEF TypeOK, RequestsFit, CopyIsCurrent
<1>4. NoneLooksYounger'
  BY DEF TypeOK, RequestsFit, NoneLooksYounger
<1>5. StandingIsStored'
  BY DEF TypeOK, RequestsFit, StandingIsStored
<1>6. ClearHolds'
  BY DEF TypeOK, RequestsFit, ClearHolds
<1>7. RequestsAgree'
  BY DEF TypeOK, RequestsFit, RequestsAgree
<1> QED
  BY <1>1, <1>2, <1>3, <1>4, <1>5, <1>6, <1>7

LEMMA NextInv == Inv /\ [Next]_vars => Inv'
<1> SUFFICES ASSUME Inv, [Next]_vars PROVE Inv'
  OBVIOUS
<1>1. ASSUME NEW k \in Keys, Login(k) PROVE Inv'
  BY <1>1, LoginInv
<1>2. CASE Tick
  BY <1>2, TickInv
<1>3. ASSUME NEW c \in Clients, NEW k \in Keys, Start(c, k) PROVE Inv'
  BY <1>3, StartInv
<1>4. ASSUME NEW c \in Clients, mark_mfa_elevated(c) \/ clear_mfa_elevation(c) PROVE Inv'
  BY <1>4, MarkInv, ClearInv
<1>5. ASSUME NEW c \in Clients, (\E max_age \in Ages : Admit(c, max_age)) \/ Refuse(c)
      PROVE  Inv'
  BY <1>5, AdmitInv, RefuseInv
<1>6. ASSUME NEW c \in Clients, ModifyOther(c) \/ Logout(c) PROVE Inv'
  BY <1>6, ModifyOtherInv, LogoutInv
<1>7. ASSUME NEW c \in Clients, Respond(c) \/ Crash(c) PROVE Inv'
  BY <1>7, RespondInv, CrashInv
<1>8. CASE UNCHANGED vars
  BY <1>8 DEF vars, locals, history, Inv, TypeOK, RequestsFit, CopyIsCurrent,
     NoneLooksYounger, StandingIsStored, ClearHolds, RequestsAgree
<1> QED
  BY <1>1, <1>2, <1>3, <1>4, <1>5, <1>6, <1>7, <1>8 DEF Next, Request

\* The inductive invariant.
THEOREM Invariance == Spec => []Inv
BY InitInv, NextInv, PTL DEF Spec

\* Type correctness.
THEOREM TypeCorrect == Spec => []TypeOK
<1>1. Inv => TypeOK
  BY DEF Inv
<1> QED
  BY <1>1, Invariance, PTL

\* An elevation saved without an overlap is lost by no later request before it is
\* due, cleared or logged out.
THEOREM ElevationStands == Spec => []StandingIsStored
<1>1. Inv => StandingIsStored
  BY DEF Inv
<1> QED
  BY <1>1, Invariance, PTL

\* An elevation cleared without an overlap stays cleared; a session that was logged
\* out is not stored again.
THEOREM ClearIsFinal == Spec => []ClearHolds
<1>1. Inv => ClearHolds
  BY DEF Inv
<1> QED
  BY <1>1, Invariance, PTL

\* Whatever overlaps, no request is admitted without a factor that was accepted in
\* its session within the age limit of the view and what the clocks differ.
THEOREM AdmissionNeedsFactor == Spec => AdmittedOnFactor
<1> DEFINE Fresh ==
      \A c \in Clients, max_age \in Ages :
          Admit(c, max_age) => since[key[c]] <= max_age + Skew
<1>1. Inv => Fresh
  <2> SUFFICES ASSUME Inv, NEW c \in Clients, NEW max_age \in Ages, Admit(c, max_age)
               PROVE  since[key[c]] <= max_age + Skew
    OBVIOUS
  <2>1. copy[c] \in Markers /\ copy[c].age <= max_age + Skew
    BY ElevatedIsRecent DEF Inv, TypeOK, Admit
  <2>2. copy[c].age >= since[key[c]]
    BY <2>1 DEF Inv, NoneLooksYounger, Admit
  <2>3. since[key[c]] \in Nat
    BY ConstantsFit DEF Inv, TypeOK, Admit
  <2> QED
    BY <2>1, <2>2, <2>3, ConstantsFit, MarkerFields
<1> QED
  BY <1>1, Invariance, PTL DEF AdmittedOnFactor
=============================================================================
