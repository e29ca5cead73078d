-------------------------- MODULE SessionElevation --------------------------
(***************************************************************************)
(* django_mfa_toolkit/session_elevation.py: overlapping requests mark,     *)
(* check and clear the elevation of a session.                             *)
(*                                                                         *)
(* Django loads a session at the start of a request and, when the request  *)
(* has modified it and succeeds, saves it as a whole at the end; a session *)
(* that logout has deleted meanwhile is not saved again.  Between the two  *)
(* a request works on its copy.  A marker is the one value the toolkit     *)
(* keeps in a session.  Its elevated_at is given as the time that has      *)
(* passed since it was taken and how far ahead the clock was that gave it, *)
(* so that time has no end; an age of Cap stands for every greater one.    *)
(***************************************************************************)
EXTENDS Integers

CONSTANTS
    Clients,     \* the workers that serve requests
    Keys,        \* session keys; bound: sessions the user opens
    NoKey,       \* no request in progress
    Absent,      \* no session of that key
    NoMarker,    \* a session without an elevation
    Ages,        \* the max_age arguments and the setting they default to
    MaxAge,      \* the largest of them
    Skew         \* how far apart the clocks of two machines are

ASSUME AgesAssumption   == MaxAge \in Nat /\ Ages \subseteq 1..MaxAge
ASSUME SkewAssumption   == Skew \in Nat
ASSUME NamesAssumption  == NoKey \notin Keys /\ NoMarker # Absent

VARIABLES
    store,       \* key -> the marker of the stored session, NoMarker or Absent
    ended,       \* the keys of sessions that were logged out
    \* the requests
    pc, key,
    copy,        \* client -> the marker in its copy of the session
    modified,    \* client -> request.session.modified
    \* history
    did,         \* client -> what it did to the elevation last
    since,       \* key -> time since a second factor was last accepted
    stale,       \* client -> another request has saved the session since it loaded it
    standing,    \* key -> its elevation was saved, no other request under way
    barred       \* key -> its elevation was cleared, likewise, from a copy not stale

locals  == <<pc, key, copy, modified, did, stale>>
history == <<since, standing, barred>>
vars    == <<store, ended, locals, history>>

Cap      == MaxAge + Skew + 1
Readings == 0..Skew      \* how far the clock of a machine is ahead of the slowest
Markers  == [age : 0..Cap, ahead : Readings]

ASSUME MarkersAssumption == NoMarker \notin Markers /\ Absent \notin Markers

Init ==
    /\ store = [k \in Keys |-> Absent]
    /\ ended = {}
    /\ pc = [c \in Clients |-> "idle"]
    /\ key = [c \in Clients |-> NoKey]
    /\ copy = [c \in Clients |-> NoMarker]
    /\ modified = [c \in Clients |-> FALSE]
    /\ did = [c \in Clients |-> "nothing"]
    /\ stale = [c \in Clients |-> FALSE]
    /\ since = [k \in Keys |-> Cap]
    /\ standing = [k \in Keys |-> FALSE]
    /\ barred = [k \in Keys |-> FALSE]

(***************************************************************************)
(* Sessions and time.                                                      *)
(***************************************************************************)
\* One browser: it logs in when it has no session.
Login(k) ==
    /\ k \notin ended
    /\ \A j \in Keys : store[j] = Absent
    /\ store' = [store EXCEPT ![k] = NoMarker]
    /\ UNCHANGED <<ended, locals, history>>

Older(a) == IF a < Cap THEN a + 1 ELSE a
Aged(m)  == IF m \in Markers THEN [m EXCEPT !.age = Older(@)] ELSE m

Tick ==
    /\ store' = [k \in Keys |-> Aged(store[k])]
    /\ copy' = [c \in Clients |-> Aged(copy[c])]
    /\ since' = [k \in Keys |-> Older(since[k])]
    /\ UNCHANGED <<ended, pc, key, modified, did, stale, standing, barred>>

(***************************************************************************)
(* A request: it loads the session, runs a view, and saves the session.    *)
(***************************************************************************)
UnderWay(k) == {c \in Clients : pc[c] # "idle" /\ key[c] = k}

Start(c, k) ==
    /\ pc[c] = "idle"
    /\ store[k] # Absent
    /\ pc' = [pc EXCEPT ![c] = "view"]
    /\ key' = [key EXCEPT ![c] = k]
    /\ copy' = [copy EXCEPT ![c] = store[k]]
    /\ UNCHANGED <<store, ended, modified, did, stale, history>>

\* A view runs; "inside" when mfa_required has admitted the request to it.
InView(c) == pc[c] \in {"view", "inside"}

\* Slip: a clock that shows local time.
LocalTime == Readings \cup {Skew + 1}

\* The clock that gives elevated_at.
Taken == Readings

\* A second factor was accepted, and the view marks the session.
mark_mfa_elevated(c) ==
    /\ InView(c)
    /\ \E r \in Taken : copy' = [copy EXCEPT ![c] = [age |-> 0, ahead |-> r]]
    /\ modified' = [modified EXCEPT ![c] = TRUE]
    /\ did' = [did EXCEPT ![c] = "marked"]
    /\ since' = [since EXCEPT ![key[c]] = 0]
    /\ standing' = [standing EXCEPT ![key[c]] = FALSE]
    /\ barred' = [barred EXCEPT ![key[c]] = FALSE]
    /\ UNCHANGED <<store, ended, pc, key, stale>>

\* Slips: the marker is removed from the copy only, and the session not saved;
\* a marker taken this very instant counts as one of the future; the marker is
\* renewed by each check; there is no age limit.
ForgetModified(c)  == modified
NotYet(m, r)       == m.age + r - m.ahead <= 0
Renewed(m, r)      == [age |-> 0, ahead |-> r]
NeverExpired(m, r, max_age) == FALSE

SetModified(c) == [modified EXCEPT ![c] = copy[c] # NoMarker \/ @]

clear_mfa_elevation(c) ==
    /\ InView(c)
    /\ copy' = [copy EXCEPT ![c] = NoMarker]
    /\ modified' = SetModified(c)
    /\ did' = [did EXCEPT ![c] = "cleared"]
    /\ standing' = [standing EXCEPT ![key[c]] = FALSE]
    /\ UNCHANGED <<store, ended, pc, key, stale, since, barred>>

\* current_time - elevated_at, on a machine whose clock is r ahead.
Elapsed(m, r) == m.age + r - m.ahead

InFuture(m, r)         == Elapsed(m, r) < 0
Expired(m, r, max_age) == Elapsed(m, r) > max_age

is_mfa_elevated(m, r, max_age) ==
    m # NoMarker /\ ~InFuture(m, r) /\ ~Expired(m, r, max_age)

\* What an admitted request leaves in its copy.
Kept(m, r) == m

\* max_age is the limit of the view, or the setting.
Admit(c, max_age) ==
    /\ pc[c] = "view"
    /\ \E r \in Readings :
          /\ is_mfa_elevated(copy[c], r, max_age)
          /\ copy' = [copy EXCEPT ![c] = Kept(@, r)]
    /\ pc' = [pc EXCEPT ![c] = "inside"]
    /\ UNCHANGED <<store, ended, key, modified, did, stale, history>>

\* A check may find a marker too old, or too new for the slower of two clocks.
Due(m, max_age) == m = NoMarker \/ m.age < Skew \/ m.age > max_age - Skew

\* Refused: what is_mfa_elevated found it has cleared.  mfa_required responds at
\* once, a view that asked by itself goes on.
Refuse(c) ==
    /\ InView(c)
    /\ \E r \in Readings, max_age \in Ages :
          /\ ~is_mfa_elevated(copy[c], r, max_age)
          /\ standing' = [standing EXCEPT ![key[c]] = @ /\ ~Due(copy[c], max_age)]
          /\ did' = [did EXCEPT ![c] = IF Due(copy[c], max_age) THEN "nothing" ELSE @]
    /\ copy' = [copy EXCEPT ![c] = NoMarker]
    /\ modified' = SetModified(c)
    /\ \E next \in {pc[c], "respond"} : pc' = [pc EXCEPT ![c] = next]
    /\ UNCHANGED <<store, ended, key, stale, since, barred>>

\* The application changes something else in the session.
ModifyOther(c) ==
    /\ InView(c)
    /\ ~modified[c]
    /\ modified' = [modified EXCEPT ![c] = TRUE]
    /\ UNCHANGED <<store, ended, pc, key, copy, did, stale, history>>

\* logout() flushes the session: it is deleted at once.
Logout(c) ==
    /\ InView(c)
    /\ store' = [store EXCEPT ![key[c]] = Absent]
    /\ ended' = ended \cup {key[c]}
    /\ pc' = [pc EXCEPT ![c] = "respond"]
    /\ copy' = [copy EXCEPT ![c] = NoMarker]
    /\ modified' = [modified EXCEPT ![c] = FALSE]
    /\ did' = [did EXCEPT ![c] = "nothing"]
    /\ standing' = [standing EXCEPT ![key[c]] = FALSE]
    /\ UNCHANGED <<key, stale, since, barred>>

Finish(c) ==
    /\ pc' = [pc EXCEPT ![c] = "idle"]
    /\ key' = [key EXCEPT ![c] = NoKey]
    /\ copy' = [copy EXCEPT ![c] = NoMarker]
    /\ modified' = [modified EXCEPT ![c] = FALSE]
    /\ did' = [did EXCEPT ![c] = "nothing"]

Saves(c) == modified[c] /\ store[key[c]] # Absent

Respond(c) ==
    LET k == key[c]  others == UnderWay(k) \ {c} IN
    /\ pc[c] # "idle"
    /\ store' = IF Saves(c) THEN [store EXCEPT ![k] = copy[c]] ELSE store
    /\ stale' = [d \in Clients |->
                   IF d = c THEN FALSE ELSE stale[d] \/ (Saves(c) /\ d \in others)]
    /\ standing' = IF did[c] = "marked" /\ others = {}
                     THEN [standing EXCEPT ![k] = store[k] # Absent] ELSE standing
    /\ barred' = IF did[c] = "cleared" /\ others = {} /\ ~stale[c]
                   THEN [barred EXCEPT ![k] = TRUE] ELSE barred
    /\ Finish(c)
    /\ UNCHANGED <<ended, since>>

\* The process ends, or the view fails: the session is not saved.
Crash(c) ==
    /\ pc[c] # "idle"
    /\ Finish(c)
    /\ stale' = [stale EXCEPT ![c] = FALSE]
    /\ UNCHANGED <<store, ended, history>>

(***************************************************************************)
(* Specification                                                           *)
(***************************************************************************)
Request(c) ==
    \/ \E k \in Keys : Start(c, k)
    \/ mark_mfa_elevated(c) \/ clear_mfa_elevation(c)
    \/ \E max_age \in Ages : Admit(c, max_age)
    \/ Refuse(c) \/ ModifyOther(c) \/ Logout(c)
    \/ Respond(c) \/ Crash(c)

Next ==
    \/ \E k \in Keys : Login(k)
    \/ Tick
    \/ \E c \in Clients : Request(c)

Spec == Init /\ [][Next]_vars

\* Time passes.  Nothing is assumed of the user or of the requests.
FairSpec == Spec /\ WF_vars(Tick)

(***************************************************************************)
(* The inductive invariant behind the safety properties.                   *)
(***************************************************************************)
\* A request not under way has nothing left; one under way had a session, which
\* only logout ends.
RequestsFit ==
    \A c \in Clients :
        IF pc[c] = "idle"
          THEN copy[c] = NoMarker /\ did[c] = "nothing" /\ ~modified[c] /\ ~stale[c]
          ELSE store[key[c]] # Absent \/ key[c] \in ended

\* What a request has done is in its copy; a request that will not be saved, and
\* that no other has overtaken, has what is stored.
CopyIsCurrent ==
    \A c \in Clients :
        /\ did[c] = "marked" => copy[c] \in Markers /\ modified[c]
        /\ did[c] = "cleared" => copy[c] = NoMarker
        /\ pc[c] # "idle" /\ ~stale[c] /\ ~modified[c] =>
              copy[c] = store[key[c]] \/ store[key[c]] = Absent

\* No marker looks younger than the factor accepted last in its session.
NoneLooksYounger ==
    /\ \A k \in Keys : store[k] \in Markers => store[k].age >= since[k]
    /\ \A c \in Clients :
          pc[c] # "idle" /\ copy[c] \in Markers => copy[c].age >= since[key[c]]

\* While a session's elevation stands, or is barred, the requests that use the
\* session agree.
RequestsAgree ==
    \A k \in Keys, c \in Clients :
        pc[c] # "idle" /\ key[c] = k =>
            /\ standing[k] => copy[c] \in Markers
            /\ barred[k] => copy[c] = NoMarker

(***************************************************************************)
(* Properties                                                              *)
(***************************************************************************)
\* Every variable has its type; a request under way has a session.
TypeOK ==
    /\ store \in [Keys -> Markers \cup {NoMarker, Absent}]
    /\ ended \subseteq Keys
    /\ pc \in [Clients -> {"idle", "view", "inside", "respond"}]
    /\ key \in [Clients -> Keys \cup {NoKey}]
    /\ copy \in [Clients -> Markers \cup {NoMarker}]
    /\ modified \in [Clients -> BOOLEAN]
    /\ did \in [Clients -> {"nothing", "marked", "cleared"}]
    /\ stale \in [Clients -> BOOLEAN]
    /\ since \in [Keys -> 0..Cap]
    /\ standing \in [Keys -> BOOLEAN]
    /\ barred \in [Keys -> BOOLEAN]
    /\ \A c \in Clients : pc[c] # "idle" => key[c] \in Keys

\* Nobody is admitted without a second factor that was accepted in the session
\* within the age limit of the view and what the clocks differ, not even by a
\* request that writes back an elevation another one has cleared.
AdmittedOnFactor ==
    [][\A c \in Clients, max_age \in Ages :
          Admit(c, max_age) => since[key[c]] <= max_age + Skew]_vars

\* An elevation that was saved while no other request was under way stays until
\* it is cleared, logged out or due: no later request loses it, and it never
\* looks younger than the factor accepted last.
StandingIsStored ==
    \A k \in Keys :
        standing[k] => /\ store[k] \in Markers
                       /\ store[k].age >= since[k]

\* An elevation that was cleared while no other request was under way is gone
\* from the store until a factor is accepted again; a session that was logged
\* out is not stored again by any request that was under way.
ClearHolds ==
    \A k \in Keys : /\ barred[k] => store[k] \in {NoMarker, Absent}
                    /\ k \in ended => store[k] = Absent

\* When no more factors are accepted, admissions end, whatever overlapping
\* requests write back.
ElevationLapses ==
    <>[][\A k \in Keys : since'[k] >= since[k]]_vars
        => <>[][\A c \in Clients : pc'[c] = "inside" => pc[c] = "inside"]_vars

\* What the proofs show to be invariant.
Inv == /\ TypeOK /\ RequestsFit /\ CopyIsCurrent /\ NoneLooksYounger
       /\ StandingIsStored /\ ClearHolds /\ RequestsAgree
=============================================================================
