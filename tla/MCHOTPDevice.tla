---------------------------- MODULE MCHOTPDevice ----------------------------
(* Small instances of HOTPDevice: the codes, the scopes and the symmetry.  *)
EXTENDS HOTPDevice, TLC

\* Distinct codes: one per device and counter.
DistinctCodes(d, n) == <<d, n>>

\* Every device has the scopes of the instance, so two devices share them; and
\* some calls are not throttled.
OwnScope    == [d \in Devices |-> Scopes]
ScopeOrNone == [d \in Devices |-> Scopes \cup {NoScope}]

ClientSymmetry == Permutations(Clients)
=============================================================================
