---------------------------- MODULE MCTOTPDevice ----------------------------
(* A small instance of TOTPDevice: the codes, the scopes and the symmetry. *)
EXTENDS TOTPDevice, TLC

\* Codes come again every third step: none twice within a window of three, but
\* a spent code is the code of a step to come.
RepeatingCodes(d, t) == <<d, t % 3>>

OwnScope == [d \in Devices |-> Scopes]

ClientSymmetry == Permutations(Clients)
=============================================================================
