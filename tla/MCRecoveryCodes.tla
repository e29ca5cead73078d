--------------------------- MODULE MCRecoveryCodes ---------------------------
(* Small instances of RecoveryCodes: the symmetry of its callers. *)
EXTENDS RecoveryCodes, TLC

ClientSymmetry == Permutations(Clients)
=============================================================================
