---------------------------- MODULE OneTimeCodes ----------------------------
(***************************************************************************)
(* What the HOTP and TOTP services share: one-time codes as uninterpreted  *)
(* values and the search of a range of counters for the first match.       *)
(* Nothing is assumed of the codes: two counters may have the same one.    *)
(***************************************************************************)
EXTENDS Integers

CONSTANTS
    CodeAt(_, _), \* pyotp.HOTP(secret).at(counter); TOTP's counter is its time step
    Blank,        \* a submission that is empty once stripped
    None          \* Python's None where a counter is expected

ASSUME NoneAssumption == None \notin Int

IsLeast(n, S) == n \in S /\ \A m \in S : n <= m

\* The loops of the code walk a range upwards and return the first hit, which
\* is the least element of the set of hits.
FirstOf(S) ==
    IF \E n \in S : IsLeast(n, S) THEN CHOOSE n \in S : IsLeast(n, S) ELSE None
=============================================================================
