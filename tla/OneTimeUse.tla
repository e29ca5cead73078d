----------------------------- MODULE OneTimeUse -----------------------------
(***************************************************************************)
(* What every factor of the toolkit promises of its one-time credentials:  *)
(* each one is honoured at most once.  A holder is a device (or a user's   *)
(* batch of recovery codes), a token is what one acceptance spends: a      *)
(* counter, a time step, a recovery code.                                  *)
(***************************************************************************)
EXTENDS Integers

CONSTANTS Holders, Tokens

VARIABLE uses    \* how often a token of a holder has been honoured

Init == uses = [h \in Holders |-> [t \in Tokens |-> 0]]

\* One acceptance spends the tokens of S, which may be several (the codes of
\* a resynchronisation) and are all unspent.
Use(h, S) ==
    /\ S # {}
    /\ \A t \in S : uses[h][t] = 0
    /\ uses' = [uses EXCEPT ![h] =
                  [t \in Tokens |-> IF t \in S THEN 1 ELSE uses[h][t]]]

Next == \E h \in Holders : \E S \in SUBSET Tokens : Use(h, S)

Spec == Init /\ [][Next]_uses
=============================================================================
