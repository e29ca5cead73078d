---------------------------- MODULE ThrottleOrder ----------------------------
(***************************************************************************)
(* RecoveryCodes with a history variable: which calls have waited for rows *)
(* another verification holds.  It constrains nothing.                     *)
(***************************************************************************)
EXTENDS RecoveryCodes

VARIABLE waited \* client -> whether its query of active codes has waited

\* The next row of the query of active codes belongs to another verification.
Waits(c) ==
    pc[c] = "active" /\ \E r \in NextRows(c) : \E b \in Clients \ {c} :
                            lock[r] = b /\ call[b].kind = "verify"

Remember == waited' = [c \in Clients |-> pc'[c] = "active" /\ (waited[c] \/ Waits(c))]

InitWaited == Init /\ waited = [c \in Clients |-> FALSE]

SpecWaited == InitWaited /\ [][Next /\ Remember]_<<vars, waited>>

\* What recovery-code-support.md has a verification do: lock the rows, then apply
\* the throttle, then compare.  A call that waited for another verification of
\* the user's codes, and has now locked rows with codes to compare with, does so
\* only while its scope is below the limit: what the other one recorded counts.
ThrottledBeforeCompare ==
    \A c \in Clients :
        /\ Arrived(c, "active")
        /\ waited[c]
        /\ \E k \in found[c] : Active(k)
        /\ call[c].scope # NoScope
        => ThrottleAllows(call[c].scope)
=============================================================================
