---------------------------- MODULE HOTPServices ----------------------------
(***************************************************************************)
(* The services of HOTP used as documented: the caller keeps the counter   *)
(* and stores next_counter of every result.  A secret is the table of its  *)
(* codes, and every table over the code space is tried, so that codes      *)
(* repeat in every way they can.                                           *)
(***************************************************************************)
EXTENDS HOTP

CONSTANTS
    CodeSpace,       \* the codes there are
    Horizon,         \* bound: the counters of a table are 0..Horizon
    MaxCounter,      \* bound: the largest counter stored
    LookAhead, SearchWindow, ReplayWindow

ASSUME HorizonAssumption ==
    /\ {Horizon, MaxCounter, LookAhead, SearchWindow, ReplayWindow} \subseteq Nat
    /\ MaxCounter + LookAhead + SearchWindow + 2 <= Horizon

Tables == [0..Horizon -> CodeSpace]

ASSUME TablesAssumption ==
    /\ \A s \in Tables, n \in 0..Horizon : CodeAt(s, n) = s[n]
    /\ Blank \notin CodeSpace

VARIABLES
    secret,      \* counter -> code
    counter,     \* the stored counter
    last         \* the codes submitted last and the result they had

vars == <<secret, counter, last>>

Init ==
    /\ secret \in Tables
    /\ counter = 0
    /\ last = <<<<>>, Rejected("invalid", 0, None)>>

Store(codes, res) ==
    /\ res.next <= MaxCounter
    /\ counter' = res.next
    /\ last' = <<codes, res>>
    /\ UNCHANGED secret

VerifyOne ==
    \E x \in CodeSpace \cup {Blank} :
        Store(<<x>>, verify_hotp(secret, x, counter, LookAhead, ReplayWindow))

Resync ==
    \E x, y \in CodeSpace \cup {Blank} :
        Store(<<x, y>>, resync_hotp(secret, <<x, y>>, counter, SearchWindow, ReplayWindow))

Next == VerifyOne \/ Resync

Spec == Init /\ [][Next]_vars

-----------------------------------------------------------------------------
Answer(codes) ==
    IF Len(codes) = 1
      THEN verify_hotp(secret, codes[1], counter, LookAhead, ReplayWindow)
      ELSE resync_hotp(secret, codes, counter, SearchWindow, ReplayWindow)

Window == IF Len(last[1]) = 1 THEN LookAhead ELSE SearchWindow

\* Whether the codes are those of the counters from n on.
Repeated(codes, n) == \A i \in 1..Len(codes) : secret[n + i - 1] = codes[i]

\* What the proofs rest on: the codes accepted last are those of the counters
\* right below the stored one.
LastIsSpent ==
    last[2].accepted =>
        LET codes == last[1] IN
        /\ codes \in (CodeSpace \X CodeSpace) \cup {<<x>> : x \in CodeSpace}
        /\ last[2].matched \in Nat
        /\ counter = last[2].matched + Len(codes)
        /\ Repeated(codes, last[2].matched)

Inv ==
    /\ secret \in Tables /\ counter \in 0..MaxCounter
    /\ LastIsSpent

\* What was accepted is refused when it is submitted again, and called a
\* replay, as far back as the replay window reaches; the only exception is a
\* code that happens to come again further on in the window.
ReplayIsRefused ==
    last[2].accepted =>
        LET codes == last[1]  k == Len(codes)  past == last[2].matched + k IN
        IF \E n \in past..(counter + Window - k + 1) : Repeated(codes, n)
          THEN Answer(codes).matched >= past
          ELSE /\ ~Answer(codes).accepted
               /\ (ReplayWindow >= k) = (Answer(codes).classification = "replay")

\* Resynchronising with two codes is verifying the first with the search window
\* as look-ahead and the second with none, when both lie inside the window; and
\* it accepts nothing whose first code such a verification would refuse, and
\* nothing that ends beyond the window.
ResyncIsVerifyTwice ==
    \A x, y \in CodeSpace :
        LET first  == verify_hotp(secret, x, counter, SearchWindow, ReplayWindow)
            second == verify_hotp(secret, y, first.next, 0, ReplayWindow)
            both   == resync_hotp(secret, <<x, y>>, counter, SearchWindow, ReplayWindow)
        IN  /\ first.accepted /\ second.accepted /\ second.next <= counter + SearchWindow + 1
                 => both.accepted /\ both.next = second.next
            /\ both.accepted => /\ first.accepted /\ first.matched <= both.matched
                                /\ both.next <= counter + SearchWindow + 1

\* Resynchronisation repairs any drift the search window reaches: two codes the
\* token shows in a row are accepted, and when codes do not repeat the next one
\* it shows is the one the server expects.
DriftIsRepaired ==
    \A n \in counter..(counter + SearchWindow - 1) :
        LET res == Answer(<<secret[n], secret[n + 1]>>) IN
        /\ res.accepted /\ res.matched <= n
        /\ (\A m \in counter..(n - 1) : secret[m] # secret[n]) =>
              verify_hotp(secret, secret[n + 2], res.next, LookAhead, ReplayWindow)
                  .classification = "success"
=============================================================================
