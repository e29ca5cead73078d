-------------------------------- MODULE TOTP --------------------------------
(***************************************************************************)
(* The pure TOTP service of django_mfa_toolkit/totp.py.  Time is counted   *)
(* in steps of the device's interval (pyotp's timecode), and a reading of  *)
(* the clock is late enough for the window below it not to be negative.    *)
(***************************************************************************)
EXTENDS OneTimeCodes

\* Slips the runs tell apart from the code: the window ends one step early; the
\* offset is returned without the base; the window is searched downwards; a step
\* equal to the last accepted one is not a replay.
WindowWithoutEnd(base, valid_window)  == (base - valid_window)..(base + valid_window - 1)
SpentOnlyBefore(timecode, last)       == last # None /\ timecode < last
OffsetOnly(secret, code, base, valid_window) ==
    FirstOf({o \in (-valid_window)..valid_window : CodeAt(secret, base + o) = code})

LatestMatch(secret, code, base, valid_window) ==
    LET hits == {t \in (base - valid_window)..(base + valid_window) :
                    CodeAt(secret, t) = code}
    IN  IF hits = {} THEN None ELSE CHOOSE t \in hits : \A u \in hits : u <= t

Steps(base, valid_window) == (base - valid_window)..(base + valid_window)

find_matching_timecode(secret, code, base, valid_window) ==
    FirstOf({t \in Steps(base, valid_window) : CodeAt(secret, t) = code})

IsReplay(timecode, last) == last # None /\ timecode <= last

TOTPResult(accepted, matched, reason) ==
    [accepted |-> accepted, matched |-> matched, failure_reason |-> reason]

verify_totp(secret, code, at_time, valid_window, last) ==
    LET matched == find_matching_timecode(secret, code, at_time, valid_window) IN
    IF code = Blank \/ matched = None THEN TOTPResult(FALSE, None, "invalid")
    ELSE IF IsReplay(matched, last) THEN TOTPResult(FALSE, matched, "replay")
    ELSE TOTPResult(TRUE, matched, "none")
=============================================================================
