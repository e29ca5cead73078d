-------------------------- MODULE IntegrationChecks --------------------------
(***************************************************************************)
(* The assertion helpers of django_mfa_toolkit/integration_checks.py, run  *)
(* against a device of the caller: what they conclude, over every table of *)
(* codes of HOTPServices.  A helper makes two calls of an adapter; what    *)
(* the adapter stores after the first is what the second is given.  The    *)
(* helpers call it without a throttle scope.                               *)
(***************************************************************************)
EXTENDS HOTPServices, TOTP

CONSTANTS
    DefaultInterval,   \* the step of pyotp.TOTP without an interval, in units of time
    Intervals,         \* the intervals of the devices checked
    Times,             \* the times of the checks
    ValidWindows

ASSUME IntervalsAssumption ==
    /\ DefaultInterval \in Intervals /\ Intervals \subseteq Nat \ {0}
    /\ Times \subseteq Nat /\ ValidWindows \subseteq Nat
    /\ \A at_time \in Times, interval \in Intervals, valid_window \in ValidWindows :
          Steps(at_time \div interval, valid_window) \subseteq 0..Horizon

\* The adapters' answers; ok says whether the device is active and confirmed.
HOTPAnswer(ok, code, server, look_ahead, replay_window) ==
    IF ok THEN verify_hotp(secret, code, server, look_ahead, replay_window)
          ELSE Rejected("invalid", server, None)

TOTPAnswer(ok, code, base, valid_window, last_step) ==
    IF ok THEN verify_totp(secret, code, base, valid_window, last_step)
          ELSE TOTPResult(FALSE, None, "invalid")

\* Slip: any refusal counts as the refusal of a replay.
AnyRefusal(res) == ~res.accepted

RefusedAsReplay(res) == ~res.accepted /\ res.classification = "replay"

\* device_counter is the counter of the object passed in, which may have been
\* read before the row went on to counter.  The check passes when no assertion
\* is raised.
assert_hotp_device_rejects_replay(device_counter, ok, look_ahead, replay_window) ==
    LET code     == CodeAt(secret, device_counter)
        accepted == HOTPAnswer(ok, code, counter, look_ahead, replay_window)
        replayed == HOTPAnswer(ok, code, accepted.next, look_ahead, replay_window)
    IN  /\ accepted.accepted /\ accepted.next = device_counter + 1
        /\ RefusedAsReplay(replayed)
        /\ replayed.next = device_counter + 1

\* The code submitted is that of the default interval, whatever the device has.
assert_totp_device_rejects_replay(at_time, interval, ok, valid_window, last_step) ==
    LET code     == CodeAt(secret, at_time \div DefaultInterval)
        base     == at_time \div interval
        accepted == TOTPAnswer(ok, code, base, valid_window, last_step)
        replayed == TOTPAnswer(ok, code, base, valid_window,
                        IF accepted.accepted THEN accepted.matched ELSE last_step)
    IN  /\ accepted.accepted
        /\ ~replayed.accepted /\ replayed.failure_reason = "replay"

-----------------------------------------------------------------------------
\* The HOTP check passes on a correct integration exactly when the device is
\* confirmed, the object passed in is not stale, the replay window is not empty,
\* and the code does not come again within the look-ahead: any other failure it
\* reports is a false alarm.
HOTPCheckIsExact ==
    \A n \in 0..counter, ok \in BOOLEAN,
       look_ahead \in 0..LookAhead, replay_window \in 0..ReplayWindow :
        assert_hotp_device_rejects_replay(n, ok, look_ahead, replay_window) <=>
            /\ ok /\ n = counter /\ replay_window > 0
            /\ \A m \in (counter + 1)..(counter + 1 + look_ahead) : secret[m] # secret[n]

\* The TOTP check passes on a correct integration with the default interval
\* exactly when no step of the window that was accepted before, or precedes one
\* that was, has the present code; with any other interval the present code must
\* also happen to be that of another step, since the interval is not passed on.
TOTPCheckIsExact ==
    \A at_time \in Times, interval \in Intervals, ok \in BOOLEAN,
       valid_window \in ValidWindows, last_step \in {None} \cup Times :
        LET step   == at_time \div DefaultInterval
            window == Steps(at_time \div interval, valid_window)
            same   == {t \in window : secret[t] = secret[step]}
            passes == assert_totp_device_rejects_replay(
                          at_time, interval, ok, valid_window, last_step)
        IN  /\ passes <=> /\ ok /\ same # {}
                          /\ last_step # None => \A t \in same : t > last_step
            /\ interval = DefaultInterval => step \in same
=============================================================================
