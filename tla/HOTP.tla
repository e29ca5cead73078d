-------------------------------- MODULE HOTP --------------------------------
(***************************************************************************)
(* The pure HOTP services of django_mfa_toolkit/hotp.py: verify_hotp and   *)
(* resync_hotp as functions from what they are given to the result they    *)
(* return.  The checks on digits, counter and window bounds raise before   *)
(* anything is computed and are left out; the modules that call the        *)
(* services stay inside those bounds.                                      *)
(***************************************************************************)
EXTENDS OneTimeCodes, Sequences

find_matching_counter(secret, code, start, end) ==
    FirstOf({n \in start..end : CodeAt(secret, n) = code})

\* Slips the runs tell apart from the code: a range one too short, a next
\* counter that is the matched one, and one past the next.
LastStartShort(codes, end) == end - Len(codes)

\* A sequence must fit inside start..end as a whole: the last start the loop
\* tries is end - len(codes) + 1.
LastStart(codes, end) == end - Len(codes) + 1

find_matching_sequence(secret, codes, start, end) ==
    FirstOf({n \in start..LastStart(codes, end) :
                \A i \in 1..Len(codes) : CodeAt(secret, n + i - 1) = codes[i]})

(***************************************************************************)
(* What the services return: whether the submission is accepted, how it is *)
(* classified, the counter it matched and the counter to go on with.       *)
(* server is the counter the service was given; the audit record keeps it. *)
(***************************************************************************)
NextIsMatched(class, server, matched, next) ==
    [accepted |-> TRUE, classification |-> class,
     server |-> server, matched |-> matched, next |-> matched]

NextIsSkipped(class, server, matched, next) ==
    [accepted |-> TRUE, classification |-> class,
     server |-> server, matched |-> matched, next |-> next + 1]

Accepted(class, server, matched, next) ==
    [accepted |-> TRUE, classification |-> class,
     server |-> server, matched |-> matched, next |-> next]

Rejected(class, server, matched) ==
    [accepted |-> FALSE, classification |-> class,
     server |-> server, matched |-> matched, next |-> server]

\* The first of the counters below the server's that are still recognised.
ReplayStart(server, replay_window) ==
    IF server > replay_window THEN server - replay_window ELSE 0

verify_hotp(secret, code, server, look_ahead, replay_window) ==
    LET ahead == find_matching_counter(secret, code, server, server + look_ahead)
        spent == find_matching_counter(
                     secret, code, ReplayStart(server, replay_window), server - 1)
    IN  IF code = Blank THEN Rejected("invalid", server, None)
        ELSE IF ahead = server THEN Accepted("success", server, ahead, ahead + 1)
        ELSE IF ahead # None
          THEN Accepted("counter_window_match", server, ahead, ahead + 1)
        ELSE IF spent # None THEN Rejected("replay", server, spent)
        ELSE Rejected("invalid", server, None)

\* The service raises when it is given fewer than two codes.
EnoughCodes(codes) == Len(codes) >= 2

resync_hotp(secret, codes, server, search_window, replay_window) ==
    LET end   == server + search_window
        ahead == find_matching_sequence(secret, codes, server, end)
        spent == find_matching_sequence(
                     secret, codes, ReplayStart(server, replay_window), server - 1)
        first == find_matching_counter(secret, codes[1], server, end)
    IN  IF \E i \in 1..Len(codes) : codes[i] = Blank
          THEN Rejected("invalid", server, None)
        ELSE IF ahead # None
          THEN Accepted("resync_success", server, ahead, ahead + Len(codes))
        ELSE IF spent # None THEN Rejected("replay", server, spent)
        ELSE IF first = None THEN Rejected("excessive_drift", server, None)
        ELSE Rejected("invalid", server, first)
=============================================================================
