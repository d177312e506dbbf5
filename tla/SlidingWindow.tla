--------------------------- MODULE SlidingWindow ---------------------------
(***************************************************************************)
(* What the in-memory windows of handlers/rate-limit.ts,                   *)
(* handlers/rate-limit-by-ip.ts and handlers/behavior.ts have in common:   *)
(* lists of timestamps that are cut at their head before a new one is      *)
(* pushed.                                                                 *)
(***************************************************************************)
EXTENDS Integers, Sequences

\* The list without what precedes the first timestamp in the window; what
\* follows that one stays, in the window or not.
Kept(times, windowStart) ==
    LET first == CHOOSE i \in 1 .. Len(times) + 1 :
                    /\ \A j \in 1 .. i - 1 : times[j] <= windowStart
                    /\ i \in DOMAIN times => times[i] > windowStart
    IN SubSeq(times, first, Len(times))

\* ... and the new one pushed.
Pushed(times, windowStart, now) == Append(Kept(times, windowStart), now)
=============================================================================
