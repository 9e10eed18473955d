------------------------------- MODULE Serials -------------------------------
(***************************************************************************)
(* dsv-rssac-notify's arithmetic of zone serial numbers: numbers below     *)
(* 2 * Half that wrap around, Half being 2^31, and the loop that finds the *)
(* latest of those the database has, in the order the database gives them. *)
(***************************************************************************)
EXTENDS Integers, Sequences

CONSTANTS
    Half,       \* 2^31 in the code; any half range has the same arithmetic
    Window,     \* how far the zone's serials are from the oldest of them
    MaxLength   \* bound: length of the lists that are tried

ASSUME SerialAssumption ==
    /\ Half \in Nat \ {0}
    /\ Window \in Nat

SerialNumbers == 0..(2 * Half - 1)

\* RFC 1982, section 3.2: a is less than b.
Before(a, b) == (a < b /\ b - a < Half) \/ (a > b /\ a - b > Half)

\* The pairs that RFC 1982 leaves undefined.
Undefined(a, b) == a - b = Half \/ b - a = Half

RFC1982(a, b) == IF a = b THEN 0 ELSE IF Before(a, b) THEN -1 ELSE 1

\* Faulty: plain numbers, which do not wrap around.
CmpPlain(a, b) == IF a = b THEN 0 ELSE IF a < b THEN -1 ELSE 1

cmp_serial(a, b) ==
    IF a = b THEN 0
    ELSE IF \/ a < b /\ b - a < Half - 1
            \/ a > b /\ a - b > Half - 1
    THEN -1 ELSE 1

None == -1

VARIABLES
    oldest,     \* the zone's serial a month ago
    serials,    \* the serials still to be looked at
    seen,       \* those that have been
    res         \* the latest so far; None before the first

serialsVars == <<oldest, serials, seen, res>>

\* By how much a serial has grown since the oldest one.
Growth(s) == IF s >= oldest THEN s - oldest ELSE s - oldest + 2 * Half

Recent == {s \in SerialNumbers : Growth(s) <= Window}

SerialsInit ==
    /\ oldest \in SerialNumbers
    /\ serials \in UNION {[1..n -> Recent] : n \in 0..MaxLength}
    /\ seen = <<>>
    /\ res = None

\* "not res" holds of None, and of serial 0 as well.
SerialsNext ==
    /\ serials # <<>>
    /\ res' = IF res \in {None, 0} \/ cmp_serial(res, Head(serials)) < 0
              THEN Head(serials) ELSE res
    /\ seen' = Append(seen, Head(serials))
    /\ serials' = Tail(serials)
    /\ UNCHANGED oldest

SerialsSpec == SerialsInit /\ [][SerialsNext]_serialsVars

-----------------------------------------------------------------------------
(* Properties                                                              *)

\* Serial 0 is what the loop starts with: it is lost.
Nonzero == \A i \in 1..Len(seen) : seen[i] # 0

\* find_latest_serial finds a serial of the list that none of the list comes
\* after, in whatever order the database gives them, on both sides of the point
\* where the numbers wrap around, if none of them is 0 and they are close enough.
LatestFound ==
    seen # <<>> /\ Nonzero /\ Window < Half - 1 =>
        /\ \E i \in 1..Len(seen) : res = seen[i]
        /\ \A i \in 1..Len(seen) : ~Before(res, seen[i])
=============================================================================
