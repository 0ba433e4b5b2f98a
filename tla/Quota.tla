------------------------------- MODULE Quota -------------------------------
(* The estimate of what the CA still allows (internal/ratelimit): a bucket that       *)
(* refills with the wall clock, and the instants the CA named. Levels are counted in  *)
(* the token's refill units, so that one unit of time gives one unit of level.        *)
EXTENDS Integers

CONSTANTS Capacity, \* tokens a full bucket holds
          Refill    \* units of time one token takes to come back
ASSUME QuotaAssumption == Capacity \in Nat \ {0} /\ Refill \in Nat \ {0}

Full == Capacity * Refill
Never == 0 \* the anchor of a bucket nothing was ever spent from
\* A row of rate_buckets: the level, when it was that, and the CA's instant.
NoBucket == [level |-> Full, at |-> Never, reset |-> Never]

Least(a, b) == IF a < b THEN a ELSE b
Greatest(a, b) == IF a < b THEN b ELSE a

\* level: unclamped, so that a debt is worked off; no credit for time that runs back.
level(b, t) == IF b.at = Never THEN Full ELSE b.level + Greatest(0, t - b.at)
Remaining(b, t) == Greatest(0, Least(level(b, t), Full))

\* Spend: the anchor only moves forward, what lies above the capacity is not kept.
\* Mutation: an idle bucket overflows.
Spend_Overflows(b, t) ==
    [b EXCEPT !.level = Greatest(-Full, level(b, t) - Refill), !.at = Greatest(t, @)]
Spend(b, t) ==
    [b EXCEPT !.level = Greatest(-Full, Least(level(b, t), Full) - Refill), !.at = Greatest(t, @)]

\* NoteDeadline keeps the later instant; BlockedUntil and Remaining read it.
\* Mutation: the instant heard last wins.
NoteDeadline_Last(b, at) == [b EXCEPT !.reset = at]
NoteDeadline(b, at) == [b EXCEPT !.reset = Greatest(at, @)]
Blocked(b, t) == t < b.reset

\* The CA's own bucket, on the CA's own clock: no debt, since it refuses.
CaLevel(ca, t) == Least(Full, ca.level + t - ca.at)
CaTake(ca, t) == [level |-> CaLevel(ca, t) - Refill, at |-> t]
=============================================================================
