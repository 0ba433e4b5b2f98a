------------------------------ MODULE Lockout ------------------------------
(* The lockout of source addresses that present wrong tokens (webhook/ratelimit.go,  *)
(* auth, adminAuth). The token is checked first: a right one is always admitted and  *)
(* halves the count, a wrong one is counted, and refused unread while a block lasts. *)
EXTENDS Naturals, FiniteSets

CONSTANTS Addrs,                    \* source addresses
          MaxFailures, ForgiveFloor,\* authMaxFailures, authSuccessForgiveFloor
          Window, BlockFor,         \* authWindow, authBlockFor
          GCThreshold, GCInterval,  \* authLimiterGCThreshold, authLimiterGCInterval
          MaxEntries,               \* authLimiterMaxEntries
          MaxClock                  \* bound on the clock

ASSUME LockoutAssumption ==
    /\ MaxFailures \in Nat \ {0} /\ ForgiveFloor \in Nat /\ Window \in Nat
    /\ BlockFor \in Nat /\ GCThreshold \in Nat /\ GCInterval \in Nat
    /\ MaxEntries \in Nat /\ MaxClock \in Nat \ {0}
    /\ Window < BlockFor \* five minutes, fifteen minutes

VARIABLES
    clock,    \* the time, from 1: a block that ends at 0 was never set
    entries,  \* byAddr: [failures, since, until], Untracked for no entry
    lastGC    \* when the map was last swept
lockout == <<clock, entries, lastGC>>

Untracked == [failures |-> 0, since |-> 0, until |-> 0]

LockoutInit == clock = 1 /\ entries = [a \in Addrs |-> Untracked] /\ lastGC = 0

Tracked(e) == {a \in Addrs : e[a] # Untracked}
Blocked(a) == clock < entries[a].until

Tick == clock < MaxClock /\ clock' = clock + 1 /\ UNCHANGED <<entries, lastGC>>

-----------------------------------------------------------------------------

SweepDue == Cardinality(Tracked(entries)) >= GCThreshold /\ clock - lastGC >= GCInterval

\* Mutation: past its window an entry goes, blocked or not.
Swept_Blocked ==
    [a \in Addrs |-> IF SweepDue /\ clock - entries[a].since > Window
                     THEN Untracked ELSE entries[a]]

\* The map after gc: entries neither blocked nor within their window go. The ceiling
\* is kept by refusing entries, so the eviction after it finds nothing to do.
Swept ==
    [a \in Addrs |-> IF SweepDue /\ clock > entries[a].until /\ clock - entries[a].since > Window
                     THEN Untracked ELSE entries[a]]

Sweeps == lastGC' = IF SweepDue THEN clock ELSE lastGC

\* Mutation: the count of an address that stays tracked is never begun anew.
StartsAnew_OnlyNew(e, a) == e[a] = Untracked

\* An address starts counting anew when it has no entry, or one whose window is over
\* and which is not blocked; at the ceiling a new one is not tracked.
StartsAnew(e, a) ==
    e[a] = Untracked \/ (clock - e[a].since > Window /\ clock >= e[a].until)
Ceiling(e, a) == e[a] = Untracked /\ Cardinality(Tracked(e)) >= MaxEntries

\* recordFailureLocked's count.
Counted(e, a) ==
    LET n == (IF StartsAnew(e, a) THEN 0 ELSE e[a].failures) + 1 IN
    [failures |-> n,
     since |-> IF StartsAnew(e, a) THEN clock ELSE e[a].since,
     until |-> IF n >= MaxFailures THEN clock + BlockFor
               ELSE IF StartsAnew(e, a) THEN 0 ELSE e[a].until]

\* A wrong token from an address that is not blocked: fail.
Wrong(a) ==
    /\ ~Blocked(a)
    /\ entries' = IF Ceiling(Swept, a) THEN Swept ELSE [Swept EXCEPT ![a] = Counted(Swept, a)]
    /\ Sweeps /\ UNCHANGED clock

\* A right token, blocked or not: recordSuccess.
Right(a) ==
    /\ LET half == Swept[a].failures \div 2 IN
         entries' = IF half < ForgiveFloor THEN [Swept EXCEPT ![a] = Untracked]
                    ELSE [Swept EXCEPT ![a].failures = half]
    /\ Sweeps /\ UNCHANGED clock

Auth(a) == Wrong(a) \/ Right(a)

\* The hooks, the admin routes and the session endpoint count at one limiter.
LockoutNext == Tick \/ \E a \in Addrs : Auth(a)

-----------------------------------------------------------------------------
(* Properties                                                                       *)

LockoutType ==
    /\ clock \in 1..MaxClock /\ lastGC \in 0..MaxClock
    /\ entries \in [Addrs -> [failures : 0..MaxFailures, since : 0..MaxClock,
                              until : 0..(MaxClock + BlockFor)]]

\* A block ends by time, or by right tokens of the blocked address itself: no flood of
\* other addresses, no sweep and no further wrong token shortens or lifts it; and the
\* map never holds more than its ceiling.
BlocksSurviveFloods ==
    [][/\ Cardinality(Tracked(entries')) <= MaxEntries
       /\ \A a \in Addrs : Blocked(a) /\ ~Right(a) => entries'[a] = entries[a]]_lockout
=============================================================================
