-------------------------- MODULE IssuanceInvariant --------------------------
(* What holds in every state of Issuance and makes its properties inductive: what a   *)
(* pass knows of the configuration it was begun with, that the store remembers the    *)
(* latest instant the CA named, that orders not yet booked explain what the estimate  *)
(* has too much, and that a record stands as long as a recorded reduction does. Then  *)
(* how much time is left when a name fails, from one issuance to the next.            *)
EXTENDS Issuance

Passes == [pc : Pcs, cfg : SUBSET Names, policy : BOOLEAN, set : SUBSET Names,
           held : BOOLEAN, unknown : BOOLEAN]
Rows == [names : SUBSET Names, after : Int, fails : 0..AfterFailures, next : Int, ari : Int]
Ledgers == [Names -> [n : Nat, at : Int]]
Buckets == [level : Int, at : Nat, reset : Nat]
WorldTypes ==
    /\ now \in Times \ {0} /\ lost \in Nat
    /\ cfg \in [names : SUBSET Names, policy : BOOLEAN]
    /\ broken \in SUBSET Names /\ caWindow \in Times
StoreTypes ==
    /\ row \in Rows /\ ledger \in Ledgers
    /\ fb \in SUBSET Names /\ order \in SUBSET Names
MemoryTypes ==
    /\ cool \in [Names -> Int] /\ transient \in Int /\ pass \in Passes
    /\ lacks \in SUBSET Names /\ spent \in Nat
QuotaTypes ==
    /\ bucket \in Buckets
    /\ ca \in [level : Int, at : Int] /\ told \in Nat /\ unbooked \in Nat

\* A pass works on the configuration in force, since edits wait for it; the order it works
\* on is for the names it decided on, which are some of those configured.
PassShape ==
    /\ pass.set \subseteq pass.cfg
    /\ (At("solve") \/ At("finish") => order = pass.set)
    /\ (~At("idle") => pass.cfg = cfg.names)
    /\ (~At("idle") /\ pass.cfg # {} => pass.set # {})

\* The stored deadline is never before the latest instant the CA named.
DeadlineShape == told <= bucket.reset

\* The CA's own count, and the estimate before it is clamped at zero.
Counted == Least(level(bucket, now), Full)
CaShape == ca.level \in 0..Full /\ ca.at <= Real
EstimateShape == Counted <= CaLevel(ca, Real) + unbooked * Refill

\* While the certificate in effect is a recorded reduction, some record stands, a pass
\* knows of it, and something is left in the certificate.
RecordStands ==
    lacks # {} =>
        /\ fb \cap cfg.names # {}
        /\ cfg.names \ lacks # {}
        /\ (~At("idle") => pass.held \/ pass.unknown)
\* So a pass that has decided to order the full set is within the renewal window.
DecisionShape ==
    At("place") /\ pass.set = pass.cfg /\ lacks # {}
    /\ row.names = pass.cfg \ lacks /\ fb \in {{}, lacks} => now >= Due(row)

IssuanceInv ==
    /\ WorldTypes /\ StoreTypes /\ MemoryTypes /\ QuotaTypes
    /\ PassShape /\ DeadlineShape /\ CaShape /\ EstimateShape
    /\ RecordStands /\ DecisionShape

-----------------------------------------------------------------------------
(* Time: why the other names are reissued before the certificate expires *)

\* How the configured times have to fit together. What a mishap before the last issuance
\* left behind (a clock set back, an instant the CA named, old evidence) is over when the
\* renewal and the fallback begin; there is room for every failure the fallback waits for;
\* and evidence outlives a backoff, which is two units at most.
Timely ==
    /\ Life - RenewBefore > MaxMishaps + Refill
    /\ Life - BeforeExpiry >= MaxMishaps + Window
    /\ RenewBefore > 2 * AfterFailures /\ RenewBefore > 2 * MinFailures
    /\ BeforeExpiry >= 2 /\ Window >= 3

\* The clock's latest reading when the certificate in effect was issued, at most.
Quiet == row.after - Life + MaxMishaps
DueBy == row.after - RenewBefore

\* Whatever is waited for is not far off on a clock that never runs back.
BoundsShape ==
    /\ {steady, ran} \subseteq BOOLEAN
    /\ lost <= spent /\ spent <= MaxMishaps
    /\ transient <= now + lost + 2 /\ row.next <= now + lost + 2
    /\ row.ari <= now + lost /\ caWindow <= now + lost /\ bucket.reset <= now + lost + Refill
    /\ \A n \in Names : cool[n] <= now + lost + 1 /\ ledger[n].at <= now + lost
\* A pass that has begun waits for no backoff and keeps the policy it read.
BegunShape ==
    /\ Names # {} => row.names # {} /\ cfg.names # {}
    /\ ~At("idle") => pass.policy = cfg.policy /\ row.next <= now /\ transient <= now

\* Since the certificate was issued nothing unforeseen has happened: what is still waited
\* for dates from before, or from a failure whose backoff is longer.
Past(t, slack) == t <= now \/ t <= Quiet + slack
Settled ==
    /\ Past(transient, 2) /\ Past(bucket.reset, Refill) /\ Past(caWindow, 0) /\ Past(row.ari, 0)
    /\ \A n \in Names :
         /\ Past(cool[n], 1) \/ cool[n] <= row.next
         /\ ledger[n].n = 0 \/ Past(ledger[n].at + 1, 1) \/ ledger[n].at + 1 <= row.next
    /\ order # {} => At("solve") \/ At("finish")
    /\ ~At("idle") => ~pass.unknown
\* Before the first failure there is no evidence from this certificate's time, and there
\* never is any against a name that validates; once due, every pass fails or issues.
Old(n) == ledger[n].n = 0 \/ ledger[n].at <= Quiet
Fresh ==
    /\ row.fails = 0 => row.next <= now /\ now <= DueBy /\ \A n \in Names : Old(n)
    /\ \A n \in Names \ broken : Old(n)
    /\ At("idle") /\ ran /\ now >= DueBy => now < row.next

\* The failures still missing before the one broken name can be dropped, two units each.
Only(n) == broken \cap cfg.names = {n}
Evidence(n) == IF ledger[n].at >= DueBy - 1 THEN ledger[n].n ELSE 0
Short(n) == Greatest(Greatest(0, AfterFailures - row.fails), MinFailures - Evidence(n))
LastStart(n) == row.after - 1 - 2 * Short(n)
Promised == cfg.policy /\ Cardinality(cfg.names \ broken) >= MinNames
\* With no broken name the next pass issues; with one, its evidence stays recent, time is
\* left for the failures still missing, and then no pass orders it.
NoneBroken == broken \cap cfg.names = {} => now <= DueBy /\ row.next <= DueBy
Recent(n) == Evidence(n) > 0 => now <= ledger[n].at + 2 /\ row.next <= ledger[n].at + 2
EnoughTime(n) == Promised => now <= LastStart(n) /\ row.next <= LastStart(n)
NotOrdered(n) ==
    Promised /\ pass.pc \notin {"idle", "apply"} /\ n \in pass.set
        => Short(n) > 0 \/ now < row.after - BeforeExpiry
Countdown ==
    /\ NoneBroken
    /\ \A n \in Names : Only(n) => Recent(n) /\ EnoughTime(n) /\ NotOrdered(n)

\* No two names of the certificate fail at the same time.
AtMostOneBroken == \A m, n \in broken \cap cfg.names : m = n

TimeInv == BoundsShape /\ BegunShape /\ (steady => Settled /\ Fresh /\ Countdown)
=============================================================================
