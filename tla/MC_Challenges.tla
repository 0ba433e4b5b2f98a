---------------------------- MODULE MC_Challenges ----------------------------
(* Small instances of Challenges for TLC. *)
EXTENDS Challenges, TLC
CONSTANTS a1, a2, b1, cA, cB
TwoAndOne == (a1 :> cA) @@ (a2 :> cA) @@ (b1 :> cB)
OneEach == (a1 :> cA) @@ (b1 :> cB)
Setting(p, t, fs, n) == [provider |-> p, triggers |-> t, faults |-> fs, budget |-> n]
Mostly == Mishaps \ {"hang delete", "blackout", "old row"}
Settled == {Setting("all", FALSE, Mostly, 2), Setting("own", FALSE, Mostly, 2),
            Setting("all", TRUE, {"slow"}, 1), Setting("all", FALSE, {"old row", "crash"}, 1),
            Setting("own", FALSE, {"crash", "drop", "refuse"}, 3)}
Overlap == {Setting("all", TRUE, {}, 0)}
\* The two certificates and their authorizations trade places.
Swap == {(a1 :> a1) @@ (b1 :> b1) @@ (cA :> cA) @@ (cB :> cB), (a1 :> b1) @@ (b1 :> a1) @@ (cA :> cB) @@ (cB :> cA)}

\* The pure parts of module Propagation against what they promise.
Paths == {<<"com">>, <<"com", "a">>, <<"com", "a", "x">>, <<"com", "b">>}
\* zoneContaining (dns_present.go): no resolved zone that contains the name is longer.
ASSUME ZoneContainingIsLongest ==
    \A zs \in SUBSET Paths, n \in Paths :
        LET z == zoneContaining(zs, n)
        IN  \A y \in zs : Len(y) <= Len(n) /\ SubSeq(n, 1, Len(y)) = y => Len(y) <= Len(z)
\* queryRecursive (dns_zone.go): a resolver that answers decides unless one before it did.
Responses == {"answer", "nxdomain", "servfail", "silent"}
ASSUME QueryRecursiveTakesFirst ==
    \A first, second \in [1..2 -> Responses] :
        LET a == probeTXT(first[1], second[1])
        IN  queryRecursive(first, second) =
              IF a \in {"answer", "nxdomain"} THEN a ELSE queryRecursive(<<first[2]>>, <<second[2]>>)
\* findZone (dns_zone.go): nothing above a public suffix is ever taken for the zone.
ASSUME FindZoneStopsAtSuffix ==
    \A up \in [1..3 -> {"none", "soa", "suffix"}] :
        findZone(up) <=> \E i \in 1..3 : up[i] = "soa" /\ \A j \in 1..(i - 1) : up[j] = "none"
\* probeReadyWithDelegation (dns_probe.go): two addresses of one name server are one
\* confirmation.
Homes == {[ns |-> "n1", addr |-> 4], [ns |-> "n1", addr |-> 6]}
ASSUME OneServerIsNotTwo ==
    \A ans \in [Homes -> Answers] : ~probeReadyWithDelegation(Homes, 2, ans)
=============================================================================
