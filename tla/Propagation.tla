----------------------------- MODULE Propagation -----------------------------
(***************************************************************************)
(* What the answers of the name servers let the DNS-01 solver conclude: is *)
(* a TXT value up, is it provably absent, may the CA be asked to look.     *)
(* Pure operators over what each server answers; module Challenges decides *)
(* which answers the network can give.                                     *)
(***************************************************************************)
EXTENDS Integers, Sequences, FiniteSets, FiniteSetsExt

\* One exchange with an authoritative address about one value. "silent" is a
\* transport error, an empty response or an answer still truncated over TCP.
Answers == {"has", "denies", "nonauth", "refused", "failed", "silent"}

\* exchangeDNS: UDP, then TCP when UDP was truncated, refused or silent; without
\* an answer over TCP the UDP answer stands. A truncated one counts as silent.
exchangeDNS(udp, tcp) ==
    IF udp \in {"refused", "silent"} /\ tcp # "silent" THEN tcp ELSE udp

\* probeTXTWithExchange: only silence is asked a second time.
probeTXT(first, second) == IF first = "silent" THEN second ELSE first

\* responseHasTXT on an authoritative answer that holds these values.
responseHasTXT(values, want) == IF want \in values THEN "has" ELSE "denies"

\* delegatedCount: name servers, not addresses.
delegatedCount(servers) == Cardinality({s.ns : s \in servers})

\* probeReadyWithDelegation: no address denies, and two name servers confirm
\* unless the delegation has only one.
probeReadyWithDelegation(servers, delegated, ans) ==
    LET confirming == {s.ns : s \in {x \in servers : ans[x] = "has"}}
        authorities == Max({delegated, delegatedCount(servers)})
    IN  /\ \A s \in servers : ans[s] # "denies"
        /\ confirming # {}
        /\ authorities >= 2 => Cardinality(confirming) >= 2

\* allAuthoritativeProbesUnreachable, over every record of the zone.
allUnreachable(servers, answersOf) ==
    /\ answersOf # {} /\ servers # {}
    /\ \A ans \in answersOf : \A s \in servers : ans[s] = "silent"

\* probeRecursive: what one recursive resolver after the other answers.
probeRecursive(ans) ==
    [confirmed |-> \E r \in DOMAIN ans : ans[r] = "has",
     denied    |-> \E r \in DOMAIN ans : ans[r] = "denies",
     reachable |-> Cardinality({r \in DOMAIN ans : ans[r] \in {"has", "denies"}})]

\* recursiveReady for one record: a denial holds it back, no resolver at all
\* answering does not.
recursiveReady(ans) ==
    LET v == probeRecursive(ans)
    IN  /\ ~v.denied
        /\ v.confirmed \/ (v.reachable = 0 /\ DOMAIN ans # {})

\* waitZone: the round in which the wait ends. auth and rec give the answers
\* about each record.
waitZone(servers, delegated, records, auth, rec) ==
    /\ \/ \A r \in records : probeReadyWithDelegation(servers, delegated, auth[r])
       \/ allUnreachable(servers, {auth[r] : r \in records})
    /\ \A r \in records : recursiveReady(rec[r])

\* LookupTXT: absent only when every address answered and denied.
LookupTXT(servers, ans) ==
    IF \E s \in servers : ans[s] = "has" THEN "found"
    ELSE IF servers # {} /\ \A s \in servers : ans[s] = "denies" THEN "absent"
    ELSE "unknown"

\* queryRecursive: the resolvers are asked in turn, each a second time after
\* silence; the first NOERROR or NXDOMAIN is the answer.
queryRecursive(first, second) ==
    LET got(i) == probeTXT(first[i], second[i])
        usable == {i \in DOMAIN first : got(i) \in {"answer", "nxdomain"}}
    IN  IF usable = {} THEN "error" ELSE got(Min(usable))

\* findZone: the SOA walk up the labels of a name. answers[i] is what the i-th
\* suffix of the name has: an SOA, the SOA of a public suffix, or none.
findZone(answers) ==
    LET hits == {i \in DOMAIN answers : answers[i] \in {"soa", "suffix"}}
    IN  hits # {} /\ answers[Min(hits)] = "soa"

\* authoritativeNS: the addresses of the names that resolve, and how many names
\* the delegation has.
authoritativeNS(names, addresses) ==
    LET resolved == {n \in names : addresses[n] # {}}
    IN  [servers   |-> UNION {{[ns |-> n, addr |-> x] : x \in addresses[n]} : n \in resolved},
         delegated |-> Cardinality(names),
         ok        |-> resolved # {}]

\* zoneContaining: the longest resolved zone a name falls in; zones and names are
\* sequences of labels, top level first.
zoneContaining(zones, name) ==
    LET above == {z \in zones : Len(z) <= Len(name) /\ SubSeq(name, 1, Len(z)) = z}
    IN  IF above = {} THEN <<>> ELSE CHOOSE z \in above : \A y \in above : Len(y) <= Len(z)
=============================================================================
