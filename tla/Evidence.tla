------------------------------ MODULE Evidence ------------------------------
(* What the inventory page says of the endpoints, and the evidence it says it from   *)
(* (internal/probe, internal/reconcile/pass.go, probe_answers.go, probe_series.go,   *)
(* internal/inventory, internal/webhook/inventory.go). After its work a pass dials   *)
(* every name of the stored certificate at every address; the runner keeps the       *)
(* conclusion per host, the database per certificate and host; the end of a round    *)
(* drops what it holds of hosts nobody probes any more. A certificate is identified  *)
(* by its site and its version: in names or notAfter, which a probe compares, any    *)
(* two of them differ.                                                               *)
EXTENDS Naturals

CONSTANTS Sites,       \* certificate names
          NoSite,      \* the site of a certificate that is not ours
          Hosts,       \* the names that can be dialled
          Addresses,   \* the addresses a host resolves to
          MaxVers,     \* bound on the versions of a certificate
          Sans,        \* the hosts each version covers
          MaxUpsets,   \* bound on edits, changes at the endpoints, failures and restarts
          MaxTriggers  \* bound on passes started by a request

Vers == 1..MaxVers
ASSUME EvidenceAssumption ==
    /\ NoSite \notin Sites /\ MaxVers \in Nat \ {0} /\ MaxUpsets \in Nat /\ MaxTriggers \in Nat
    /\ Sans \in [Sites -> [Vers -> SUBSET Hosts]]

VARIABLES
    doc,       \* the document: the version of each certificate it asks for, 0 for none
    row,       \* certificates: the version issued, and is its binding confirmed?
    net,       \* what each address of a host serves
    answers,   \* the runner's memory: the last conclusion about a host
    lock,      \* the runner's mutex per host: who checks it
    recorded,  \* probedHosts: the hosts probed since the last round's reclaim
    samples,   \* probe_samples: the last conclusion stored per certificate and host
    marked,    \* the certificates torn down since they left the document
    pass,      \* the pass that holds the claim of a certificate
    round,     \* the round in progress
    late,      \* history: the passes that began after the round's snapshot
    fresh,     \* history: which certificate's pass has recorded which host in this round
    upsets, triggers
evidence == <<doc, row, net, answers, lock, recorded, samples, marked, pass, round, late,
              fresh, upsets, triggers>>

Leaf(s, v) == [site |-> s, ver |-> v, sound |-> TRUE]
Foreign == [site |-> NoSite, ver |-> 0, sound |-> TRUE]
Silent == [site |-> NoSite, ver |-> 0, sound |-> FALSE] \* no handshake completes
Everywhere(x) == [a \in Addresses |-> x]

NoPass == [pc |-> "idle", ver |-> 0, at |-> [h \in Hosts |-> "done"]]
NoRound == [pc |-> "idle", doc |-> [s \in Sites |-> 0], left |-> {}, on |-> NoSite,
            current |-> {}, busy |-> {}, todo |-> {}]

EvidenceInit ==
    /\ doc = [s \in Sites |-> 1] /\ row = [s \in Sites |-> [ver |-> 0, bound |-> FALSE]]
    /\ net = [h \in Hosts |-> Everywhere(Foreign)]
    /\ answers = [h \in Hosts |-> "none"] /\ lock = [h \in Hosts |-> NoSite]
    /\ recorded = {} /\ samples = [s \in Sites |-> [h \in Hosts |-> "none"]]
    /\ marked = {} /\ pass = [s \in Sites |-> NoPass] /\ round = NoRound
    /\ late = {} /\ fresh = {} /\ upsets = 0 /\ triggers = 0

Upset == upsets < MaxUpsets /\ upsets' = upsets + 1
InFlight == {s \in Sites : pass[s] # NoPass}
HostsOf(s) == IF row[s].ver = 0 THEN {} ELSE Sans[s][row[s].ver]

-----------------------------------------------------------------------------
(* The verdict of a check, and what the page shows                                  *)

\* Check, with Verify per address: one wrong answer is a mismatch whatever the others
\* say, and an address that did not answer leaves the rest unproven.
Conclusion(h, s, v) ==
    LET served == {net[h][a] : a \in Addresses} \ {Silent} IN
    IF served = {} THEN "unreachable"
    ELSE IF served # {Leaf(s, v)} THEN "mismatch"
    ELSE IF \E a \in Addresses : net[h][a] = Silent THEN "unreachable"
    ELSE "match"

\* Mutation: an endpoint that does not answer leaves the last verdict.
Recorded_KeepsVerdict(h, conclusion) ==
    IF conclusion = "unreachable" /\ answers[h] # "none" THEN answers
    ELSE [answers EXCEPT ![h] = conclusion]

\* What a check leaves in the runner's memory: every conclusion replaces the last one.
Recorded(h, conclusion) == [answers EXCEPT ![h] = conclusion]

\* The evidence on a row: the answers of this process, and only when it has none the
\* samples stored before.
Shown(s) ==
    LET live == {answers[h] : h \in HostsOf(s)} \ {"none"} IN
    IF live # {} THEN live ELSE {samples[s][h] : h \in Hosts} \ {"none"}

\* statusOf from the deployment on; the states other modules model come before it.
Verdict(seen) ==
    CASE "mismatch" \in seen -> "probe_mismatch"
      [] "mismatch" \notin seen /\ "unreachable" \in seen -> "probe_unreachable"
      [] seen = {} -> "probe_unknown"
      [] OTHER -> "ok"
Status(s) ==
    CASE row[s].ver = 0 -> "not_issued"
      [] row[s].ver # 0 /\ ~row[s].bound -> "waiting_manual_bind"
      [] OTHER -> Verdict(Shown(s))

-----------------------------------------------------------------------------
(* Passes                                                                           *)

\* A pass claims its certificate; it works from the document its caller resolved.
Claims(s, v) ==
    /\ pass[s] = NoPass
    /\ pass' = [pass EXCEPT ![s] = [NoPass EXCEPT !.pc = "work", !.ver = v]]
    /\ late' = IF round.pc \in {"snapped", "reclaim"} THEN late \cup {s} ELSE late \ {s}

Trigger(s) ==
    /\ doc[s] # 0 /\ triggers < MaxTriggers /\ triggers' = triggers + 1
    /\ Claims(s, doc[s])
    /\ UNCHANGED <<doc, row, net, answers, lock, recorded, samples, marked, round, fresh, upsets>>

\* The manager's part: a version that is due is issued, and one whose names the stored
\* certificate does not have. The first waits for an operator to bind it, a later one is
\* switched; the switch may be confirmed before the edge follows.
Due(s, v) == v > row[s].ver \/ Sans[s][v] # HostsOf(s)
Work(s) ==
    LET v == pass[s].ver IN
    \/ ~Due(s, v) /\ UNCHANGED <<row, net, upsets>>
    \/ /\ Due(s, v) /\ row' = [row EXCEPT ![s].ver = v]
       /\ \/ /\ net' = [h \in Hosts |-> IF row[s].bound /\ h \in Sans[s][v]
                                        THEN Everywhere(Leaf(s, v)) ELSE net[h]]
             /\ UNCHANGED upsets
          \/ row[s].bound /\ Upset /\ UNCHANGED net

\* probeCert: nothing is dialled before the binding is confirmed. Every host is recorded
\* as probed before its check.
Reconcile(s) ==
    /\ pass[s].pc = "work" /\ Work(s)
    /\ LET hosts == IF row'[s].bound THEN Sans[s][row'[s].ver] ELSE {} IN
         /\ pass' = [pass EXCEPT ![s] = [pc |-> "probe", ver |-> row'[s].ver,
                     at |-> [h \in Hosts |-> IF h \in hosts THEN "wait" ELSE "done"]]]
         /\ recorded' = recorded \cup hosts
         /\ fresh' = fresh \cup ({s} \X hosts)
    /\ UNCHANGED <<doc, answers, lock, samples, marked, round, late, triggers>>

At(s, h, step) == pass' = [pass EXCEPT ![s].at[h] = step]

\* ProbeAll, under the host's lock; the addresses are dialled at one instant.
Dial(s, h) ==
    /\ pass[s].at[h] = "wait" /\ lock[h] = NoSite
    /\ lock' = [lock EXCEPT ![h] = s]
    /\ At(s, h, Conclusion(h, s, pass[s].ver))
    /\ UNCHANGED <<doc, row, net, answers, recorded, samples, marked, round, late, fresh,
                   upsets, triggers>>

\* The end of Check. A check whose context has died says nothing.
Judge(s, h) ==
    /\ pass[s].at[h] \in {"match", "mismatch", "unreachable"}
    /\ \/ answers' = Recorded(h, pass[s].at[h]) /\ UNCHANGED upsets
       \/ Upset /\ UNCHANGED answers
    /\ lock' = [lock EXCEPT ![h] = IF @ = s THEN NoSite ELSE @]
    /\ At(s, h, "judged")
    /\ UNCHANGED <<doc, row, net, recorded, samples, marked, round, late, fresh, triggers>>

\* What is stored is the runner's answer as it is now.
Persist(s, h) ==
    /\ pass[s].at[h] = "judged"
    /\ \/ UNCHANGED upsets
          /\ samples' = IF answers[h] = "none" THEN samples
                        ELSE [samples EXCEPT ![s][h] = answers[h]]
       \/ Upset /\ UNCHANGED samples
    /\ At(s, h, "done")
    /\ UNCHANGED <<doc, row, net, answers, lock, recorded, marked, round, late, fresh, triggers>>

FinishPass(s) ==
    /\ pass[s].pc = "probe" /\ \A h \in Hosts : pass[s].at[h] = "done"
    /\ pass' = [pass EXCEPT ![s] = NoPass]
    /\ UNCHANGED <<doc, row, net, answers, lock, recorded, samples, marked, round, late, fresh,
                   upsets, triggers>>

-----------------------------------------------------------------------------
(* A round: RunDetailed                                                             *)

Listed(d) == {s \in Sites : d[s] # 0}
Orphans(d) == {s \in Sites \ (Listed(d) \cup marked) : row[s].ver # 0}

StartRound ==
    /\ round.pc = "idle"
    /\ round' = [round EXCEPT !.pc = "orphans", !.doc = doc, !.todo = Orphans(doc)]
    /\ marked' = marked \ Listed(doc)
    /\ UNCHANGED <<doc, row, net, answers, lock, recorded, samples, pass, late, fresh, upsets,
                   triggers>>

\* Forget and DeleteProbeSeries: the mutex of the host goes as well.
Forgets(hosts) ==
    /\ answers' = [h \in Hosts |-> IF h \in hosts THEN "none" ELSE answers[h]]
    /\ lock' = [h \in Hosts |-> IF h \in hosts THEN NoSite ELSE lock[h]]

\* publishOrphans: a claimed name is left to a later round; deleting the samples may
\* fail, and then the name is torn down again.
TearDown(s) ==
    /\ round.pc = "orphans" /\ s \in round.todo
    /\ round' = [round EXCEPT !.todo = @ \ {s}]
    /\ \/ s \in InFlight /\ UNCHANGED <<answers, lock, samples, marked, upsets>>
       \/ /\ s \notin InFlight /\ Forgets(HostsOf(s))
          /\ \/ /\ samples' = [samples EXCEPT ![s] = [h \in Hosts |-> "none"]]
                /\ marked' = marked \cup {s} /\ UNCHANGED upsets
             \/ Upset /\ UNCHANGED <<samples, marked>>
    /\ UNCHANGED <<doc, row, net, recorded, pass, late, fresh, triggers>>

\* One certificate after another; one whose claim is held is skipped.
Walk ==
    /\ round.pc = "orphans" /\ round.todo = {}
    /\ round' = [round EXCEPT !.pc = "walk", !.left = Listed(round.doc)]
    /\ UNCHANGED <<doc, row, net, answers, lock, recorded, samples, marked, pass, late, fresh,
                   upsets, triggers>>

Advance(s) ==
    /\ round.pc = "walk" /\ s \in round.left /\ round.on = NoSite
    /\ \/ /\ Claims(s, round.doc[s])
          /\ round' = [round EXCEPT !.left = @ \ {s}, !.on = s]
       \/ s \in InFlight /\ round' = [round EXCEPT !.left = @ \ {s}] /\ UNCHANGED <<pass, late>>
    /\ UNCHANGED <<doc, row, net, answers, lock, recorded, samples, marked, fresh, upsets, triggers>>

Waits == round.on # NoSite /\ pass[round.on] = NoPass
Arrive ==
    /\ round.pc = "walk" /\ Waits /\ round' = [round EXCEPT !.on = NoSite]
    /\ UNCHANGED <<doc, row, net, answers, lock, recorded, samples, marked, pass, late, fresh,
                   upsets, triggers>>

\* reclaimStaleProbeSeries: what was probed and what is in flight are read under one hold
\* of the claim lock.
Snapshot ==
    /\ round.pc = "walk" /\ round.left = {} /\ round.on = NoSite
    /\ round' = [round EXCEPT !.pc = "snapped", !.current = recorded, !.busy = InFlight]
    /\ recorded' = {} /\ late' = {}
    /\ UNCHANGED <<doc, row, net, answers, lock, samples, marked, pass, fresh, upsets, triggers>>

ListHosts ==
    /\ round.pc = "snapped"
    /\ round' = [round EXCEPT !.pc = "reclaim",
                              !.todo = {h \in Hosts \ round.current : answers[h] # "none"}]
    /\ UNCHANGED <<doc, row, net, answers, lock, recorded, samples, marked, pass, late, fresh,
                   upsets, triggers>>

\* The certificates the document the round resolved covers a host with; the first one
\* owns it.
Owners(h) == {s \in Listed(round.doc) : h \in Sans[s][round.doc[s]]}
\* Mutation: the claims are read when the host's turn comes, not with the record.
StillWorking_Later(s) == pass[s] # NoPass
StillWorking(s) == s \in round.busy
Kept(h, owner) ==
    IF owner = NoSite THEN \E s \in Sites \ Listed(round.doc) : StillWorking(s)
    ELSE StillWorking(owner) \/ ~row[owner].bound
ReclaimHost(h) ==
    /\ round.pc = "reclaim" /\ h \in round.todo
    /\ \E owner \in IF Owners(h) = {} THEN {NoSite} ELSE Owners(h) :
         IF Kept(h, owner) THEN UNCHANGED <<answers, lock>> ELSE Forgets({h})
    /\ round' = [round EXCEPT !.todo = @ \ {h}]
    /\ UNCHANGED <<doc, row, net, recorded, samples, marked, pass, late, fresh, upsets, triggers>>

\* What the passes still at work have recorded meanwhile is the next round's.
FinishRound ==
    /\ round.pc = "reclaim" /\ round.todo = {} /\ round' = NoRound
    /\ fresh' = {f \in fresh : f[2] \in recorded} /\ late' = {}
    /\ UNCHANGED <<doc, row, net, answers, lock, recorded, samples, marked, pass, upsets, triggers>>

-----------------------------------------------------------------------------
(* The world                                                                        *)

\* An operator edits the document, or binds a certificate and a refresh confirms it.
Edit(s, v) ==
    /\ v # doc[s] /\ (v = 0 \/ v >= row[s].ver) /\ Upset
    /\ doc' = [doc EXCEPT ![s] = v]
    /\ UNCHANGED <<row, net, answers, lock, recorded, samples, marked, pass, round, late, fresh,
                   triggers>>

Bind(s) ==
    /\ row[s].ver # 0 /\ ~row[s].bound
    /\ row' = [row EXCEPT ![s].bound = TRUE]
    /\ net' = [h \in Hosts |-> IF h \in HostsOf(s) THEN Everywhere(Leaf(s, row[s].ver)) ELSE net[h]]
    /\ UNCHANGED <<doc, answers, lock, recorded, samples, marked, pass, round, late, fresh,
                   upsets, triggers>>

\* An address stops answering, or serves another certificate or a chain nobody accepts.
Serves(h, a, x) ==
    /\ x # net[h][a] /\ Upset
    /\ net' = [net EXCEPT ![h][a] = x]
    /\ UNCHANGED <<doc, row, answers, lock, recorded, samples, marked, pass, round, late, fresh,
                   triggers>>
Presentable(h, a) ==
    {Silent, Foreign, [net[h][a] EXCEPT !.sound = FALSE]}
      \cup {Leaf(s, row[s].ver) : s \in {t \in Sites : h \in HostsOf(t)}}

\* The process ends, however it does, and starts again.
Reboot ==
    /\ Upset
    /\ answers' = [h \in Hosts |-> "none"] /\ lock' = [h \in Hosts |-> NoSite]
    /\ recorded' = {} /\ pass' = [s \in Sites |-> NoPass] /\ round' = NoRound
    /\ late' = {} /\ fresh' = {}
    /\ UNCHANGED <<doc, row, net, samples, marked, triggers>>

EvidenceNext ==
    \/ \E s \in Sites : \/ Trigger(s) \/ Reconcile(s) \/ FinishPass(s) \/ Bind(s)
                        \/ TearDown(s) \/ Advance(s)
                        \/ \E v \in 0..MaxVers : Edit(s, v)
                        \/ \E h \in Hosts : Dial(s, h) \/ Judge(s, h) \/ Persist(s, h)
    \/ StartRound \/ Walk \/ Arrive \/ Snapshot \/ ListHosts \/ FinishRound \/ Reboot
    \/ \E h \in Hosts : \/ ReclaimHost(h)
                        \/ \E a \in Addresses : \E x \in Presentable(h, a) : Serves(h, a, x)

\* What goes on by itself: the timer starts rounds, a round visits what it has to and
\* ends, calls end.
RoundGoesOn ==
    \/ StartRound \/ Walk \/ Arrive \/ Snapshot \/ ListHosts \/ FinishRound
    \/ \E s \in Sites : TearDown(s) \/ Advance(s)
    \/ \E h \in Hosts : ReclaimHost(h)
PassGoesOn(s) == Reconcile(s) \/ FinishPass(s) \/ \E h \in Hosts : Judge(s, h) \/ Persist(s, h)
PassDials(s) == \E h \in Hosts : Dial(s, h)

-----------------------------------------------------------------------------
(* Properties                                                                       *)

EvidenceType ==
    /\ doc \in [Sites -> 0..MaxVers] /\ marked \subseteq Sites /\ late \subseteq Sites
    /\ row \in [Sites -> [ver : 0..MaxVers, bound : BOOLEAN]]
    /\ recorded \subseteq Hosts /\ fresh \subseteq Sites \X Hosts
    /\ \A h \in Hosts : /\ answers[h] \in {"none", "match", "mismatch", "unreachable"}
                        /\ lock[h] \in Sites => pass[lock[h]] # NoPass
    /\ \A s \in Sites : pass[s].pc \in {"idle", "work", "probe"} /\ pass[s].ver \in 0..MaxVers

\* Once the document, the endpoints and the operator are quiet, every row of the page
\* comes to say what its endpoints serve, and keeps saying it: no answer outlives what it
\* was about, and no evidence of a live certificate is dropped for good. Two certificates
\* for one host share its answer, so nothing is claimed of them.
SharedHosts ==
    \E s, t \in Listed(doc) : s # t /\ HostsOf(s) \cap HostsOf(t) # {}
PageIsTrue ==
    \A s \in Listed(doc) : row[s].bound =>
        Status(s) = Verdict({Conclusion(h, s, row[s].ver) : h \in HostsOf(s)})
PageCatchesUp == <>[](SharedHosts \/ PageIsTrue)

\* The reclaim at the end of a round never drops the evidence of a host that a pass begun
\* before the round's snapshot has recorded in this round, however the two interleave:
\* for a certificate that alone owns the host, or has left the document.
LiveEvidenceKept ==
    [][\A f \in fresh :
         LET s == f[1] h == f[2] IN
         /\ round.pc = "reclaim" /\ s \notin late /\ answers[h] # "none"
         /\ IF s \in Listed(round.doc) THEN Owners(h) = {s} ELSE Owners(h) = {}
         => (answers'[h] # "none" \/ upsets' # upsets)]_evidence
=============================================================================
