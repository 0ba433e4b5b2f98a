---------------------- MODULE AdministrationInvariant ----------------------
(* Inductive invariants of the parts of Administration: what each step of  *)
(* a part leaves for the next one, beyond the types.                       *)
EXTENDS Administration

-----------------------------------------------------------------------------
(* Revocation                                                              *)

AttemptPcs == {"material", "send", "clear"}

\* What is requested and what an attempt works on was decided; what it clears is revoked.
OnlyDecided ==
    /\ request.id = NoCert => request = NoRequest
    /\ request.id # NoCert => request.id \in decided
    /\ \A p \in Askers : /\ at[p].pc \in AttemptPcs => at[p].id \in decided
                         /\ at[p].pc = "clear" => at[p].id \in revoked
    /\ at["cli"].pc # "rest" => at["cli"].asked # NoCert
    /\ at["daemon"].pc \notin {"record", "account"}
    /\ revoked \subseteq decided

\* Unless the operator may ask in the middle of the daemon's attempt, an attempt works on
\* what the request names, and what the command asked for is requested or revoked.
OneDecision ==
    /\ \A p \in Askers :
          at[p].pc \in AttemptPcs /\ request.id # NoCert => at[p].id = request.id
    /\ at["cli"].pc \in {"account", "read"} \cup AttemptPcs =>
          at["cli"].asked = request.id \/ at["cli"].asked \in revoked
    /\ said \subseteq revoked

RevocationInv ==
    RevocationType /\ OnlyDecided /\ (AskWhileInFlight \/ OneDecision)

-----------------------------------------------------------------------------
(* Console                                                                 *)

\* A change that has written the file and has still to send the signal.
WillSignal ==
    \/ change.kind = "create" /\ change.step = "signal"
    \/ change.kind = "delete" /\ change.step \in {"register", "forget", "signal"}
    \/ change.kind = "update" /\ change.step \in {"register", "signal"}

\* What the daemon runs with, or is about to, is behind the file only for a reason.
BehindForAReason ==
    /\ file # effective =>
          \/ hup \/ loop.pc = "load" \/ (loop.pc = "swap" /\ loop.candidate = file)
          \/ WillSignal \/ told
    /\ loop.pc = "swap" /\ loop.candidate # file => hup \/ WillSignal \/ told

\* The steps a change of each kind goes through; a domain set is what is registered.
ChangeShape ==
    change # NoChange =>
        /\ change.kind \in {"create", "update"} => change.to \in DomainSets
        /\ change.step = "forget" => change.kind = "delete"
ConsoleInv == ConsoleType /\ ChangeShape /\ BehindForAReason

-----------------------------------------------------------------------------
(* Lockout                                                                 *)

\* A count at the limit belongs to a block that outlasts its window; the map is small.
BlocksOutlast ==
    \A a \in Addrs : /\ entries[a].since <= clock
                     /\ entries[a].failures = MaxFailures =>
                            entries[a].until >= entries[a].since + BlockFor
MapIsBounded == IsFiniteSet(Tracked(entries)) /\ Cardinality(Tracked(entries)) <= MaxEntries
LockoutInv == LockoutType /\ BlocksOutlast /\ MapIsBounded

-----------------------------------------------------------------------------
(* Confirmation                                                            *)

Grants == [source : RestoreFrom, digest : Versions, expires : 0..(MaxTime + TTL)]
Asked == [pc : {"consume", "stage", "refused", "done"}, token : Tokens,
          source : RestoreFrom, digest : Versions, was : Versions]
ConfirmationShape ==
    /\ grants \in [Tokens -> Grants \cup {NoGrant}]
    /\ asks \in [Requests -> Asked \cup {NotAsked}]

Confirming == {r \in Requests : asks[r].pc = "stage"}
\* A token that was accepted or used is spent, and was accepted for one request.
SpentOnce ==
    /\ \A t \in Tokens : grants[t] # NoGrant => t <= minted
    /\ \A r \in Confirming : /\ asks[r].token <= minted /\ grants[asks[r].token] = NoGrant
                           /\ asks[r].was = asks[r].digest /\ asks[r].was # 0
    /\ \A r, q \in Confirming : asks[r].token = asks[q].token => r = q
    /\ \A s \in staged : s.token \in Tokens /\ grants[s.token] = NoGrant
    /\ \A s \in staged, r \in Confirming : s.token # asks[r].token
ConfirmationInv == ConfirmationType /\ ConfirmationShape /\ SpentOnce /\ OneRestorePerChallenge

-----------------------------------------------------------------------------
(* Evidence                                                                *)

Verdicts == {"match", "mismatch", "unreachable"}
EvidenceShape ==
    /\ answers \in [Hosts -> {"none"} \cup Verdicts]
    /\ lock \in [Hosts -> Sites \cup {NoSite}]
    /\ pass \in [Sites -> [pc : {"idle", "work", "probe"}, ver : 0..MaxVers,
                           at : [Hosts -> {"wait", "judged", "done"} \cup Verdicts]]]
    /\ round.pc \in {"idle", "orphans", "walk", "snapped", "reclaim"}
    /\ round.pc = "idle" => round.left = {}
    /\ round.doc \in [Sites -> 0..MaxVers] /\ round.left \subseteq Listed(round.doc)
    /\ round = [pc |-> round.pc, doc |-> round.doc, left |-> round.left, on |-> round.on,
                current |-> round.current, busy |-> round.busy, todo |-> round.todo]

\* A pass has a version to work for, a bound row one to serve, and who holds the mutex
\* of a host is checking it.
WorkShape ==
    /\ \A s \in Sites : /\ pass[s].pc # "idle" => pass[s].ver # 0
                        /\ pass[s].pc = "idle" => pass[s] = NoPass
                        /\ pass[s].pc = "work" => pass[s].at = NoPass.at
                        /\ row[s].bound => row[s].ver # 0
    /\ \A h \in Hosts : lock[h] \in Sites =>
          pass[lock[h]].pc = "probe" /\ pass[lock[h]].at[h] \in Verdicts

\* Evidence recorded in this round is in the round's record of hosts, unless the pass
\* that recorded it was in flight when the record was taken.
FreshIsKnown ==
    /\ round.pc \notin {"snapped", "reclaim"} => \A f \in fresh : f[2] \in recorded
    /\ round.pc \in {"snapped", "reclaim"} =>
          /\ \A f \in fresh : f[2] \in round.current \/ f[1] \in round.busy \/ f[1] \in late
          /\ \A s \in InFlight : s \in round.busy \/ s \in late
    /\ round.pc = "reclaim" => round.todo \subseteq Hosts \ round.current
EvidenceInv == EvidenceType /\ EvidenceShape /\ WorkShape /\ FreshIsKnown

-----------------------------------------------------------------------------
(* Onboarding                                                              *)

Memories == [names : SUBSET Declarable, declared : SUBSET Declarable,
             revision : SUBSET Declarable, absent : [Declarable -> {Here} \cup Ages],
             changes : [0..BudgetWindow -> Nat]]
\* A marker is no older than the time finished runs have missed the name for, and a run
\* marks only what it saw was not declared.
Unmarked(age) == IF age = Here THEN 0 ELSE age
MarkersAreHonest ==
    /\ \A n \in Declarable : memory.absent[n] <= unseen[n]
    /\ run.at # "idle" => \A n \in Declarable :
          \/ run.memory.absent[n] = Here
          \/ n \notin run.memory.declared /\ run.memory.absent[n] <= Unmarked(unseen[n])
OnboardingInv ==
    /\ OnboardingType /\ memory \in Memories
    /\ run \in [at : {"idle", "document", "state"}, document : SUBSET Declarable,
                memory : Memories, force : BOOLEAN, guard : BOOLEAN]
OnboardingSafe == OnboardingInv /\ MarkersAreHonest

AdministrationInv ==
    /\ part \in Parts
    /\ RevocationInv /\ ConsoleInv /\ LockoutInv /\ ConfirmationInv /\ EvidenceInv
    /\ OnboardingSafe
=============================================================================
