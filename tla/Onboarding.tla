----------------------------- MODULE Onboarding -----------------------------
(* wecert-onboard (internal/onboarding): a scheduled command turns the _wecert       *)
(* declarations in DNS into the desired-state document, and is slower to take a name *)
(* out than to put one in. What one run knows of earlier runs is a state file,       *)
(* written after the document. A certificate is the names of one registered domain,  *)
(* so a document, like the revision computed from it, is a set of names. A file lock *)
(* keeps runs apart, and nobody sees a run before its first write: what it reads and *)
(* computes is one step, and one that freezes or refuses to run is none.             *)
EXTENDS Integers, FiniteSets

CONSTANTS Declarable,    \* names a declaration may ask for
          DomainOf,      \* the registered domain of each
          Allowlists,    \* sets of registered domains a run may be told to allow
          RequireRule,   \* guard 1: a declared name needs a load balancer rule
          MaxNames,      \* names in one certificate
          DropPercent,   \* the abrupt-change fuse
          GracePeriod,   \* in days; so is
          BudgetWindow,
          Budget,        \* changes of the document within the window
          MaxMoves,      \* bound on edits of declarations and rules
          MaxSlips       \* bound on -force, interrupted runs and lost files

Domains == {DomainOf[n] : n \in Declarable}
ASSUME OnboardingAssumption ==
    /\ DOMAIN DomainOf = Declarable /\ Allowlists \subseteq SUBSET Domains
    /\ RequireRule \in BOOLEAN /\ {MaxNames, GracePeriod, BudgetWindow} \subseteq Nat \ {0}
    /\ {DropPercent, Budget, MaxMoves, MaxSlips} \subseteq Nat

VARIABLES
    asked,     \* the names declared in DNS
    ruled,     \* the names the load balancer has a rule for
    document,  \* the names in the desired-state document; none: there is no document
    memory,    \* the state file
    run,       \* the run in progress: what it will write
    unseen,    \* history: days since a finished run first missed a declaration
    moves, slips
onboarding == <<asked, ruled, document, memory, run, unseen, moves, slips>>

Ages == 0..GracePeriod
Here == -1
Nowhere == [n \in Declarable |-> Here]
\* changes counts the changes of each day of the window, today's first.
Blank == [names |-> {}, declared |-> {}, revision |-> {}, absent |-> Nowhere,
          changes |-> [a \in 0..BudgetWindow |-> 0]]
NoRun == [at |-> "idle", document |-> {}, memory |-> Blank, force |-> FALSE, guard |-> FALSE]

OnboardingInit ==
    /\ asked = {} /\ ruled = Declarable /\ document = {} /\ memory = Blank
    /\ run = NoRun /\ unseen = Nowhere /\ moves = 0 /\ slips = 0

Slip == slips < MaxSlips /\ slips' = slips + 1

\* recoverBaselineFromDocument: without a state file the document says what was covered.
Recovered ==
    IF memory.names = {}
    THEN [memory EXCEPT !.names = document,
                        !.declared = IF @ = {} THEN document ELSE @]
    ELSE memory

\* fuse: too many declarations are gone at once, and the document still has one of them.
Baseline(m) == IF m.declared = {} THEN m.names ELSE m.declared
Reflects == document # {} /\ document \subseteq asked
Blown(m) ==
    /\ 100 * Cardinality(Baseline(m) \ asked) > DropPercent * Cardinality(Baseline(m))
    /\ ~Reflects

\* resolve: what the allowlist and guard 1 let through. guard: could the rules be read?
Accepted(allow, guard) ==
    {n \in asked : DomainOf[n] \in allow /\ (RequireRule /\ guard => n \in ruled)}

\* applyGrace. A name that is declared but not accepted is kept, and is not absent.
Gone(m) == m.names \ asked
AgeOf(m, n) == IF m.absent[n] = Here THEN 0 ELSE m.absent[n]
Removed(m, force, guard) ==
    IF force THEN Gone(m)
    ELSE {n \in Gone(m) : guard /\ AgeOf(m, n) >= GracePeriod /\ n \notin ruled}
\* MarkAbsent keeps the first day. MarkPresent and the pruning clear every other marker.
\* Mutation: the markers of names that are back are not cleared.
Marked_NeverCleared(m) ==
    [n \in Declarable |-> IF n \in Gone(m) THEN AgeOf(m, n) ELSE m.absent[n]]
Marked(m) == [n \in Declarable |-> IF n \in Gone(m) THEN AgeOf(m, n) ELSE Here]

\* build: one certificate for each registered domain. One that has too many names, or
\* whose declarations disagree on its settings, stays as it was but for what is removed.
In(domain, names) == {n \in names : DomainOf[n] = domain}
Disagree(domain, eligible) == Cardinality(In(domain, eligible \cap asked)) > 1
Built(eligible, removed, conflicts) ==
    UNION {LET names == In(d, eligible)
           IN IF d \in conflicts \/ Cardinality(names) > MaxNames
              THEN In(d, document) \ removed ELSE names : d \in Domains}

\* budget: is the new document a change? The state file may be a document behind.
Changed(m, new) ==
    \/ new # m.revision /\ new # document
    \/ document # {} /\ new # document
Affordable(m) ==
    LET Sum[a \in 0..BudgetWindow] ==
            m.changes[a] + (IF a = 0 THEN 0 ELSE Sum[a - 1])
    IN Sum[BudgetWindow] < Budget

\* One run up to Commit. A declaration source that fails, a blown fuse, an empty result,
\* a domain the CA has blocked and a spent budget freeze it.
Evaluate(force, guard, allow, conflicts, blocked) ==
    LET m == Recovered
        removed == Removed(m, force, guard)
        eligible == Accepted(allow, guard) \cup (m.names \ removed)
        new == Built(eligible, removed, conflicts)
        changed == Changed(m, new)
    IN /\ run.at = "idle"
       /\ force \/ ~Blown(m)
       /\ \A d \in conflicts : Disagree(d, eligible)
       /\ new # {}
       /\ changed => force \/ (Affordable(m) /\ \A n \in new : DomainOf[n] \notin blocked)
       /\ run' = [at |-> "document", document |-> new, force |-> force, guard |-> guard,
                  memory |-> [names |-> eligible, declared |-> asked, revision |-> new,
                              absent |-> Marked(m),
                              changes |-> IF changed
                                          THEN [m.changes EXCEPT ![0] = @ + 1]
                                          ELSE m.changes]]
       /\ IF force THEN Slip ELSE UNCHANGED slips
       /\ UNCHANGED <<asked, ruled, document, memory, unseen, moves>>
Onboard ==
    \E force, guard \in BOOLEAN, allow \in Allowlists, conflicts, blocked \in SUBSET Domains :
        Evaluate(force, guard, allow, conflicts, blocked)

\* Commit: the document first ...
WriteDocument ==
    /\ run.at = "document" /\ run' = [run EXCEPT !.at = "state"]
    /\ document' = run.document
    /\ UNCHANGED <<asked, ruled, memory, unseen, moves, slips>>
\* ... then the state. (The report is last, and nothing reads it.)
SaveState ==
    /\ run.at = "state" /\ run' = NoRun
    /\ memory' = run.memory
    /\ unseen' = [n \in Declarable |-> IF n \in run.memory.declared THEN Here
                                       ELSE IF unseen[n] = Here THEN 0 ELSE unseen[n]]
    /\ UNCHANGED <<asked, ruled, document, moves, slips>>
\* A write fails, or the run is killed before it.
Interrupted ==
    /\ run.at # "idle" /\ Slip /\ run' = NoRun
    /\ UNCHANGED <<asked, ruled, document, memory, unseen, moves>>

\* The state file is cleared, or the document moved aside for a fresh start.
FileLost ==
    /\ run.at = "idle" /\ Slip
    /\ \/ memory' = Blank /\ UNCHANGED document
       \/ document' = {} /\ UNCHANGED memory
    /\ UNCHANGED <<asked, ruled, run, unseen, moves>>

\* The world: declarations and rules are edited between runs, and days pass (a run is
\* shorter than a day).
Edited ==
    /\ run.at = "idle" /\ moves < MaxMoves /\ moves' = moves + 1
    /\ \/ asked' \in SUBSET Declarable /\ UNCHANGED ruled
       \/ ruled' \in SUBSET Declarable /\ UNCHANGED asked
    /\ UNCHANGED <<document, memory, run, unseen, slips>>
Older(age) == IF age \in 0..(GracePeriod - 1) THEN age + 1 ELSE age
DayPasses ==
    /\ run.at = "idle"
    /\ memory' = [memory EXCEPT !.absent = [n \in Declarable |-> Older(@[n])],
                                !.changes = [a \in 0..BudgetWindow |->
                                             IF a = 0 THEN 0 ELSE @[a - 1]]]
    /\ unseen' = [n \in Declarable |-> Older(unseen[n])]
    /\ UNCHANGED <<asked, ruled, document, run, moves, slips>>

OnboardingNext ==
    \/ Onboard \/ WriteDocument \/ SaveState \/ Interrupted
    \/ FileLost \/ Edited \/ DayPasses

OnboardingType ==
    /\ asked \subseteq Declarable /\ ruled \subseteq Declarable /\ document \subseteq Declarable
    /\ \A m \in {memory, run.memory} :
          /\ {m.names, m.declared, m.revision} \subseteq SUBSET Declarable
          /\ m.absent \in [Declarable -> {Here} \cup Ages]
          /\ m.changes \in [0..BudgetWindow -> Nat]
    /\ run.at \in {"idle", "document", "state"} /\ run.document \subseteq Declarable
    /\ run.force \in BOOLEAN /\ run.guard \in BOOLEAN
    /\ unseen \in [Declarable -> {Here} \cup Ages]
    /\ moves \in 0..MaxMoves /\ slips \in 0..MaxSlips

\* Is n in a document no state file speaks of? (A run was stopped between its writes, or
\* the document is all there is.)
Unrecorded(n) == n \in document \ memory.names
\* A run that ends, that could read the rules.
Finished == SaveState /\ run.guard
Unwanted(n) == n \notin asked /\ n \notin ruled

\* Without -force a run takes a name out only when it is no longer declared, no rule
\* serves it, the rules could be read, and every run that finished within the grace
\* period missed it too - whatever flapped, was frozen, was interrupted or was lost in
\* between (applyGrace).
NamesStayUntilDue ==
    [][run.at = "idle" /\ run'.at = "document" /\ ~run'.force =>
           \A n \in document \ run'.document :
               \/ Unrecorded(n)
               \/ Unwanted(n) /\ run'.guard /\ unseen[n] >= GracePeriod]_onboarding

\* And it does take it out: once declarations and rules stand still and runs keep
\* finishing, no name is carried that nobody declares or serves.
NamesLeaveInDueTime ==
    /\ NamesStayUntilDue
    /\ []<><<Finished>>_onboarding /\ <>[][UNCHANGED <<asked, ruled>>]_onboarding
       => <>[](\A n \in document : Unwanted(n) => Unrecorded(n))
=============================================================================
