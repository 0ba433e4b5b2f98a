------------------------------- MODULE Claims -------------------------------
(***************************************************************************)
(* The reconciler: who may work on a certificate, and when.                *)
(*                                                                         *)
(* A timer round tears down the names that left the desired state and then *)
(* walks the others; webhook triggers start passes in the background, each *)
(* on a goroutine of its own; a shutdown drains them; a reload swaps the   *)
(* whole reconciler. All of them meet at the claim on a name, at the wait  *)
(* group that Drain waits for and at the counters that decide who publishes*)
(* the quota gauges. A step is what one lock or one store call makes       *)
(* atomic. What Manager.Reconcile does to a name is left open but for its  *)
(* order and authorization rows, which a teardown must not leave behind    *)
(* (module Renewal has the inside of a pass).                              *)
(***************************************************************************)
EXTENDS Integers, FiniteSets

CONSTANTS
    Names,       \* certificate names
    NoName,      \* no name
    Workers,     \* bound: goroutines of started passes alive at once
    Triggers,    \* bound: webhook requests in progress at once
    Slots,       \* maxConcurrentStarts
    Once,        \* the timer-driven -once mode: one round, then drain
    Faults,      \* which mishaps happen
    MaxMishaps   \* bound: how many

ASSUME NamesAssumption == NoName \notin Names
ASSUME FiniteAssumption == IsFiniteSet(Workers) /\ IsFiniteSet(Triggers)
ASSUME BoundsAssumption == Slots \in Nat \ {0} /\ MaxMishaps \in Nat /\ Once \in BOOLEAN

VARIABLES
    want,       \* names in the desired-state document
    \* state.db
    known,      \* names with a certificates row
    left,       \* names with order or authorization rows
    marked,     \* names whose row carries orphan_cleaned_at
    \* Reconciler
    running,    \* the claims
    bg,         \* the wait group of started passes
    starting,   \* quotaStarting: triggers still registering passes
    passes,     \* quotaPasses: started passes not yet over
    published,  \* quotaPublished
    \* its goroutines
    worker,     \* a started pass: [pc, name]
    trigger,    \* a webhook request: [pc, name, todo]
    timer,      \* the daemon loop: [pc, name, todo, res, marks]
    \* the process
    proc,       \* up, draining (draining is set), drained, late
    cancelled,  \* the process context is cancelled
    mishaps,    \* faults so far
    \* history
    owed        \* a trigger began since the gauges were last published

store == <<known, left, marked>>
quota == <<starting, passes, published, owed>>
life == <<proc, cancelled>>
vars == <<want, store, running, bg, quota, worker, trigger, timer, life, mishaps>>

NoWorker == [pc |-> "free", name |-> NoName]
NoTrigger == [pc |-> "idle", name |-> NoName, todo |-> {}]
NewTimer == [pc |-> "due", name |-> NoName, todo |-> {}, res |-> {}, marks |-> {}]

Works == UNCHANGED mishaps
Mishap(f) == /\ f \in Faults /\ mishaps < MaxMishaps
             /\ mishaps' = mishaps + 1

NewProcess ==
    /\ running' = {} /\ bg' = 0
    /\ starting' = 0 /\ passes' = 0 /\ published' = FALSE /\ owed' = FALSE
    /\ worker' = [w \in Workers |-> NoWorker]
    /\ trigger' = [t \in Triggers |-> NoTrigger]
    /\ timer' = NewTimer
    /\ proc' = "up" /\ cancelled' = FALSE

Init ==
    /\ want \in SUBSET Names /\ known = {} /\ left = {} /\ marked = {}
    /\ running = {} /\ bg = 0
    /\ starting = 0 /\ passes = 0 /\ published = FALSE /\ owed = FALSE
    /\ worker = [w \in Workers |-> NoWorker]
    /\ trigger = [t \in Triggers |-> NoTrigger]
    /\ timer = NewTimer
    /\ proc = "up" /\ cancelled = FALSE /\ mishaps = 0

-----------------------------------------------------------------------------
(* The claim, the pass and its report                                      *)

Free(n) == n \notin running
Take(n) == running' = running \cup {n}
GiveBack(n) == running' = running \ {n}

\* Manager.Reconcile, one store call: an order is recorded or discarded, the
\* row is written.
Reconciles(n) ==
    /\ left' \in {left \cup {n}, left \ {n}}
    /\ known' \in {known, known \cup {n}}

\* It returns. A failed pass leaves a row behind, unless the pass was cancelled
\* or the write of that row failed too.
Returns(n) ==
    \/ Works /\ known' = known \cup {n}
    \/ Works /\ cancelled /\ UNCHANGED known
    \/ Mishap("store") /\ UNCHANGED known

\* publish: a pass ran for the name, so a mark on it is stale. A failure is
\* only logged.
\* Mutation: only the orphan sweep clears marks.
ClearsMark_SweepOnly(n) == Works /\ UNCHANGED marked
ClearsMark(n) ==
    \/ Works /\ marked' = marked \ {n}
    \/ n \in marked /\ Mishap("store") /\ UNCHANGED marked

-----------------------------------------------------------------------------
(* The quota gauges: published once per trigger                            *)

\* publishQuotaIfQuiet: the check and the claim are one step.
\* Mutation: the triggers still registering are not looked at.
PublishIfQuiet_PassesOnly ==
    \/ /\ ~published /\ passes = 0
       /\ published' = TRUE /\ owed' = FALSE
    \/ /\ published \/ passes # 0
       /\ UNCHANGED <<published, owed>>
PublishIfQuiet ==
    \/ /\ ~published /\ passes = 0 /\ starting = 0
       /\ published' = TRUE /\ owed' = FALSE
    \/ /\ published \/ passes # 0 \/ starting # 0
       /\ UNCHANGED <<published, owed>>

-----------------------------------------------------------------------------
(* A trigger: StartAll, StartNamed, StartCert                              *)

SetTrigger(t, pc, n, todo) ==
    trigger' = [trigger EXCEPT ![t] = [pc |-> pc, name |-> n, todo |-> todo]]

\* The desired state is resolved and the trigger counted. A draining
\* reconciler refuses it, but StartCert asks only when it starts the pass.
Arrive(t) ==
    /\ trigger[t].pc = "idle"
    /\ \E names \in SUBSET want :
         /\ proc = "up" \/ Cardinality(names) = 1
         /\ SetTrigger(t, "reset", NoName, names)
    /\ starting' = starting + 1
    /\ UNCHANGED <<want, store, running, bg, passes, published, owed, worker, timer, life,
                   mishaps>>

\* beginQuotaTrigger's other half: a new quiet period.
Reset(t) ==
    /\ trigger[t].pc = "reset"
    /\ published' = FALSE /\ owed' = TRUE
    /\ SetTrigger(t, "loop", NoName, trigger[t].todo)
    /\ UNCHANGED <<want, store, running, bg, starting, passes, worker, timer, life, mishaps>>

\* beginPass: counted before Drain can wait, or refused. The one that is
\* refused ends the loop.
\* Mutation: nobody looks whether the reconciler is draining.
MayBegin_Always == TRUE
MayBegin == proc = "up"

Register(t) ==
    /\ trigger[t].pc = "loop"
    /\ \E n \in trigger[t].todo :
         \/ /\ MayBegin
            /\ bg' = bg + 1
            /\ SetTrigger(t, "claim", n, trigger[t].todo \ {n})
         \/ /\ ~MayBegin
            /\ SetTrigger(t, "loop", NoName, {})
            /\ UNCHANGED bg
    /\ UNCHANGED <<want, store, running, quota, worker, timer, life, mishaps>>

\* A name somebody works on is skipped, and the registration undone.
\* Mutation: it is undone twice.
Unregister_Twice == bg' = bg - 2
Unregister == bg' = bg - 1

Skip(t) ==
    /\ trigger[t].pc = "claim" /\ ~Free(trigger[t].name)
    /\ Unregister
    /\ SetTrigger(t, "loop", NoName, trigger[t].todo)
    /\ UNCHANGED <<want, store, running, quota, worker, timer, life, mishaps>>

\* The claim, the count and the goroutine: until the trigger ends nobody can
\* publish, so no one can tell the three apart.
Start(t) ==
    /\ trigger[t].pc = "claim" /\ Free(trigger[t].name)
    /\ Take(trigger[t].name)
    /\ passes' = passes + 1 /\ published' = FALSE
    /\ \E w \in Workers :
         /\ worker[w].pc = "free"
         /\ worker' = [worker EXCEPT ![w] = [pc |-> "queued", name |-> trigger[t].name]]
    /\ SetTrigger(t, "loop", NoName, trigger[t].todo)
    /\ UNCHANGED <<want, store, bg, starting, owed, timer, life, mishaps>>

\* endQuotaTrigger.
AfterTrigger == IF starting = 1 THEN "publish" ELSE "idle"

EndTrigger(t) ==
    /\ trigger[t].pc = "loop" /\ trigger[t].todo = {}
    /\ starting' = starting - 1
    /\ SetTrigger(t, AfterTrigger, NoName, {})
    /\ UNCHANGED <<want, store, running, bg, passes, published, owed, worker, timer, life,
                   mishaps>>

TriggerPublishes(t) ==
    /\ trigger[t].pc = "publish"
    /\ PublishIfQuiet
    /\ SetTrigger(t, "idle", NoName, {})
    /\ UNCHANGED <<want, store, running, bg, starting, passes, worker, timer, life, mishaps>>

-----------------------------------------------------------------------------
(* A started pass: startCert's goroutine and its deferred calls            *)

SetWorker(w, pc) == worker' = [worker EXCEPT ![w].pc = pc]

SlotFree == Cardinality({v \in Workers : worker[v].pc \in {"pass", "report"}}) < Slots

TakeSlot(w) ==
    /\ worker[w].pc = "queued"
    /\ SlotFree
    /\ SetWorker(w, "pass")
    /\ UNCHANGED <<want, store, running, bg, quota, trigger, timer, life, mishaps>>

\* Shutdown while it waits for a slot: it never runs.
Abandon(w) ==
    /\ worker[w].pc = "queued" /\ cancelled
    /\ SetWorker(w, "over")
    /\ UNCHANGED <<want, store, running, bg, quota, trigger, timer, life, mishaps>>

WorkerReconciles(w) ==
    /\ worker[w].pc = "pass"
    /\ Reconciles(worker[w].name)
    /\ UNCHANGED <<want, marked, running, bg, quota, worker, trigger, timer, life, mishaps>>

\* A panic is contained at the certificate: the report is skipped.
WorkerReturns(w) ==
    /\ worker[w].pc = "pass"
    /\ \/ Returns(worker[w].name) /\ SetWorker(w, "report")
       \/ Mishap("panic") /\ SetWorker(w, "over") /\ UNCHANGED known
    /\ UNCHANGED <<want, left, marked, running, bg, quota, trigger, timer, life>>

WorkerReports(w) ==
    /\ worker[w].pc = "report"
    /\ ClearsMark(worker[w].name)
    /\ SetWorker(w, "over")
    /\ UNCHANGED <<want, known, left, running, bg, quota, trigger, timer, life>>

\* The last pass of a batch publishes.
Uncount(w) ==
    /\ worker[w].pc = "over"
    /\ passes' = passes - 1
    /\ SetWorker(w, IF passes = 1 THEN "publish" ELSE "release")
    /\ UNCHANGED <<want, store, running, bg, starting, published, owed, trigger, timer, life,
                   mishaps>>

WorkerPublishes(w) ==
    /\ worker[w].pc = "publish"
    /\ PublishIfQuiet
    /\ SetWorker(w, "release")
    /\ UNCHANGED <<want, store, running, bg, starting, passes, trigger, timer, life, mishaps>>

WorkerReleases(w) ==
    /\ worker[w].pc = "release"
    /\ GiveBack(worker[w].name)
    /\ SetWorker(w, "done")
    /\ UNCHANGED <<want, store, bg, quota, trigger, timer, life, mishaps>>

Done(w) ==
    /\ worker[w].pc = "done"
    /\ bg' = bg - 1
    /\ worker' = [worker EXCEPT ![w] = NoWorker]
    /\ UNCHANGED <<want, store, running, quota, trigger, timer, life, mishaps>>

-----------------------------------------------------------------------------
(* A timer round: RunDetailed                                              *)

SetTimer(pc, n, todo) == timer' = [timer EXCEPT !.pc = pc, !.name = n, !.todo = todo]

\* The -once mode runs one round; the daemon one after the other.
Resolve ==
    /\ proc = "up"
    /\ timer.pc = "due" \/ (timer.pc = "idle" /\ ~Once)
    /\ timer' = [NewTimer EXCEPT !.pc = "list", !.res = want]
    /\ UNCHANGED <<want, store, running, bg, quota, worker, trigger, life, mishaps>>

\* The walk needs the names of the resolved document and nothing of the sweep.
StartWalk == timer' = [NewTimer EXCEPT !.pc = "walk", !.todo = timer.res]

\* publishOrphans lists the certificates rows, marks included, once.
ListOrphans ==
    /\ timer.pc = "list"
    /\ \/ /\ Works
          /\ timer' = [timer EXCEPT !.pc = "sweep", !.todo = known, !.marks = marked]
       \/ Mishap("store") /\ StartWalk
    /\ UNCHANGED <<want, store, running, bg, quota, worker, trigger, life>>

\* A wanted name loses its mark; an unwanted one that is marked or busy is
\* left alone.
SweepPast ==
    /\ timer.pc = "sweep"
    /\ \E n \in timer.todo :
         /\ \/ n \in timer.res \cap timer.marks /\ ClearsMark(n)
            \/ n \in timer.res \ timer.marks /\ Works /\ UNCHANGED marked
            \/ n \notin timer.res /\ (n \in timer.marks \/ ~Free(n)) /\ Works /\ UNCHANGED marked
         /\ SetTimer("sweep", NoName, timer.todo \ {n})
    /\ UNCHANGED <<want, known, left, running, bg, quota, worker, trigger, life>>

\* Any other unwanted name is claimed for its teardown.
\* Mutation: the claim is looked at, not taken.
ClaimForTeardown_LooksOnly(n) == Free(n) /\ UNCHANGED running
ClaimForTeardown(n) == Free(n) /\ Take(n)

SweepClaims ==
    /\ timer.pc = "sweep"
    /\ \E n \in timer.todo \ (timer.res \cup timer.marks) :
         /\ ClaimForTeardown(n)
         /\ SetTimer("cleanup", n, timer.todo \ {n})
    /\ UNCHANGED <<want, store, bg, quota, worker, trigger, life, mishaps>>

\* CleanupOrphan: the rows go, or one is kept because its TXT record could not
\* be reclaimed yet, or a call fails (here, or in reading the row or in dropping
\* the probe evidence).
CleanupOrphan ==
    /\ timer.pc = "cleanup"
    /\ \/ /\ Works
          /\ left' = left \ {timer.name}
          /\ SetTimer("mark", timer.name, timer.todo)
       \/ /\ Mishap("linger")
          /\ UNCHANGED left
          /\ SetTimer("mark", timer.name, timer.todo)
       \/ /\ Mishap("cleanup")
          /\ left' \in {left, left \ {timer.name}}
          /\ SetTimer("leave", timer.name, timer.todo)
    /\ UNCHANGED <<want, known, marked, running, bg, quota, worker, trigger, life>>

\* MarkOrphanCleaned: refused while rows are left.
MayMark(n) == n \notin left

MarkCleaned ==
    /\ timer.pc = "mark"
    /\ \/ Works /\ MayMark(timer.name) /\ marked' = marked \cup {timer.name}
       \/ Works /\ ~MayMark(timer.name) /\ UNCHANGED marked
       \/ Mishap("store") /\ UNCHANGED marked
    /\ SetTimer("leave", timer.name, timer.todo)
    /\ UNCHANGED <<want, known, left, running, bg, quota, worker, trigger, life>>

TimerLeaves(n) == GiveBack(n)

LeaveOrphan ==
    /\ timer.pc = "leave"
    /\ TimerLeaves(timer.name)
    /\ SetTimer("sweep", NoName, timer.todo)
    /\ UNCHANGED <<want, store, bg, quota, worker, trigger, life, mishaps>>

EndSweep ==
    /\ timer.pc = "sweep" /\ timer.todo = {}
    /\ StartWalk
    /\ UNCHANGED <<want, store, running, bg, quota, worker, trigger, life, mishaps>>

\* The walk: a busy name is skipped, a free one is claimed; a cancelled round
\* ends.
Walk ==
    /\ timer.pc = "walk" /\ ~cancelled
    /\ \E n \in timer.todo :
         \/ Free(n) /\ Take(n) /\ SetTimer("pass", n, timer.todo \ {n})
         \/ ~Free(n) /\ UNCHANGED running /\ SetTimer("walk", NoName, timer.todo \ {n})
    /\ UNCHANGED <<want, store, bg, quota, worker, trigger, life, mishaps>>

TimerReconciles ==
    /\ timer.pc = "pass"
    /\ Reconciles(timer.name)
    /\ UNCHANGED <<want, marked, running, bg, quota, worker, trigger, timer, life, mishaps>>

TimerReturns ==
    /\ timer.pc = "pass"
    /\ \/ Returns(timer.name) /\ SetTimer("report", timer.name, timer.todo)
       \/ Mishap("panic") /\ SetTimer("over", timer.name, timer.todo) /\ UNCHANGED known
    /\ UNCHANGED <<want, left, marked, running, bg, quota, worker, trigger, life>>

TimerReports ==
    /\ timer.pc = "report"
    /\ ClearsMark(timer.name)
    /\ SetTimer("over", timer.name, timer.todo)
    /\ UNCHANGED <<want, known, left, running, bg, quota, worker, trigger, life>>

TimerReleases ==
    /\ timer.pc = "over"
    /\ GiveBack(timer.name)
    /\ SetTimer("walk", NoName, timer.todo)
    /\ UNCHANGED <<want, store, bg, quota, worker, trigger, life, mishaps>>

EndRound ==
    /\ timer.pc = "walk" /\ (cancelled \/ timer.todo = {})
    /\ timer' = [NewTimer EXCEPT !.pc = "idle"]
    /\ UNCHANGED <<want, store, running, bg, quota, worker, trigger, life, mishaps>>

-----------------------------------------------------------------------------
(* The process                                                             *)

\* The document changes. (Counted with the mishaps, to bound it.)
Edit ==
    /\ Mishap("edit")
    /\ want' \in SUBSET Names \ {want}
    /\ UNCHANGED <<store, running, bg, quota, worker, trigger, timer, life>>

\* reload runs in the daemon loop, under the lock every trigger holds, and only
\* when no name is claimed. A goroutine past its claim goes on with the old
\* reconciler, and all it has left is that one's wait group.
Idle == running = {}

Reload ==
    /\ ~Once /\ proc = "up" /\ timer.pc = "idle"
    /\ \A t \in Triggers : trigger[t].pc = "idle"
    /\ Idle
    /\ running' = {} /\ bg' = 0
    /\ starting' = 0 /\ passes' = 0 /\ published' = FALSE
    /\ worker' = [w \in Workers |->
                    IF worker[w].pc = "done" THEN NoWorker ELSE worker[w]]
    /\ UNCHANGED <<want, store, owed, trigger, timer, life, mishaps>>

\* A stop signal.
Cancel ==
    /\ proc = "up" /\ ~cancelled
    /\ Mishap("stop")
    /\ cancelled' = TRUE
    /\ UNCHANGED <<want, store, running, bg, quota, worker, trigger, timer, proc>>

\* The daemon loop is over, or the one round is: no new passes from here on.
\* The listeners are closed asynchronously, so triggers still arrive.
BeginDrain ==
    /\ proc = "up"
    /\ \/ Once /\ timer.pc = "idle"
       \/ ~Once /\ cancelled /\ timer.pc \in {"due", "idle"}
    /\ proc' = "draining"
    /\ UNCHANGED <<want, store, running, bg, quota, worker, trigger, timer, cancelled,
                   mishaps>>

\* Wait returns, or the deadline passes.
AllDone == bg = 0

DrainReturns ==
    /\ proc = "draining"
    /\ AllDone
    /\ proc' = "drained"
    /\ UNCHANGED <<want, store, running, bg, quota, worker, trigger, timer, cancelled,
                   mishaps>>

DrainTimesOut ==
    /\ proc = "draining" /\ ~AllDone
    /\ Mishap("timeout")
    /\ proc' = "late"
    /\ UNCHANGED <<want, store, running, bg, quota, worker, trigger, timer, cancelled>>

\* The store is closed, the process ends and another one starts.
Exit ==
    /\ proc \in {"drained", "late"}
    /\ NewProcess
    /\ UNCHANGED <<want, store, mishaps>>

Crash ==
    /\ Mishap("crash")
    /\ NewProcess
    /\ UNCHANGED <<want, store>>

-----------------------------------------------------------------------------
TriggerStep(t) ==
    \/ Reset(t) \/ Register(t) \/ Skip(t) \/ Start(t) \/ EndTrigger(t) \/ TriggerPublishes(t)
AfterPass(w) ==
    \/ WorkerReturns(w) \/ WorkerReports(w) \/ Uncount(w) \/ WorkerPublishes(w)
    \/ WorkerReleases(w) \/ Done(w)
WorkerStep(w) == TakeSlot(w) \/ Abandon(w) \/ WorkerReconciles(w) \/ AfterPass(w)
Sweep ==
    \/ ListOrphans \/ SweepPast \/ SweepClaims \/ CleanupOrphan \/ MarkCleaned \/ LeaveOrphan
    \/ EndSweep
Round ==
    \/ Resolve \/ Sweep \/ Walk \/ TimerReturns \/ TimerReports \/ TimerReleases \/ EndRound
ProcessStep == Reload \/ Cancel \/ BeginDrain \/ DrainReturns \/ DrainTimesOut \/ Exit \/ Crash

Next ==
    \/ \E t \in Triggers : Arrive(t) \/ TriggerStep(t)
    \/ \E w \in Workers : WorkerStep(w)
    \/ Round \/ TimerReconciles \/ Edit \/ ProcessStep

Spec == Init /\ [][Next]_vars

\* Goroutines run on, a pass returns, a blocked slot is handed on in order,
\* the timer starts the next round, a drain goes on to the end of the process.
Fairness ==
    /\ \A t \in Triggers : WF_vars(TriggerStep(t))
    /\ \A w \in Workers : WF_vars(AfterPass(w)) /\ WF_vars(Abandon(w)) /\ SF_vars(TakeSlot(w))
    /\ WF_vars(Round)
    /\ WF_vars(BeginDrain) /\ WF_vars(DrainReturns) /\ WF_vars(Exit)

LiveSpec == Spec /\ Fairness

-----------------------------------------------------------------------------
(* Properties                                                              *)

\* Type correctness of every variable.
HoldingPcs == {"queued", "pass", "report", "over", "publish", "release"}
TearingPcs == {"cleanup", "mark", "leave"}
WalkingPcs == {"pass", "report", "over"}
WorkerType == [pc : {"free", "done"} \cup HoldingPcs, name : Names \cup {NoName}]
TriggerType == [pc : {"idle", "reset", "loop", "claim", "publish"},
                name : Names \cup {NoName}, todo : SUBSET Names]
TimerType == [pc : {"due", "idle", "list", "sweep", "walk"} \cup TearingPcs \cup WalkingPcs,
              name : Names \cup {NoName}, todo : SUBSET Names, res : SUBSET Names,
              marks : SUBSET Names]
TypeOK ==
    /\ want \subseteq Names /\ known \subseteq Names /\ left \subseteq Names
    /\ marked \subseteq Names /\ running \subseteq Names
    /\ bg \in Nat /\ starting \in Nat /\ passes \in Nat
    /\ published \in BOOLEAN /\ owed \in BOOLEAN
    /\ worker \in [Workers -> WorkerType] /\ trigger \in [Triggers -> TriggerType]
    /\ timer \in TimerType
    /\ proc \in {"up", "draining", "drained", "late"} /\ cancelled \in BOOLEAN
    /\ mishaps \in 0..MaxMishaps

Holds(w) == worker[w].pc \in HoldingPcs
TimerHolds == timer.pc \in TearingPcs \cup WalkingPcs

\* Whoever works on a name - a started pass, the round's pass, a teardown - is
\* the only one, and its claim is there to refuse others.
OneAtATime ==
    /\ \A w \in Workers : Holds(w) => worker[w].name \in running
    /\ \A w, v \in Workers : Holds(w) /\ Holds(v) /\ worker[w].name = worker[v].name => w = v
    /\ TimerHolds => /\ timer.name \in running
                     /\ \A w \in Workers : Holds(w) => worker[w].name # timer.name

\* No claim outlives its holder: that would wedge the name for good.
NoClaimLeaks ==
    \A n \in running : \/ \E w \in Workers : Holds(w) /\ worker[w].name = n
                       \/ TimerHolds /\ timer.name = n

\* A claim is one worker's, from its taking to its giving back on every path.
ClaimsHold == OneAtATime /\ NoClaimLeaks

\* The wait group counts every pass that was accepted, from before its claim to
\* after its last write.
Accepted == {w \in Workers : worker[w].pc # "free"}
Registering == {t \in Triggers : trigger[t].pc = "claim"}
DrainWaitsForAll == bg = Cardinality(Accepted) + Cardinality(Registering)

\* When Drain has returned without a timeout nothing writes to the store that
\* is about to be closed, and nothing is going to.
QuietAfterDrain == proc = "drained" => Accepted = {} /\ Registering = {} /\ ~TimerHolds

\* No pass is added to an empty wait group that may be waited on (the fatal
\* "WaitGroup is reused").
NoAddFromZero == [][ proc # "up" /\ bg = 0 => bg' = 0 ]_vars

\* A shutdown waits for all there is, and nothing comes after it.
DrainIsFinal == [](DrainWaitsForAll /\ QuietAfterDrain) /\ NoAddFromZero

\* One publication per trigger: every publication has a trigger that began
\* since the last one, however its passes came and went.
PublishedOncePerTrigger == [][ published' /\ ~published => owed ]_vars

\* And never none: with no trigger and no pass in progress nothing is owed.
QuietMeansPublished ==
    (\A t \in Triggers : trigger[t].pc = "idle") /\ (\A w \in Workers : ~Holds(w)) => ~owed

\* The gauges are published exactly once per quiet period, whichever goroutine is last.
PublishedExactlyOnce == []QuietMeansPublished /\ PublishedOncePerTrigger

\* Every order or authorization row of a name that left the document belongs to
\* a name the orphan sweep will list.
OrphanIsListed == \A n \in (left \ want) \ running : n \in known

\* Orphans are cleared: a marked one nobody works on has nothing left to reclaim, and
\* what a listed, unmarked one left behind is reclaimed in the end.
OrphansAreCleared ==
    /\ [](\A n \in (marked \ want) \ running : n \notin left)
    /\ \A n \in Names :
         n \in (left \cap known) \ (want \cup marked) ~> n \notin left \/ n \in want
=============================================================================
